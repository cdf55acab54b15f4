-------------------------- MODULE MCDeviceSequence --------------------------
(* Two recurrent layers with one of full attention between them, and a      *)
(* descriptor pool that the widest window does not fit.                     *)
EXTENDS DeviceSequence

CONSTANTS a, b

MCToken == {a, b}
MCWidths == {0, 2, 3}
=============================================================================
