----------------------------- MODULE ModelShape -----------------------------
(***************************************************************************)
(* The shape of the target model (Qwen35 of src/weights.rs) and what its   *)
(* layers compute, for the two programs that run it: Decoder on the CPU,   *)
(* DeviceSequence on the GPU.                                              *)
(*                                                                         *)
(* The numbers are abstracted to what they were computed from.  The vector *)
(* that enters a layer is the sequence of tokens it is the right function  *)
(* of: <<t>> at layer 0, which sees the embedding alone, and every token   *)
(* so far above it.  A layer that finds anything else in its cache returns *)
(* <<Bad>>, and so does every layer above it.                              *)
(***************************************************************************)
EXTENDS Integers, Sequences

CONSTANTS
  Token,
  Bad,        \* what a wrong vector stands for
  NLayers,    \* cfg.n_layer
  Interval,   \* cfg.interval: every Interval-th layer is full attention, none if 0
  NPrev       \* cfg.ssm_conv_kernel - 1

ASSUME ShapeAssumption ==
  /\ Bad \notin Token
  /\ NLayers \in Nat \ {0}
  /\ Interval \in Nat
  /\ NPrev \in Nat \ {0}

Layers == 0..(NLayers - 1)
IsFullAttention(l) == Interval > 0 /\ l % Interval = Interval - 1
AttnLayers == {l \in Layers : IsFullAttention(l)}
SsmLayers == Layers \ AttnLayers

\* How keys and values are stored (BONSAI_KV).
KvModes == {"f32", "f16", "planark", "planar"}

End(s) == s[Len(s)]

\* The input of layer l for the j-th token of s.
InputAt(l, s, j) == IF l = 0 THEN <<s[j]>> ELSE SubSeq(s, 1, j)

\* A layer that mixes the inputs "ins" of the tokens so far.
Mix(l, ins) ==
  LET s == [j \in 1..Len(ins) |-> End(ins[j])]
  IN  IF \A j \in 1..Len(ins) : ins[j] = InputAt(l, s, j) THEN s ELSE <<Bad>>

\* The convolution sees the NPrev inputs before the current one; before the
\* first token they are zero.
Zero == <<>>
ZeroConv == [i \in 1..NPrev |-> Zero]
WindowAt(ins, j) ==
  [i \in 1..(NPrev + 1) |-> IF j + i > NPrev + 1 THEN ins[j + i - NPrev - 1] ELSE Zero]

\* The delta net's answer depends on every window folded into its state.
Folded(l, windows) ==
  LET ins == [j \in 1..Len(windows) |-> End(windows[j])]
  IN  IF \A j \in 1..Len(ins) : windows[j] = WindowAt(ins, j) THEN Mix(l, ins) ELSE <<Bad>>
=============================================================================
