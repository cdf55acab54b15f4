------------------------------ MODULE MCDecoder ------------------------------
(* Four layers, every second one full attention as every fourth is in the    *)
(* real model, and more tokens than the convolution looks back.              *)
EXTENDS Decoder

CONSTANTS a, b

MCToken == {a, b}
MCWanted == {0, 1, 3}
=============================================================================
