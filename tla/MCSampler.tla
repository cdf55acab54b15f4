------------------------------ MODULE MCSampler ------------------------------
(* Vocabularies of up to four tokens with ties, every cut on and off and at   *)
(* the points where it begins to bite.                                        *)
EXTENDS Sampler

SmallRows == UNION {[1..j -> 0..2] : j \in 1..4}
PowersOfTwo == [l \in 0..2 |-> 2^l]
CutConfigs ==
  [greedy : {FALSE}, k : {-1, 1, 2, 3}, minP : {<<0, 1>>, <<1, 2>>, <<3, 8>>, <<1, 1>>},
   topP : {<<1, 1>>, <<1, 2>>, <<4, 5>>, <<0, 1>>}]
  \cup [greedy : {TRUE}, k : {0}, minP : {<<0, 1>>}, topP : {<<1, 1>>}]
=============================================================================
