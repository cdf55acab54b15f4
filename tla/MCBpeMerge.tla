------------------------------ MODULE MCBpeMerge ------------------------------
(* Words of up to five of two characters, one of which is no ASCII character, *)
(* and merge tables whose entries compete for the same symbols: every order   *)
(* of up to three entries, a repeated entry, and texts the vocabulary lacks.  *)
EXTENDS BpeMerge

BpeChar == {"a", "G"}
BpeWords == UNION {[1..k -> BpeChar] : k \in 0..4} \cup {<<"a", "G", "a", "a", "G">>}

OneA == <<"a">>
OneG == <<"G">>
MergePairs == {<<OneA, OneG>>, <<OneA, OneA>>, <<OneG, OneA>>, <<OneA \o OneG, OneA>>,
               <<OneA, OneG \o OneA>>}
Repeats(t) == \E i, j \in DOMAIN t : i # j /\ t[i] = t[j]
BpeTables ==
  {t \in UNION {[1..k -> MergePairs] : k \in 0..3} :
     Repeats(t) => Len(t) = 3 /\ t[1] = t[3]}
BpeUnlisted == {{OneA \o OneA, OneA \o OneG}}
=============================================================================
