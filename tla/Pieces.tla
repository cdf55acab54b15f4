------------------------------- MODULE Pieces -------------------------------
(***************************************************************************)
(* Sums, products and concatenations of the first elements of a sequence,  *)
(* up to each, as the loops over the tensors of a file build them.          *)
(***************************************************************************)
EXTENDS Integers, Sequences

Sums(ns) == LET s[i \in 0..Len(ns)] == IF i = 0 THEN 0 ELSE s[i - 1] + ns[i] IN s
Total(ns) == Sums(ns)[Len(ns)]

Products(dims) == LET p[i \in 0..Len(dims)] == IF i = 0 THEN 1 ELSE p[i - 1] * dims[i] IN p

Together(ss) == LET s[i \in 0..Len(ss)] == IF i = 0 THEN <<>> ELSE s[i - 1] \o ss[i] IN s
Flat(ss) == Together(ss)[Len(ss)]

\* Of the elements of a sequence, those whose places are in S.
Those(ts, S) == Flat([i \in DOMAIN ts |-> IF i \in S THEN <<ts[i]>> ELSE <<>>])

\* Those that are in A.
Sifted(ts, A) == Those(ts, {i \in DOMAIN ts : ts[i] \in A})
=============================================================================
