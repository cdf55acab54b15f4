------------------------------- MODULE BpeRule -------------------------------
(***************************************************************************)
(* What byte-pair encoding promises: as long as two neighbouring pieces    *)
(* have a merge, the pair of lowest rank, the leftmost of them, becomes    *)
(* one piece; then it stops.                                               *)
(***************************************************************************)
EXTENDS Integers, Sequences

VARIABLES
  pieces,   \* the word, cut into pieces
  table     \* the merges, best first: a sequence of pairs of strings

ruleVars == <<pieces, table>>

Listed(l, r) == {i \in DOMAIN table : table[i] = <<l, r>>}

\* The place of a pair in the table; of two the later, as they are read into a map.
RankIn(l, r) == CHOOSE i \in Listed(l, r) : \A j \in Listed(l, r) : j <= i

Mergeable == {i \in 1..(Len(pieces) - 1) : Listed(pieces[i], pieces[i + 1]) # {}}
RankAt(i) == RankIn(pieces[i], pieces[i + 1])
Best == CHOOSE i \in Mergeable :
          \A j \in Mergeable : RankAt(i) < RankAt(j) \/ (RankAt(i) = RankAt(j) /\ i <= j)

RuleMerge ==
  /\ Mergeable # {}
  /\ pieces' = SubSeq(pieces, 1, Best - 1) \o <<pieces[Best] \o pieces[Best + 1]>>
               \o SubSeq(pieces, Best + 2, Len(pieces))
  /\ UNCHANGED table

\* Every piece is one character long at first.
RuleInit == \A i \in DOMAIN pieces : Len(pieces[i]) = 1

RuleSpec == RuleInit /\ [][RuleMerge]_ruleVars /\ WF_ruleVars(RuleMerge)
=============================================================================
