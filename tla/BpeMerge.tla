------------------------------- MODULE BpeMerge -------------------------------
(***************************************************************************)
(* encode_word of src/tokenizer.rs: the merge loop over one byte-encoded   *)
(* word.  Symbols are a doubly linked list over the word's characters; a    *)
(* heap holds the pairs that had a merge when they became neighbours.       *)
(* Entries are never taken out when a neighbour changes: a popped entry is  *)
(* known to be stale by its text.                                           *)
(*                                                                          *)
(* Symbol i starts at character i, so its text is given by its length;      *)
(* 0 stands for the -1 that ends the list.  No RECURSIVE operator.          *)
(***************************************************************************)
EXTENDS Integers, Sequences, Pieces

CONSTANTS
  Char,      \* characters of the byte encoding
  Words,     \* the words to encode
  Tables,    \* the merges of a vocabulary, best first
  Ascii,     \* characters of one byte, which have a byte token
  Unlisted   \* sets of pieces that a vocabulary may lack

ASSUME BpeAssumption ==
  /\ Words \subseteq Seq(Char) /\ Ascii \subseteq Char
  /\ Tables \subseteq Seq((Seq(Char) \ {<<>>}) \X (Seq(Char) \ {<<>>}))

VARIABLES
  at,       \* "merge", "done" or "off"
  word, merges, lacks,
  n,        \* characters of each symbol; 0: merged into its left neighbour
  nxt, prv, \* the list
  heap,     \* entries [rank, left, text]
  out       \* the pieces of the tokens that were pushed

bpeVars == <<at, word, merges, lacks, n, nxt, prv, heap, out>>

Syms == 1..Len(word)

\* find_bpe_rank in the map that Vocab::from_gguf fills in order.
Ranks(l, r) == {i \in DOMAIN merges : merges[i] = <<l, r>>}
Rank(l, r) == CHOOSE i \in Ranks(l, r) : \A j \in Ranks(l, r) : j <= i

\* sym_str
TextOf(i, len) == SubSeq(word, i, i + len - 1)

\* add_new_bigram, of two neighbours with the given lengths.
Bigram(l, r, lens) ==
  IF l = 0 \/ r = 0 THEN {}
  ELSE LET a == TextOf(l, lens[l])
           b == TextOf(r, lens[r])
       IN  IF Ranks(a, b) = {} THEN {} ELSE {[rank |-> Rank(a, b), left |-> l, text |-> a \o b]}

-----------------------------------------------------------------------------
BpeIdle ==
  /\ at = "off" /\ word = <<>> /\ merges = <<>> /\ lacks = {}
  /\ n = <<>> /\ nxt = <<>> /\ prv = <<>> /\ heap = {} /\ out = <<>>

\* The list of single characters and the pairs among them.
BpeInit ==
  /\ at = "merge"
  /\ word \in Words /\ merges \in Tables /\ lacks \in Unlisted
  /\ n = [i \in Syms |-> 1]
  /\ nxt = [i \in Syms |-> IF i = Len(word) THEN 0 ELSE i + 1]
  /\ prv = [i \in Syms |-> i - 1]
  /\ heap = UNION {Bigram(i - 1, i, n) : i \in 2..Len(word)}
  /\ out = <<>>

\* The order of the heap: by rank, then from the left (the text decides nothing
\* more: of two entries of one rank the left ends differ).
Before_Right(e, f) == e.rank < f.rank \/ (e.rank = f.rank /\ e.left >= f.left)
Before(e, f) == e.rank < f.rank \/ (e.rank = f.rank /\ e.left <= f.left)
Top == CHOOSE e \in heap : \A f \in heap : Before(e, f)

Stale_Merged(e) ==
  LET r == nxt[e.left] IN IF r = 0 THEN TRUE ELSE n[e.left] = 0 \/ n[r] = 0
Stale(e) ==
  LET l == e.left
      r == nxt[l]
  IN  IF r = 0 THEN TRUE
      ELSE \/ n[l] = 0 \/ n[r] = 0
           \/ TextOf(l, n[l]) \o TextOf(r, n[r]) # e.text

Skip ==
  /\ at = "merge" /\ heap # {} /\ Stale(Top)
  /\ heap' = heap \ {Top}
  /\ UNCHANGED <<at, word, merges, lacks, n, nxt, prv, out>>

\* The pairs with the grown symbol's two neighbours, asked for after the merge.
NewPairs(l, lens, next) == Bigram(prv[l], l, lens) \cup Bigram(l, next, lens)

\* The neighbour behind the consumed symbol points back to the grown one.
BackLinks(l, r) == IF nxt[r] # 0 THEN [prv EXCEPT ![nxt[r]] = l] ELSE prv

Merge ==
  /\ at = "merge" /\ heap # {} /\ ~Stale(Top)
  /\ LET l == Top.left
         r == nxt[l]
         lens == [n EXCEPT ![l] = n[l] + n[r], ![r] = 0]
     IN  /\ n' = lens
         /\ nxt' = [nxt EXCEPT ![l] = nxt[r]]
         /\ prv' = BackLinks(l, r)
         /\ heap' = (heap \ {Top}) \cup NewPairs(l, lens, nxt[r])
  /\ UNCHANGED <<at, word, merges, lacks, out>>

\* One token for a piece the vocabulary has; else one per byte that has a token
\* of its own, and the other bytes are dropped.
AsciiOf(s) == Sifted(s, Ascii)
TokensOf_Whole(piece) == IF piece = <<>> \/ piece \in lacks THEN <<>> ELSE <<piece>>
TokensOf(piece) ==
  IF piece = <<>> THEN <<>>
  ELSE IF piece \notin lacks THEN <<piece>>
  ELSE [i \in DOMAIN AsciiOf(piece) |-> <<AsciiOf(piece)[i]>>]

Emit ==
  /\ at = "merge" /\ heap = {}
  /\ out' = Flat([i \in Syms |-> TokensOf(TextOf(i, n[i]))])
  /\ at' = "done"
  /\ UNCHANGED <<word, merges, lacks, n, nxt, prv, heap>>

BpeNext == Skip \/ Merge \/ Emit

\* The loop runs on the calling thread.
BpeFair == WF_bpeVars(BpeNext)

BpeSpec == BpeInit /\ [][BpeNext]_bpeVars /\ BpeFair
-----------------------------------------------------------------------------
Live == {i \in Syms : n[i] # 0}

\* The pieces from left to right.
PiecesNow == Those([i \in Syms |-> TextOf(i, n[i])], Live)

\* The list and the lengths agree: the live symbols are linked in order in both
\* directions and their texts are the word, without gap or overlap.
ListIsTheWord ==
  /\ word # <<>> => 1 \in Live
  /\ \A i \in Live :
       /\ nxt[i] # 0 => nxt[i] \in Live /\ nxt[i] = i + n[i] /\ prv[nxt[i]] = i
       /\ nxt[i] = 0 => i + n[i] = Len(word) + 1

\* An entry that passes the stale test is the pair it was queued for: its text
\* alone would not tell (x, yz) from (xy, z), which may have another rank.
FreshIsItsPair ==
  \A e \in heap : ~Stale(e) =>
    LET a == TextOf(e.left, n[e.left])
        b == TextOf(nxt[e.left], n[nxt[e.left]])
    IN  Ranks(a, b) # {} /\ e.rank = Rank(a, b)

\* No mergeable pair is forgotten: neighbours that have a merge are in the heap.
HeapComplete ==
  \A i \in Live : nxt[i] # 0 => Bigram(i, nxt[i], n) \subseteq heap

\* encode_word follows the rule of byte-pair encoding: skipped entries are
\* stutters, every merge is the rule's, and it ends where the rule does.
Rule == INSTANCE BpeRule WITH pieces <- PiecesNow, table <- merges
FollowsTheRule == Rule!RuleSpec

\* A character with a byte token is never lost or moved, whatever the vocabulary
\* lacks; and when it has every piece, the tokens spell the word.
EncodesTheWord ==
  at = "done" =>
    /\ AsciiOf(Flat(out)) = AsciiOf(word)
    /\ (\A i \in DOMAIN PiecesNow : PiecesNow[i] \notin lacks) => Flat(out) = word

\* The merge queue and the linked list agree after every pop, stale entries
\* included, so that no merge is lost and none is applied to another pair than it
\* was queued for (the stale test of src/tokenizer.rs:520 compares texts only).
QueueSound == ListIsTheWord /\ FreshIsItsPair /\ HeapComplete
=============================================================================
