---------------------------- MODULE RowPartition ----------------------------
(***************************************************************************)
(* The matrix-vector products of the CPU path: pq2_matvec_range,           *)
(* pq2_matmul_n and q4_1_matvec_range of src/kernels.rs and matvec_par of  *)
(* src/dspark.rs split the rows of a weight matrix over scoped threads in   *)
(* the same way.  One call: a worker goes through its rows, and through the *)
(* columns of each, and writes each result where its arithmetic says.       *)
(*                                                                          *)
(* The products of one column cut y into slices one after the other         *)
(* (split_at_mut); the batched product, which has more than one (with one   *)
(* it is pq2_matvec_range), hands every worker the whole of y as a raw      *)
(* pointer, and its y holds one column after the other.                     *)
(***************************************************************************)
EXTENDS Integers

CONSTANTS
  Rows,         \* how many rows a matrix may have
  Columns,      \* how many columns x may have
  Cores,        \* how many threads scaled_threads may allow
  MinParallel   \* MIN_PARALLEL_ROWS

ASSUME RowPartitionAssumption ==
  /\ Rows \subseteq Nat
  /\ Columns \subseteq Nat \ {0}
  /\ Cores \subseteq Nat \ {0}
  /\ MinParallel \in Nat \ {0}

VARIABLES
  nRows, nTok, nCores,
  fits,     \* x and the payload are as long as they must be
  room,     \* so is y
  pc,       \* "call", "spawn", "join", "returned", "refused", "panicked"
  next,     \* workers spawned so far
  rest,     \* where the part of y that is not handed out yet begins
  off,      \* where each worker's part of a column of y begins
  done,     \* rows each worker has computed
  col,      \* columns it has computed of its next row
  y         \* row and column that each place of y was computed from

sizes == <<nRows, nTok, nCores, fits, room>>
vars == <<sizes, pc, next, rest, off, done, col, y>>

Stale == <<>>   \* what y held before
Sliced == nTok = 1
RowNums == 0..(nRows - 1)
Cols == 0..(nTok - 1)
Place(t, r) == t * nRows + r
Places == 0..(nTok * nRows - 1)

-----------------------------------------------------------------------------
Least(a, b) == IF a <= b THEN a ELSE b

NumWorkers == Least(nCores, nRows)
Chunk_Floor == nRows \div NumWorkers
Chunk == (nRows + NumWorkers - 1) \div NumWorkers

\* The rows of worker w; the last ranges may begin behind the last row, such a
\* range is empty.
Start_Floor(w) == w * (nRows \div NumWorkers)
Start(w) == w * Chunk
Limit(w) == Least(Start(w) + Chunk, nRows)
RangeLen(w) == IF Start(w) < Limit(w) THEN Limit(w) - Start(w) ELSE 0

Workers == 0..(NumWorkers - 1)
Running == {w \in Workers : w < next /\ done[w] < RangeLen(w)}

-----------------------------------------------------------------------------
Init ==
  /\ nRows \in Rows /\ nTok \in Columns /\ nCores \in Cores
  /\ fits \in BOOLEAN /\ room \in BOOLEAN
  /\ pc = "call"
  /\ next = 0 /\ rest = 0
  /\ off = [w \in Workers |-> 0]
  /\ done = [w \in Workers |-> 0]
  /\ col = [w \in Workers |-> 0]
  /\ y = [p \in Places |-> Stale]

\* Too short a y is refused, or, by matvec_par for the types that it computes by
\* itself, sliced without a look.  A few rows are computed by the caller.
CellAt(p) == CHOOSE c \in RowNums \X Cols : Place(c[2], c[1]) = p

Call ==
  /\ pc = "call"
  /\ \/ /\ ~(fits /\ room)
        /\ pc' = "refused"
        /\ UNCHANGED y
     \/ /\ fits /\ ~room /\ Sliced
        /\ pc' = "panicked"
        /\ UNCHANGED y
     \/ /\ fits /\ room /\ (nRows < MinParallel \/ nCores <= 1)
        /\ y' = [p \in Places |-> CellAt(p)]
        /\ pc' = "returned"
     \/ /\ fits /\ room /\ nRows >= MinParallel /\ nCores > 1
        /\ pc' = "spawn"
        /\ UNCHANGED y
  /\ UNCHANGED <<sizes, next, rest, off, done, col>>

\* The calling thread cuts the next slice and spawns its worker; the workers
\* spawned before are already running.
LastSpawned == next = NumWorkers

Spawn ==
  /\ pc = "spawn" /\ ~LastSpawned
  /\ IF Sliced /\ RangeLen(next) > nRows - rest
     THEN /\ pc' = "panicked"
          /\ UNCHANGED <<next, rest, off>>
     ELSE /\ off' = [off EXCEPT ![next] = IF Sliced THEN rest ELSE Start(next)]
          /\ rest' = IF Sliced THEN rest + RangeLen(next) ELSE rest
          /\ next' = next + 1
          /\ UNCHANGED pc
  /\ UNCHANGED <<sizes, done, col, y>>

\* A worker computes the next column of its next row.
Work(w) ==
  /\ pc \in {"spawn", "join"} /\ w \in Running
  /\ y' = [y EXCEPT ![Place(col[w], off[w] + done[w])] = <<Start(w) + done[w], col[w]>>]
  /\ IF col[w] + 1 < nTok
     THEN col' = [col EXCEPT ![w] = @ + 1] /\ UNCHANGED done
     ELSE col' = [col EXCEPT ![w] = 0] /\ done' = [done EXCEPT ![w] = @ + 1]
  /\ UNCHANGED <<sizes, pc, next, rest, off>>

\* The end of the scope joins every worker it spawned.
Join ==
  /\ pc = "spawn" /\ LastSpawned
  /\ pc' = "join"
  /\ UNCHANGED <<sizes, next, rest, off, done, col, y>>

Joined_Chunks == \A w \in Workers : done[w] = Chunk
Joined == Running = {}

Return ==
  /\ pc = "join" /\ Joined
  /\ pc' = "returned"
  /\ UNCHANGED <<sizes, next, rest, off, done, col, y>>

Next == Call \/ Spawn \/ (\E w \in Workers : Work(w)) \/ Join \/ Return

Fairness == WF_vars(Call) /\ WF_vars(Spawn) /\ WF_vars(Join) /\ WF_vars(Return)
            /\ WF_vars(\E w \in Workers : Work(w))

Spec == Init /\ [][Next]_vars /\ Fairness
-----------------------------------------------------------------------------
\* Type invariant.
TypeOK ==
  /\ nRows \in Rows /\ nTok \in Columns /\ nCores \in Cores
  /\ fits \in BOOLEAN /\ room \in BOOLEAN
  /\ pc \in {"call", "spawn", "join", "returned", "refused", "panicked"}
  /\ next \in 0..NumWorkers
  /\ rest \in 0..nRows
  /\ off \in [Workers -> Nat]
  /\ done \in [Workers -> 0..nRows]
  /\ col \in [Workers -> Cols]
  /\ y \in [Places -> (RowNums \X Cols) \cup {Stale}]

\* No result is lost or misplaced: when the product returns, the place of every row
\* in every column of y was computed from that row and that column of x, although
\* the slices are cut by length only and the ranges of the last workers may begin
\* behind the last row.
RowsRight ==
  pc = "returned" => \A t \in Cols, r \in RowNums : y[Place(t, r)] = <<r, t>>

\* kernels.rs:405, "rows are disjoint per worker, so the strided writes into the
\* token-major output never alias": no two workers ever have a place in common,
\* and none has a place outside y.
PlacesOf(w) == {Place(t, off[w] + k) : t \in Cols, k \in 0..(RangeLen(w) - 1)}
NoAlias ==
  \A v, w \in Workers : v < next /\ w < next =>
    PlacesOf(v) \subseteq Places /\ (v # w => PlacesOf(v) \cap PlacesOf(w) = {})

\* split_at_mut is never asked for more than is left: nothing panics but the slicing
\* of a y that is too short.
SplitsFit == pc = "panicked" => ~room

\* The workers' slices are cut within y and never overlap, for every number of
\* rows, columns and cores, ranges behind the last row included.
SlicesDisjoint == TypeOK /\ NoAlias /\ SplitsFit

\* Every call that is neither refused nor given too short a y returns: no worker is
\* waited for in vain.
Returns == fits /\ room ~> pc = "returned"
=============================================================================
