----------------------------- MODULE Files_proof -----------------------------
(***************************************************************************)
(* Proofs about what is stored in bytes and rows: the split of a matrix's   *)
(* rows over threads (RowPartition), the way from a name to a tensor's rows  *)
(* (TensorLookup), the files that are written and read back (GgufFile) and   *)
(* the packed rows of the K/V cache (KvPack), each for every value of its    *)
(* constants.                                                               *)
(***************************************************************************)
EXTENDS RowPartition, TensorLookup, GgufFile, KvPack, Pieces_proof

-----------------------------------------------------------------------------
\* RowPartition: any number of rows and of threads.

\* A call that is split over workers.
Split == nRows >= MinParallel /\ nCores > 1

Sizes == nRows \in Nat /\ nTok \in Nat \ {0} /\ nCores \in Nat \ {0} /\ MinParallel \in Nat \ {0}

\* Rounding up the quotient.
LEMMA RoundUp ==
  ASSUME NEW n \in Nat, NEW k \in Nat \ {0}
  PROVE  /\ (n + k - 1) \div k \in Nat
         /\ k * ((n + k - 1) \div k) >= n
<1> DEFINE m == n + k - 1
           q == m \div k
           r == m % k
<1>1. m \in Nat
  OBVIOUS
<1> HIDE DEF m
<1>2. q \in Int /\ r \in 0..(k - 1) /\ m = k * q + r
  BY <1>1
<1> HIDE DEF q, r
<1>3. k * q >= n
  BY <1>2 DEF m
<1>4. q \in Nat
  BY <1>1, <1>2
<1> QED
  BY <1>3, <1>4 DEF q, m

\* The ranges together reach the last row.
LEMMA ChunkCovers ==
  ASSUME Sizes, Split
  PROVE  /\ NumWorkers \in Nat \ {0}
         /\ NumWorkers <= nRows
         /\ Chunk \in Nat \ {0}
         /\ NumWorkers * Chunk >= nRows
<1>1. NumWorkers \in Nat \ {0} /\ NumWorkers <= nRows /\ nRows > 0
  BY DEF Sizes, Split, NumWorkers, Least
<1>2. Chunk \in Nat /\ NumWorkers * Chunk >= nRows
  BY <1>1, RoundUp DEF Sizes, Chunk
<1>3. Chunk # 0
  <2>1. ASSUME NEW k \in Nat, NEW c \in Nat, k * c > 0 PROVE c # 0
    BY <2>1
  <2>2. NumWorkers * Chunk > 0
    <3>1. ASSUME NEW p \in Int, NEW n \in Int, p >= n, n > 0 PROVE p > 0
      BY <3>1
    <3> QED
      BY <1>1, <1>2, <3>1 DEF Sizes
  <2> QED
    BY <1>1, <1>2, <2>1, <2>2
<1> QED
  BY <1>1, <1>2, <1>3

\* Where the ranges begin, step by step.
LEMMA StartSteps ==
  ASSUME Sizes, Split
  PROVE  /\ Start(0) = 0
         /\ \A w \in Nat : Start(w) \in Nat /\ Start(w + 1) = Start(w) + Chunk
         /\ Start(NumWorkers) >= nRows
         /\ \A v, w \in Nat : v < w => Start(v) + Chunk <= Start(w)
<1>c. Chunk \in Nat \ {0} /\ NumWorkers \in Nat /\ NumWorkers * Chunk >= nRows
  BY ChunkCovers
<1>m. ASSUME NEW a \in Nat, NEW b \in Nat PROVE a * b \in Nat /\ (a + 1) * b = a * b + b
  OBVIOUS
<1>d. ASSUME NEW a \in Nat, NEW b \in Nat, NEW c \in Nat, a < b
      PROVE  a * c + c <= b * c
  <2>1. PICK d \in Nat : b = a + 1 + d
    <3>1. b - a - 1 \in Nat /\ b = a + 1 + (b - a - 1)
      BY <1>d
    <3> QED
      BY <3>1
  <2>2. b * c = a * c + c + d * c
    BY <2>1
  <2>3. d * c \in Nat /\ a * c \in Nat
    OBVIOUS
  <2> QED
    BY <2>2, <2>3
<1>1. Start(0) = 0
  BY <1>c DEF Start
<1>2. ASSUME NEW w \in Nat PROVE Start(w) \in Nat /\ Start(w + 1) = Start(w) + Chunk
  BY <1>c, <1>m DEF Start
<1>3. Start(NumWorkers) >= nRows
  BY <1>c DEF Start
<1>4. ASSUME NEW v \in Nat, NEW w \in Nat, v < w PROVE Start(v) + Chunk <= Start(w)
  BY <1>c, <1>d, <1>4 DEF Start
<1> QED
  BY <1>1, <1>2, <1>3, <1>4

\* What the lengths of the ranges are.
LEMMA RangeLengths ==
  ASSUME Sizes, Split, NEW w \in Nat
  PROVE  /\ RangeLen(w) \in 0..nRows
         /\ RangeLen(w) > 0 => Start(w) + RangeLen(w) <= nRows /\ RangeLen(w) <= Chunk
         /\ Least(Start(w), nRows) + RangeLen(w) = Least(Start(w + 1), nRows)
<1>1. /\ Start(w) \in Nat /\ Start(w + 1) = Start(w) + Chunk
      /\ Chunk \in Nat \ {0} /\ nRows \in Nat
  BY StartSteps, ChunkCovers DEF Sizes
<1> QED
  BY ONLY <1>1 DEF RangeLen, Limit, Least

\* Every row is in the range of some worker.
LEMMA EveryRowHasAWorker ==
  ASSUME Sizes, Split, NEW r \in RowNums
  PROVE  \E w \in Workers : Start(w) <= r /\ r < Start(w) + RangeLen(w)
<1>1. /\ Chunk \in Nat \ {0} /\ NumWorkers \in Nat \ {0} /\ NumWorkers * Chunk >= nRows
      /\ r \in Nat /\ r < nRows /\ nRows \in Nat
  BY ChunkCovers DEF RowNums, Sizes
<1> DEFINE w == r \div Chunk
           m == r % Chunk
<1>2. w \in Nat /\ m \in 0..(Chunk - 1) /\ r = Chunk * w + m
  BY ONLY <1>1
<1> HIDE DEF w, m
<1>3. Start(w) <= r /\ r < Start(w) + Chunk /\ Start(w) \in Nat
  <2>1. Chunk * w = w * Chunk /\ w * Chunk \in Nat
    BY ONLY <1>1, <1>2
  <2> QED
    BY ONLY <1>1, <1>2, <2>1 DEF Start
<1>4. w < NumWorkers
  <2>a. SUFFICES ASSUME w >= NumWorkers PROVE FALSE
    BY ONLY <1>1, <1>2
  <2>1. CASE w = NumWorkers
    <3>1. Start(w) = NumWorkers * Chunk
      BY ONLY <2>1 DEF Start
    <3>2. NumWorkers * Chunk \in Nat
      BY ONLY <1>1
    <3> QED
      BY ONLY <1>1, <1>3, <3>1, <3>2
  <2>2. CASE w > NumWorkers
    <3>1. Start(NumWorkers) + Chunk <= Start(w)
      <4>1. NumWorkers \in Nat
        BY <1>1
      <4> QED
        BY <4>1, <1>2, <2>2, StartSteps
    <3>3. Start(NumWorkers) >= nRows
      BY StartSteps
    <3>2. Start(NumWorkers) \in Nat
      BY <1>1, StartSteps
    <3> QED
      BY ONLY <1>1, <1>3, <3>1, <3>2, <3>3
  <2> QED
    BY ONLY <1>1, <1>2, <2>a, <2>1, <2>2
<1>5. r < Start(w) + RangeLen(w)
  BY ONLY <1>1, <1>3 DEF RangeLen, Limit, Least
<1>6. w \in Workers
  BY ONLY <1>1, <1>2, <1>4 DEF Workers
<1> QED
  BY <1>3, <1>5, <1>6

\* Columns lie one behind the other.
LEMMA ColumnsApart ==
  ASSUME NEW a \in Nat, NEW b \in Nat, NEW n \in Nat, a < b
  PROVE  a * n \in Nat /\ b * n \in Nat /\ a * n + n <= b * n
<1>1. PICK d \in Nat : b = a + 1 + d
  <2>1. b - a - 1 \in Nat /\ b = a + 1 + (b - a - 1)
    OBVIOUS
  <2> QED
    BY <2>1
<1>2. b * n = a * n + n + d * n
  BY <1>1
<1>3. d * n \in Nat /\ a * n \in Nat
  OBVIOUS
<1> QED
  BY <1>2, <1>3

\* Each row of each column has a place of y to itself, and each place is one's.
LEMMA PlaceIn ==
  ASSUME Sizes, NEW t \in Cols, NEW r \in RowNums
  PROVE  Place(t, r) \in Places
<1>1. t \in Nat /\ nTok \in Nat /\ t < nTok /\ r \in Nat /\ r < nRows /\ nRows \in Nat
  BY DEF Sizes, Cols, RowNums
<1>2. t * nRows \in Nat /\ nTok * nRows \in Nat /\ t * nRows + nRows <= nTok * nRows
  BY <1>1, ColumnsApart
<1> QED
  BY ONLY <1>1, <1>2 DEF Place, Places

LEMMA PlaceOne ==
  ASSUME Sizes, NEW t \in Cols, NEW r \in RowNums, NEW u \in Cols, NEW k \in RowNums,
         Place(t, r) = Place(u, k)
  PROVE  t = u /\ r = k
<1>1. /\ t \in Nat /\ u \in Nat /\ nRows \in Nat
      /\ r \in Nat /\ r < nRows /\ k \in Nat /\ k < nRows
  BY DEF Sizes, Cols, RowNums
<1>2. t * nRows \in Nat /\ u * nRows \in Nat
  BY <1>1
<1>3. t * nRows + r = u * nRows + k
  BY DEF Place
<1>4. ~(t < u)
  <2> SUFFICES ASSUME t < u PROVE FALSE
    OBVIOUS
  <2>1. t * nRows + nRows <= u * nRows
    BY <1>1, ColumnsApart
  <2> QED
    BY ONLY <1>1, <1>2, <1>3, <2>1
<1>5. ~(u < t)
  <2> SUFFICES ASSUME u < t PROVE FALSE
    OBVIOUS
  <2>1. u * nRows + nRows <= t * nRows
    BY <1>1, ColumnsApart
  <2> QED
    BY ONLY <1>1, <1>2, <1>3, <2>1
<1>6. t = u
  BY ONLY <1>1, <1>4, <1>5
<1> QED
  BY ONLY <1>1, <1>2, <1>3, <1>6

LEMMA PlaceAll ==
  ASSUME Sizes, NEW p \in Places
  PROVE  \E c \in RowNums \X Cols : Place(c[2], c[1]) = p
<1>1. nRows \in Nat /\ nTok \in Nat /\ p \in Nat /\ nTok * nRows \in Nat /\ p < nTok * nRows
  <2>1. nRows \in Nat /\ nTok \in Nat
    BY DEF Sizes
  <2>2. nTok * nRows \in Nat
    BY <2>1
  <2> QED
    BY <2>1, <2>2 DEF Places
<1>2. nRows > 0
  <2>1. nRows = 0 => nTok * nRows = 0
    BY <1>1
  <2> QED
    BY ONLY <1>1, <2>1
<1> DEFINE t == p \div nRows
           r == p % nRows
<1>3. t \in Nat /\ r \in 0..(nRows - 1) /\ p = nRows * t + r
  BY ONLY <1>1, <1>2
<1> HIDE DEF t, r
<1>4. nRows * t = t * nRows /\ t * nRows \in Nat
  BY ONLY <1>1, <1>3
<1>5. t < nTok
  <2>0. SUFFICES ASSUME nTok <= t PROVE FALSE
    BY ONLY <1>1, <1>3
  <2>1. nTok * nRows <= t * nRows
    <3>1. CASE nTok < t
      <4>1. nTok * nRows + nRows <= t * nRows
        BY <1>1, <1>3, <3>1, ColumnsApart
      <4> QED
        BY ONLY <1>1, <1>4, <4>1
    <3>2. CASE nTok = t
      BY ONLY <1>4, <3>2
    <3> QED
      BY ONLY <1>1, <1>3, <2>0, <3>1, <3>2
  <2> QED
    BY ONLY <1>1, <1>3, <1>4, <2>1
<1>6. t \in Cols /\ r \in RowNums /\ Place(t, r) = p
  BY ONLY <1>1, <1>3, <1>4, <1>5 DEF Cols, RowNums, Place
<1>7. <<r, t>> \in RowNums \X Cols /\ <<r, t>>[1] = r /\ <<r, t>>[2] = t
  BY <1>6
<1> QED
  BY <1>6, <1>7

\* So the caller puts every result in its place.
LEMMA CellIs ==
  ASSUME Sizes
  PROVE  /\ \A p \in Places : CellAt(p) \in RowNums \X Cols
         /\ \A t \in Cols, r \in RowNums : CellAt(Place(t, r)) = <<r, t>>
<1>1. ASSUME NEW p \in Places PROVE CellAt(p) \in RowNums \X Cols /\ Place(CellAt(p)[2], CellAt(p)[1]) = p
  BY PlaceAll DEF CellAt
<1>2. ASSUME NEW t \in Cols, NEW r \in RowNums PROVE CellAt(Place(t, r)) = <<r, t>>
  <2>1. PICK c : c = CellAt(Place(t, r))
    OBVIOUS
  <2>2. c \in RowNums \X Cols /\ Place(c[2], c[1]) = Place(t, r)
    BY <1>1, <2>1, PlaceIn
  <2>3. c[1] \in RowNums /\ c[2] \in Cols /\ c = <<c[1], c[2]>>
    BY <2>2
  <2>4. c[2] = t /\ c[1] = r
    BY <2>2, <2>3, PlaceOne
  <2> QED
    BY <2>1, <2>3, <2>4
<1> QED
  BY <1>1, <1>2

-----------------------------------------------------------------------------
\* The ranges of the workers spawned so far, and their parts of y.
Handed ==
  /\ pc = "spawn" \/ pc = "join" \/ next > 0 => Split
  /\ pc = "call" => next = 0
  /\ pc = "join" => next = NumWorkers
  /\ Sliced /\ Split => rest = Least(Start(next), nRows)
  /\ \A w \in Workers : w < next /\ RangeLen(w) > 0 => off[w] = Start(w)

\* What they have computed is in its place.
Behind(w, t, r) == r < Start(w) + done[w] \/ (r = Start(w) + done[w] /\ t < col[w])
Computed ==
  /\ \A w \in Workers : done[w] <= RangeLen(w) /\ (done[w] = RangeLen(w) => col[w] = 0)
  /\ \A w \in Workers : \A t \in Cols, r \in RowNums :
       Start(w) <= r /\ Behind(w, t, r) => y[Place(t, r)] = <<r, t>>

IInv == TypeOK /\ Handed /\ Computed /\ SplitsFit /\ RowsRight

LEMMA SizesKnown == TypeOK => Sizes
BY RowPartitionAssumption DEF TypeOK, Sizes

\* It holds at first.
LEMMA Initially == Init => IInv
<1> SUFFICES ASSUME Init PROVE IInv
  OBVIOUS
<1>1. /\ nRows \in Nat /\ nTok \in Nat \ {0} /\ nCores \in Nat \ {0} /\ MinParallel \in Nat \ {0}
      /\ NumWorkers \in Nat
  BY RowPartitionAssumption DEF Init, NumWorkers, Least
<1>2. TypeOK
  BY <1>1 DEF Init, TypeOK, Cols
<1>3. Handed
  <2>1. Sizes
    BY <1>1 DEF Sizes
  <2>2. Split => rest = Least(Start(next), nRows)
    <3> SUFFICES ASSUME Split PROVE rest = Least(Start(next), nRows)
      OBVIOUS
    <3>1. Start(0) = 0
      BY <2>1, StartSteps
    <3>2. next = 0 /\ rest = 0
      BY DEF Init
    <3> QED
      BY <1>1, <3>1, <3>2 DEF Least
  <2>3. next = 0 /\ \A w \in Workers : ~(w < 0)
    BY <1>1 DEF Init, Workers
  <2> QED
    BY <2>2, <2>3 DEF Init, Handed
<1>4. Computed
  <2>1. \A w \in Workers : done[w] = 0 /\ col[w] = 0
    BY DEF Init
  <2>2. ASSUME NEW w \in Workers
        PROVE  0 <= RangeLen(w) /\ \A r \in RowNums, t \in Cols : ~(Start(w) <= r /\ Behind(w, t, r))
    <3>1. Chunk \in Int /\ w \in Nat
      BY <1>1 DEF Chunk, Workers
    <3>2. Start(w) \in Int
      BY <3>1 DEF Start
    <3>3. 0 <= RangeLen(w)
      BY <1>1, <3>1, <3>2 DEF RangeLen, Limit, Least
    <3>4. \A r \in RowNums, t \in Cols : ~(Start(w) <= r /\ Behind(w, t, r))
      BY <1>1, <2>1, <3>2 DEF RowNums, Cols, Behind
    <3> QED
      BY <3>3, <3>4
  <2> QED
    BY <2>1, <2>2 DEF Computed
<1> QED
  BY <1>2, <1>3, <1>4 DEF IInv, Init, SplitsFit, RowsRight

-----------------------------------------------------------------------------
\* The sizes of a call do not change, and with them its ranges.
LEMMA RangesStay ==
  ASSUME UNCHANGED sizes
  PROVE  /\ Places' = Places /\ RowNums' = RowNums /\ Cols' = Cols
         /\ Workers' = Workers /\ NumWorkers' = NumWorkers
         /\ Split' = Split /\ Sliced' = Sliced /\ nRows' = nRows /\ nTok' = nTok /\ nCores' = nCores
         /\ fits' = fits /\ room' = room
         /\ \A w : Start(w)' = Start(w) /\ RangeLen(w)' = RangeLen(w)
         /\ \A t, r : Place(t, r)' = Place(t, r)
BY DEF sizes, Places, RowNums, Cols, Workers, NumWorkers, Split, Sliced, Start, RangeLen, Limit, Chunk, Least, Place

\* Where nothing is written, what was computed stays.
LEMMA ComputedStays ==
  ASSUME IInv, UNCHANGED <<sizes, done, col, y>>
  PROVE  Computed'
<1>r. /\ RowNums' = RowNums /\ Cols' = Cols /\ Workers' = Workers
      /\ \A w : Start(w)' = Start(w) /\ RangeLen(w)' = RangeLen(w)
      /\ \A t, r : Place(t, r)' = Place(t, r)
  BY RangesStay
<1>b. \A w, t, r : Behind(w, t, r)' = Behind(w, t, r)
  BY <1>r DEF Behind
<1> QED
  BY <1>r, <1>b DEF IInv, Computed

\* A call that is split begins with no worker and nothing handed out.
LEMMA CallKeeps == IInv /\ Call => IInv'
<1> SUFFICES ASSUME IInv, Call PROVE IInv'
  OBVIOUS
<1>r. /\ Places' = Places /\ RowNums' = RowNums /\ Cols' = Cols
      /\ Workers' = Workers /\ NumWorkers' = NumWorkers
      /\ Split' = Split /\ Sliced' = Sliced /\ nRows' = nRows /\ nTok' = nTok /\ nCores' = nCores
      /\ fits' = fits /\ room' = room
      /\ \A w : Start(w)' = Start(w) /\ RangeLen(w)' = RangeLen(w)
      /\ \A t, r : Place(t, r)' = Place(t, r)
  BY RangesStay DEF Call
<1>s. Sizes
  BY SizesKnown DEF IInv
<1>c. /\ \A p \in Places : CellAt(p) \in RowNums \X Cols
      /\ \A t \in Cols, r \in RowNums : CellAt(Place(t, r)) = <<r, t>>
  BY <1>s, CellIs
<1>y. y' = y \/ y' = [p \in Places |-> CellAt(p)]
  BY DEF Call
<1>p. \A t \in Cols, r \in RowNums : Place(t, r) \in Places
  BY <1>s, PlaceIn
<1>1. TypeOK'
  <2>1. y' \in [Places -> (RowNums \X Cols) \cup {Stale}]
    BY <1>c, <1>y DEF IInv, TypeOK
  <2>2. pc' \in {"call", "spawn", "join", "returned", "refused", "panicked"}
    BY DEF Call
  <2> QED
    BY <1>r, <2>1, <2>2 DEF IInv, Call, TypeOK
<1>2. Handed'
  BY <1>r DEF IInv, Call, Handed, Split
<1>3. Computed'
  <2>1. y' = [p \in Places |-> CellAt(p)] => \A t \in Cols, r \in RowNums : y'[Place(t, r)] = <<r, t>>
    BY <1>c, <1>p
  <2>2. \A w, t, r : Behind(w, t, r)' = Behind(w, t, r)
    BY <1>r DEF Call, Behind
  <2> QED
    BY <1>r, <1>y, <2>1, <2>2 DEF IInv, Call, Computed
<1>4. SplitsFit' /\ RowsRight'
  <2>1. pc' = "returned" => y' = [p \in Places |-> CellAt(p)]
    BY DEF Call
  <2>2. pc' = "panicked" => ~room
    BY DEF Call
  <2>3. y' = [p \in Places |-> CellAt(p)] => \A t \in Cols, r \in RowNums : y'[Place(t, r)] = <<r, t>>
    BY <1>c, <1>p
  <2> QED
    BY <1>r, <2>1, <2>2, <2>3 DEF SplitsFit, RowsRight
<1> QED
  BY <1>1, <1>2, <1>3, <1>4 DEF IInv

\* The next slice always fits, and begins where its range does if it has rows.
LEMMA SpawnKeeps == IInv /\ Spawn => IInv'
<1> SUFFICES ASSUME IInv, Spawn PROVE IInv'
  OBVIOUS
<1>r. /\ Places' = Places /\ RowNums' = RowNums /\ Cols' = Cols
      /\ Workers' = Workers /\ NumWorkers' = NumWorkers
      /\ Split' = Split /\ Sliced' = Sliced /\ nRows' = nRows /\ nTok' = nTok /\ nCores' = nCores
      /\ fits' = fits /\ room' = room
      /\ \A w : Start(w)' = Start(w) /\ RangeLen(w)' = RangeLen(w)
      /\ \A t, r : Place(t, r)' = Place(t, r)
  BY RangesStay DEF Spawn
<1>s. Sizes /\ Split
  BY SizesKnown DEF IInv, Handed, Spawn
<1>n. next \in Workers /\ next \in Nat /\ NumWorkers \in Nat /\ next < NumWorkers /\ nRows \in Nat
  BY <1>s, ChunkCovers DEF IInv, TypeOK, Spawn, LastSpawned, Workers, Sizes
<1>l. /\ Start(next) \in Nat /\ RangeLen(next) \in 0..nRows
      /\ RangeLen(next) > 0 => Start(next) + RangeLen(next) <= nRows
      /\ Least(Start(next), nRows) + RangeLen(next) = Least(Start(next + 1), nRows)
      /\ Start(next + 1) \in Nat
  <2>1. Start(next) \in Nat
    BY <1>s, <1>n, StartSteps
  <2>2. next + 1 \in Nat
    BY <1>n
  <2>3. Start(next + 1) \in Nat
    BY <1>s, <2>2, StartSteps
  <2>4. /\ RangeLen(next) \in 0..nRows
        /\ RangeLen(next) > 0 => Start(next) + RangeLen(next) <= nRows
        /\ Least(Start(next), nRows) + RangeLen(next) = Least(Start(next + 1), nRows)
    BY <1>s, <1>n, RangeLengths
  <2> QED
    BY <2>1, <2>3, <2>4
<1>f. ~(Sliced /\ RangeLen(next) > nRows - rest)
  <2> SUFFICES ASSUME Sliced PROVE ~(RangeLen(next) > nRows - rest)
    OBVIOUS
  <2>1. rest = Least(Start(next), nRows)
    BY <1>s DEF IInv, Handed
  <2> QED
    BY ONLY <1>l, <1>n, <2>1 DEF Least
<1>o. /\ off' = [off EXCEPT ![next] = IF Sliced THEN rest ELSE Start(next)]
      /\ rest' = IF Sliced THEN rest + RangeLen(next) ELSE rest
      /\ next' = next + 1
      /\ UNCHANGED <<sizes, pc, done, col, y>>
  BY <1>f DEF Spawn
<1>1. rest' \in 0..nRows /\ (Sliced => rest' = Least(Start(next + 1), nRows))
  <2>1. Sliced => rest = Least(Start(next), nRows)
    BY <1>s DEF IInv, Handed
  <2>2. rest \in 0..nRows
    BY DEF IInv, TypeOK
  <2> QED
    BY <1>l, <1>n, <1>o, <2>1, <2>2 DEF Least
<1>2. off' \in [Workers -> Nat] /\ \A w \in Workers : w # next => off'[w] = off[w]
  <2>1. off \in [Workers -> Nat] /\ rest \in Nat
    BY <1>n DEF IInv, TypeOK
  <2> QED
    BY <1>l, <1>o, <2>1
<1>3. RangeLen(next) > 0 => off'[next] = Start(next)
  <2>1. off'[next] = IF Sliced THEN rest ELSE Start(next)
    BY <1>n, <1>o DEF IInv, TypeOK
  <2>2. Sliced => rest = Least(Start(next), nRows)
    BY <1>s DEF IInv, Handed
  <2> QED
    BY <1>l, <1>n, <2>1, <2>2 DEF Least
<1>4. TypeOK'
  <2>1. next' \in 0..NumWorkers
    BY <1>n, <1>o
  <2> QED
    BY <1>r, <1>o, <1>1, <1>2, <2>1 DEF IInv, TypeOK
<1>5. Handed'
  <2>1. pc = "spawn"
    BY DEF Spawn
  <2>2. ASSUME NEW w \in Workers, w < next + 1, RangeLen(w) > 0 PROVE off'[w] = Start(w)
    <3>1. CASE w = next
      BY <1>3, <2>2, <3>1
    <3>2. CASE w # next
      <4>1. w < next
        BY <1>n, <2>2, <3>2 DEF Workers
      <4> QED
        BY <1>2, <2>2, <3>2, <4>1 DEF IInv, Handed
    <3> QED
      BY <3>1, <3>2
  <2>3. (Sliced /\ Split => rest = Least(Start(next), nRows))'
    BY <1>r, <1>o, <1>1
  <2> QED
    BY <1>r, <1>o, <1>s, <2>1, <2>2, <2>3 DEF Handed
<1>6. Computed'
  BY <1>o, ComputedStays
<1>7. SplitsFit' /\ RowsRight'
  BY <1>r, <1>o DEF IInv, SplitsFit, RowsRight, Spawn
<1> QED
  BY <1>4, <1>5, <1>6, <1>7 DEF IInv

\* A worker writes its next result where it belongs.
LEMMA WorkKeeps == ASSUME IInv, NEW w \in Workers, Work(w) PROVE IInv'
<1>r. /\ Places' = Places /\ RowNums' = RowNums /\ Cols' = Cols
      /\ Workers' = Workers /\ NumWorkers' = NumWorkers
      /\ Split' = Split /\ Sliced' = Sliced /\ nRows' = nRows /\ nTok' = nTok /\ nCores' = nCores
      /\ fits' = fits /\ room' = room
      /\ \A v : Start(v)' = Start(v) /\ RangeLen(v)' = RangeLen(v)
      /\ \A t, r : Place(t, r)' = Place(t, r)
  BY RangesStay DEF Work
<1>s. Sizes /\ Split
  BY SizesKnown DEF IInv, Handed, Work
<1>n. /\ w \in Nat /\ nRows \in Nat /\ nTok \in Nat /\ done[w] \in Nat /\ w < next
      /\ done[w] < RangeLen(w) /\ col[w] \in Cols /\ col[w] \in Nat /\ col[w] < nTok
  <2>1. w \in Nat /\ nRows \in Nat /\ nTok \in Nat
    BY <1>s DEF Workers, Sizes
  <2>2. done[w] \in 0..nRows /\ col[w] \in Cols
    BY DEF IInv, TypeOK
  <2> QED
    BY <2>1, <2>2 DEF Work, Running, Cols
<1>l. /\ Start(w) \in Nat /\ RangeLen(w) \in 0..nRows
      /\ RangeLen(w) > 0 => Start(w) + RangeLen(w) <= nRows
  BY <1>s, <1>n, StartSteps, RangeLengths
<1>0. PICK row, c, at : row = Start(w) + done[w] /\ c = col[w] /\ at = Place(c, row)
  OBVIOUS
<1>1. row \in RowNums /\ row \in Nat /\ c \in Cols /\ RangeLen(w) > 0
  BY <1>0, <1>n, <1>l DEF RowNums
<1>2. off[w] = Start(w)
  BY <1>1, <1>n DEF IInv, Handed
<1>3. at \in Places
  BY <1>0, <1>1, <1>s, PlaceIn
<1>4. y' = [y EXCEPT ![at] = <<row, c>>] /\ UNCHANGED <<sizes, pc, next, rest, off>>
  BY <1>0, <1>2 DEF Work
<1>5. \A t \in Cols, r \in RowNums :
        y'[Place(t, r)] = IF t = c /\ r = row THEN <<row, c>> ELSE y[Place(t, r)]
  <2> TAKE t \in Cols, r \in RowNums
  <2>1. Place(t, r) \in Places
    BY <1>s, PlaceIn
  <2>2. y'[Place(t, r)] = IF Place(t, r) = at THEN <<row, c>> ELSE y[Place(t, r)]
    BY <1>4, <2>1 DEF IInv, TypeOK
  <2>3. Place(t, r) = at <=> t = c /\ r = row
    BY <1>0, <1>1, <1>s, PlaceOne
  <2> QED
    BY <2>2, <2>3
<1>6. /\ done' \in [Workers -> 0..nRows] /\ col' \in [Workers -> Cols]
      /\ \A v \in Workers : v # w => done'[v] = done[v] /\ col'[v] = col[v]
      /\ \/ c + 1 < nTok /\ done'[w] = done[w] /\ col'[w] = c + 1
         \/ ~(c + 1 < nTok) /\ done'[w] = done[w] + 1 /\ col'[w] = 0
  <2>1. done \in [Workers -> 0..nRows] /\ col \in [Workers -> Cols]
    BY DEF IInv, TypeOK
  <2>2. done[w] + 1 \in 0..nRows /\ 0 \in Cols /\ (c + 1 < nTok => c + 1 \in Cols)
    BY <1>0, <1>n, <1>l DEF Cols
  <2>3. CASE c + 1 < nTok
    <3>1. col' = [col EXCEPT ![w] = c + 1] /\ done' = done
      BY <1>0, <2>3 DEF Work
    <3> QED
      BY <2>1, <2>2, <2>3, <3>1
  <2>4. CASE ~(c + 1 < nTok)
    <3>1. col' = [col EXCEPT ![w] = 0] /\ done' = [done EXCEPT ![w] = done[w] + 1]
      BY <1>0, <2>4 DEF Work
    <3> QED
      BY <2>1, <2>2, <2>4, <3>1
  <2> QED
    BY <2>3, <2>4
<1>7. TypeOK'
  <2>1. y' \in [Places -> (RowNums \X Cols) \cup {Stale}]
    BY <1>1, <1>3, <1>4 DEF IInv, TypeOK
  <2> QED
    BY <1>r, <1>4, <1>6, <2>1 DEF IInv, TypeOK
<1>8. Handed'
  BY <1>r, <1>4 DEF IInv, Handed, Least
<1>9. Computed'
  <2>1. ASSUME NEW v \in Workers
        PROVE  done'[v] <= RangeLen(v) /\ (done'[v] = RangeLen(v) => col'[v] = 0)
    <3>1. CASE v = w
      BY <1>6, <1>n, <1>l, <3>1
    <3>2. CASE v # w
      BY <1>6, <3>2 DEF IInv, Computed
    <3> QED
      BY <3>1, <3>2
  <2>2. ASSUME NEW v \in Workers, NEW t \in Cols, NEW r \in RowNums, Start(v) <= r,
               r < Start(v) + done'[v] \/ (r = Start(v) + done'[v] /\ t < col'[v])
        PROVE  y'[Place(t, r)] = <<r, t>>
    <3>1. CASE t = c /\ r = row
      BY <1>5, <3>1
    <3>2. CASE ~(t = c /\ r = row)
      <4>1. Behind(v, t, r)
        <5>1. CASE v # w
          BY <1>6, <2>2, <5>1 DEF Behind
        <5>2. CASE v = w
          <6>1. /\ r \in Int /\ t \in Int /\ c \in Nat /\ t < nTok
                /\ r < Start(w) + done'[w] \/ (r = Start(w) + done'[w] /\ t < col'[w])
            BY <2>2, <1>n, <1>0, <5>2 DEF RowNums, Cols
          <6>2. r < row \/ (r = row /\ t < c)
            <7>1. CASE c + 1 < nTok
              <8>1. r < row \/ (r = row /\ t < c + 1)
                BY <1>0, <1>6, <6>1, <7>1
              <8> QED
                BY <3>2, <6>1, <8>1
            <7>2. CASE ~(c + 1 < nTok)
              <8>1. r < row + 1 /\ t <= c
                <9>1. done'[w] = done[w] + 1 /\ col'[w] = 0 /\ t >= 0
                  BY <1>6, <7>2 DEF Cols
                <9> QED
                  BY <1>0, <1>n, <1>l, <6>1, <7>2, <9>1
              <8> QED
                BY <1>1, <3>2, <6>1, <8>1
            <7> QED
              BY <7>1, <7>2
          <6> QED
            BY <1>0, <5>2, <6>2 DEF Behind
        <5> QED
          BY <5>1, <5>2
      <4>2. y[Place(t, r)] = <<r, t>>
        BY <2>2, <4>1 DEF IInv, Computed
      <4> QED
        BY <1>5, <3>2, <4>2
    <3> QED
      BY <3>1, <3>2
  <2>3. \A v, t, r : Behind(v, t, r)' <=> (r < Start(v) + done'[v] \/ (r = Start(v) + done'[v] /\ t < col'[v]))
    BY <1>r DEF Behind
  <2> QED
    BY <1>r, <2>1, <2>2, <2>3 DEF Computed
<1>10. SplitsFit' /\ RowsRight'
  BY <1>r, <1>4 DEF IInv, SplitsFit, RowsRight, Work
<1> QED
  BY <1>7, <1>8, <1>9, <1>10 DEF IInv

\* The join changes no result.
LEMMA JoinKeeps == IInv /\ Join => IInv'
<1> SUFFICES ASSUME IInv, Join PROVE IInv'
  OBVIOUS
<1>r. /\ Places' = Places /\ RowNums' = RowNums /\ Cols' = Cols
      /\ Workers' = Workers /\ NumWorkers' = NumWorkers
      /\ Split' = Split /\ Sliced' = Sliced /\ nRows' = nRows /\ nTok' = nTok /\ nCores' = nCores
      /\ fits' = fits /\ room' = room
      /\ \A w : Start(w)' = Start(w) /\ RangeLen(w)' = RangeLen(w)
  BY RangesStay DEF Join
<1>1. TypeOK'
  BY <1>r DEF IInv, Join, TypeOK
<1>2. Handed'
  BY <1>r DEF IInv, Join, Handed, Least, LastSpawned
<1>3. Computed'
  BY ComputedStays DEF Join
<1>4. SplitsFit' /\ RowsRight'
  BY DEF Join, SplitsFit, RowsRight
<1> QED
  BY <1>1, <1>2, <1>3, <1>4 DEF IInv

\* When every worker has ended, every row has been written.
LEMMA ReturnKeeps == IInv /\ Return => IInv'
<1> SUFFICES ASSUME IInv, Return PROVE IInv'
  OBVIOUS
<1>r. /\ Places' = Places /\ RowNums' = RowNums /\ Cols' = Cols
      /\ Workers' = Workers /\ NumWorkers' = NumWorkers
      /\ Split' = Split /\ Sliced' = Sliced /\ nRows' = nRows /\ nTok' = nTok /\ nCores' = nCores
      /\ fits' = fits /\ room' = room
      /\ \A w : Start(w)' = Start(w) /\ RangeLen(w)' = RangeLen(w)
      /\ \A t, r : Place(t, r)' = Place(t, r)
  BY RangesStay DEF Return
<1>s. Sizes /\ Split /\ next = NumWorkers
  BY SizesKnown DEF IInv, Handed, Return
<1>1. TypeOK'
  BY <1>r DEF IInv, Return, TypeOK
<1>2. Handed'
  BY <1>r DEF IInv, Return, Handed, Least
<1>3. Computed'
  BY ComputedStays DEF Return
<1>4. ASSUME NEW t \in Cols, NEW r \in RowNums PROVE y[Place(t, r)] = <<r, t>>
  <2>1. PICK w \in Workers : Start(w) <= r /\ r < Start(w) + RangeLen(w)
    BY <1>s, EveryRowHasAWorker
  <2>2. w \in Nat /\ NumWorkers \in Nat /\ w < NumWorkers
    BY <1>s, ChunkCovers DEF Workers
  <2>3. ~(done[w] < RangeLen(w))
    BY <1>s, <2>2 DEF Return, Joined, Running
  <2>4. done[w] \in Nat /\ RangeLen(w) \in Nat
    <3>1. done[w] \in 0..nRows /\ nRows \in Nat
      BY <1>s DEF IInv, TypeOK, Sizes
    <3>2. RangeLen(w) \in 0..nRows
      BY <1>s, <2>2, RangeLengths
    <3> QED
      BY <3>1, <3>2
  <2>5. Start(w) \in Nat /\ r \in Int
    BY <1>s, <2>2, StartSteps DEF RowNums
  <2>6. r < Start(w) + done[w]
    BY ONLY <2>1, <2>3, <2>4, <2>5
  <2> QED
    BY <2>1, <2>6 DEF IInv, Computed, Behind
<1>5. SplitsFit' /\ RowsRight'
  BY <1>r, <1>4 DEF Return, SplitsFit, RowsRight
<1> QED
  BY <1>1, <1>2, <1>3, <1>5 DEF IInv

\* It holds always.
LEMMA Invariance == Spec => []IInv
<1>1. ASSUME IInv, UNCHANGED vars PROVE IInv'
  <2>v. UNCHANGED <<sizes, pc, next, rest, off, done, col, y>>
    BY <1>1 DEF vars
  <2>r. /\ Places' = Places /\ RowNums' = RowNums /\ Cols' = Cols
        /\ Workers' = Workers /\ NumWorkers' = NumWorkers
        /\ Split' = Split /\ Sliced' = Sliced /\ nRows' = nRows /\ nTok' = nTok /\ nCores' = nCores
        /\ fits' = fits /\ room' = room
        /\ \A w : Start(w)' = Start(w) /\ RangeLen(w)' = RangeLen(w)
        /\ \A t, r : Place(t, r)' = Place(t, r)
    BY <2>v, RangesStay
  <2>1. TypeOK'
    BY <1>1, <2>v, <2>r DEF IInv, TypeOK
  <2>2. Handed'
    BY <1>1, <2>v, <2>r DEF IInv, Handed, Least
  <2>3. Computed'
    BY <1>1, <2>v, ComputedStays
  <2>4. SplitsFit' /\ RowsRight'
    BY <1>1, <2>v, <2>r DEF IInv, SplitsFit, RowsRight
  <2> QED
    BY <2>1, <2>2, <2>3, <2>4 DEF IInv
<1>2. IInv /\ [Next]_vars => IInv'
  BY <1>1, CallKeeps, SpawnKeeps, WorkKeeps, JoinKeeps, ReturnKeeps DEF Next
<1> QED
  BY <1>2, Initially, PTL DEF Spec

-----------------------------------------------------------------------------
\* Type correctness of the split product: no worker counts past its range and
\* y holds rows of the matrix or what it held before.
THEOREM TypeCorrect == Spec => []TypeOK
<1>1. IInv => TypeOK
  BY DEF IInv
<1> QED
  BY <1>1, Invariance, PTL

\* For any number of rows and of threads, a product that returns has computed
\* every place of y from its own row.
THEOREM ResultsInPlace == Spec => []RowsRight
<1>1. IInv => RowsRight
  BY DEF IInv
<1> QED
  BY <1>1, Invariance, PTL

\* split_at_mut is never asked for more than is left of y.
THEOREM SlicesFit == Spec => []SplitsFit
<1>1. IInv => SplitsFit
  BY DEF IInv
<1> QED
  BY <1>1, Invariance, PTL

\* The places of y that two workers write are apart, with raw pointers too.
THEOREM WorkersNeverAlias == Spec => []NoAlias
<1>1. IInv => NoAlias
  <2> SUFFICES ASSUME IInv, NEW v \in Workers, NEW w \in Workers, v < next, w < next
               PROVE  PlacesOf(v) \subseteq Places /\ (v # w => PlacesOf(v) \cap PlacesOf(w) = {})
    BY DEF NoAlias
  <2>1. Sizes /\ Split
    <3>1. v \in Int /\ v >= 0 /\ next \in Int
      BY DEF Workers, IInv, TypeOK
    <3> QED
      BY <3>1, SizesKnown DEF IInv, Handed
  <2>2. v \in Nat /\ w \in Nat
    BY <2>1, ChunkCovers DEF Workers
  <2>3. /\ RangeLen(v) > 0 => off[v] = Start(v)
        /\ RangeLen(w) > 0 => off[w] = Start(w)
    BY DEF IInv, Handed
  <2>4. /\ RangeLen(v) \in 0..nRows /\ RangeLen(w) \in 0..nRows
        /\ RangeLen(v) > 0 => Start(v) + RangeLen(v) <= nRows /\ RangeLen(v) <= Chunk
        /\ RangeLen(w) > 0 => Start(w) + RangeLen(w) <= nRows /\ RangeLen(w) <= Chunk
    BY <2>1, <2>2, RangeLengths
  <2>5. Start(v) \in Nat /\ Start(w) \in Nat /\ Chunk \in Nat /\ nRows \in Nat
    BY <2>1, <2>2, StartSteps, ChunkCovers DEF Sizes
  <2>6. /\ v < w => Start(v) + Chunk <= Start(w)
        /\ w < v => Start(w) + Chunk <= Start(v)
    BY <2>1, <2>2, StartSteps
  <2>7. \A k \in 0..(RangeLen(v) - 1) : off[v] + k \in RowNums
    BY <2>3, <2>4, <2>5 DEF RowNums
  <2>8. \A k \in 0..(RangeLen(w) - 1) : off[w] + k \in RowNums
    BY <2>3, <2>4, <2>5 DEF RowNums
  <2>9. PlacesOf(v) \subseteq Places
    BY <2>1, <2>7, PlaceIn DEF PlacesOf
  <2>10. ASSUME v # w, NEW p \in PlacesOf(v), p \in PlacesOf(w) PROVE FALSE
    <3>1. PICK t \in Cols, k \in 0..(RangeLen(v) - 1) : p = Place(t, off[v] + k)
      BY <2>10 DEF PlacesOf
    <3>2. PICK u \in Cols, i \in 0..(RangeLen(w) - 1) : p = Place(u, off[w] + i)
      BY <2>10 DEF PlacesOf
    <3>3. off[v] + k = off[w] + i
      BY <2>1, <2>7, <2>8, <3>1, <3>2, PlaceOne
    <3>4. v < w \/ w < v
      BY <2>2, <2>10
    <3> QED
      BY <2>3, <2>4, <2>5, <2>6, <3>3, <3>4
  <2> QED
    BY <2>9, <2>10
<1> QED
  BY <1>1, Invariance, PTL

\* The slices of src/kernels.rs are cut within y and never overlap.
THEOREM SlicesAreDisjoint == Spec => []SlicesDisjoint
<1>1. TypeOK /\ NoAlias /\ SplitsFit => SlicesDisjoint
  BY DEF SlicesDisjoint
<1> QED
  BY <1>1, TypeCorrect, WorkersNeverAlias, SlicesFit, PTL

-----------------------------------------------------------------------------
\* TensorLookup: what is found under a name.

\* The rows of a tensor of one dimension, and of two.
Dims == Seq(Nat) \ {<<>>}

\* Sizes are numbers.
LEMMA ShapeNat ==
  ASSUME NEW t, t.dims \in Dims
  PROVE  Len(t.dims) \in Nat \ {0} /\ Ne0(t) \in Nat /\ Elems(t) \in Nat /\ RowsOf(t) \in Nat
<1>1. PICK d : d = t.dims
  OBVIOUS
<1>2. d \in Seq(Nat) /\ d # <<>>
  BY <1>1 DEF Dims
<1>3. Len(d) \in Nat \ {0}
  BY <1>2, EmptySeq
<1>4. d[1] \in Nat
  BY <1>2, <1>3
<1>5. Products(d)[Len(d)] \in Nat
  BY <1>2, <1>3, ProductsNat
<1>6. Tail(d) \in Seq(Nat) /\ Len(Tail(d)) = Len(d) - 1
  BY <1>2, <1>3
<1>7. Products(Tail(d))[Len(d) - 1] \in Nat
  <2>1. \A i \in 0..Len(Tail(d)) : Products(Tail(d))[i] \in Nat
    BY <1>6, ProductsNat
  <2>2. QED BY <1>3, <1>6, <2>1
<1>8. QED BY <1>1, <1>3, <1>4, <1>5, <1>7 DEF Ne0, Elems, RowsOf

\* One dim: as many elements.
LEMMA Vector ==
  ASSUME NEW t, NEW n \in Nat, t.dims = <<n>>
  PROVE  Ne0(t) = n /\ Elems(t) = n
<1>1. PICK d : d = t.dims
  OBVIOUS
<1>2. Len(d) = 1 /\ d[1] = n
  BY <1>1
<1>3. Products(d)[0] = 1 /\ Products(d)[1] = Products(d)[1 - 1] * d[1]
  BY <1>2, ProductsAre
<1>4. Products(d)[1] = n
  BY <1>2, <1>3
<1>5. QED BY <1>1, <1>2, <1>4 DEF Ne0, Elems

\* Two dims: the second is the number of rows.
LEMMA Matrix ==
  ASSUME NEW t, NEW n \in Nat, NEW k \in Nat, t.dims = <<n, k>>
  PROVE  Ne0(t) = n /\ RowsOf(t) = k /\ Elems(t) = n * k
<1>1. PICK d : d = t.dims
  OBVIOUS
<1>2. Len(d) = 2 /\ d[1] = n /\ d[2] = k /\ Tail(d) = <<k>>
  BY <1>1
<1>3. Products(d)[0] = 1 /\ Products(d)[1] = Products(d)[1 - 1] * d[1]
      /\ Products(d)[2] = Products(d)[2 - 1] * d[2]
  BY <1>2, ProductsAre
<1>4. Products(d)[1] = n
  BY <1>2, <1>3
<1>5. Products(d)[2] = n * k
  BY <1>2, <1>3, <1>4
<1>6. PICK e : e = Tail(d)
  OBVIOUS
<1>7. Len(e) = 1 /\ e[1] = k
  <2>1. e = <<k>>
    BY <1>2, <1>6, Zenon
  <2>2. QED BY <2>1
<1>8. Products(e)[0] = 1 /\ Products(e)[1] = Products(e)[1 - 1] * e[1]
  <2>1. Len(e) \in Nat /\ 1 \in 1..Len(e)
    BY <1>7
  <2>2. QED BY <2>1, ProductsAre, Zenon
<1>9. Products(e)[1] = k
  BY <1>7, <1>8
<1>10. QED BY <1>1, <1>2, <1>5, <1>6, <1>9 DEF Ne0, Elems, RowsOf

-----------------------------------------------------------------------------
\* A file holds its tensors: the slice an index entry names is that tensor's rows.
EntryOf(t) == t.dims \in Dims
Entries(ts) == ts \in Seq({ts[i] : i \in DOMAIN ts}) /\ \A i \in DOMAIN ts : EntryOf(ts[i])

\* A tensor's rows in their order.
LEMMA CellsAre ==
  ASSUME NEW t, EntryOf(t), NEW S, \A r \in Nat : <<t.of, r>> \in S
  PROVE  CellsOf(t) \in Seq(S) /\ Len(CellsOf(t)) = RowsOf(t)
         /\ \A r \in 1..RowsOf(t) : CellsOf(t)[r] = <<t.of, r>>
<1>1. PICK n : n = RowsOf(t)
  OBVIOUS
<1>2. n \in Nat
  BY <1>1, ShapeNat DEF EntryOf
<1>3. CellsOf(t) = [r \in 1..n |-> <<t.of, r>>]
  BY <1>1 DEF CellsOf
<1>4. \A r \in 1..n : <<t.of, r>> \in S
  BY <1>2
<1>5. CellsOf(t) \in [1..n -> S]
  BY <1>3, <1>4
<1>6. CellsOf(t) \in Seq(S) /\ Len(CellsOf(t)) = n
  BY <1>2, <1>5
<1>7. \A r \in 1..n : CellsOf(t)[r] = <<t.of, r>>
  BY <1>3
<1>8. QED BY <1>1, <1>6, <1>7

\* What a file's data are pieced together of.
LEMMA DataIs ==
  ASSUME NEW ts, Entries(ts)
  PROVE  \E ss, S :
           /\ ss \in Seq(Seq(S)) /\ Len(ss) = Len(ts)
           /\ \A i \in 1..Len(ts) : ss[i] = CellsOf(ts[i])
           /\ DataOf(ts) = Together(ss)
<1>1. PICK ss : ss = [i \in DOMAIN ts |-> CellsOf(ts[i])]
  OBVIOUS
<1>2. PICK S : S = {ts[i].of : i \in DOMAIN ts} \X Nat
  OBVIOUS
<1>3. DOMAIN ts = 1..Len(ts) /\ Len(ts) \in Nat
  BY DEF Entries
<1>4. \A i \in 1..Len(ts) : CellsOf(ts[i]) \in Seq(S)
  <2>1. SUFFICES ASSUME NEW i \in 1..Len(ts) PROVE CellsOf(ts[i]) \in Seq(S)
    OBVIOUS
  <2>2. EntryOf(ts[i])
    BY <1>3 DEF Entries
  <2>3. \A r \in Nat : <<ts[i].of, r>> \in S
    BY <1>2, <1>3
  <2>4. QED BY <2>2, <2>3, CellsAre
<1>5. ss \in [1..Len(ts) -> Seq(S)]
  BY <1>1, <1>3, <1>4
<1>6. ss \in Seq(Seq(S)) /\ Len(ss) = Len(ts)
  BY <1>3, <1>5
<1>7. QED BY <1>1, <1>3, <1>6 DEF DataOf

\* Every tensor of a file lies where the index says, whole and in its order.
LEMMA FileHolds ==
  ASSUME NEW ts, Entries(ts), NEW i \in DOMAIN ts
  PROVE  LET t == FileOf(ts).index[i] IN
         /\ DOMAIN FileOf(ts).index = DOMAIN ts
         /\ t.name = ts[i].name /\ t.ty = ts[i].ty /\ t.dims = ts[i].dims /\ t.of = ts[i].of
         /\ t.at \in Nat /\ t.at + RowsOf(t) <= Len(FileOf(ts).rows)
         /\ SubSeq(FileOf(ts).rows, t.at + 1, t.at + RowsOf(t)) = CellsOf(t)
<1>0. i \in 1..Len(ts) /\ Len(ts) \in Nat /\ EntryOf(ts[i])
  BY DEF Entries
<1>1. PICK t : t = FileOf(ts).index[i]
  OBVIOUS
<1>2. /\ DOMAIN FileOf(ts).index = DOMAIN ts
      /\ t = [name |-> ts[i].name, ty |-> ts[i].ty, dims |-> ts[i].dims, of |-> ts[i].of,
              at |-> Len(DataOf(ts)[i - 1])]
  BY <1>1 DEF FileOf
<1>3. /\ t.name = ts[i].name /\ t.ty = ts[i].ty /\ t.dims = ts[i].dims /\ t.of = ts[i].of
      /\ t.at = Len(DataOf(ts)[i - 1])
  BY <1>2
<1>4. RowsOf(t) = RowsOf(ts[i]) /\ CellsOf(t) = CellsOf(ts[i])
  BY <1>3 DEF RowsOf, CellsOf
<1>5. PICK ss, S :
        /\ ss \in Seq(Seq(S)) /\ Len(ss) = Len(ts)
        /\ \A k \in 1..Len(ts) : ss[k] = CellsOf(ts[k])
        /\ DataOf(ts) = Together(ss)
  BY DataIs, Zenon
<1>6. Len(ss[i]) = RowsOf(t) /\ ss[i] = CellsOf(t)
  <2>1. ss[i] = CellsOf(ts[i])
    BY <1>0, <1>5
  <2>2. Len(CellsOf(ts[i])) = RowsOf(ts[i])
    <3>1. \A r \in Nat : <<ts[i].of, r>> \in {ts[i].of} \X Nat
      OBVIOUS
    <3>2. QED BY <1>0, <3>1, CellsAre, Zenon
  <2>3. QED BY <2>1, <2>2, <1>4
<1>7. /\ Len(Together(ss)[i - 1]) \in Nat
      /\ Len(Together(ss)[i - 1]) + Len(ss[i]) <= Len(Together(ss)[Len(ss)])
      /\ SubSeq(Together(ss)[Len(ss)], Len(Together(ss)[i - 1]) + 1,
                Len(Together(ss)[i - 1]) + Len(ss[i])) = ss[i]
  <2>1. i \in 1..Len(ss)
    BY <1>0, <1>5
  <2>2. QED BY <1>5, <2>1, PieceStands
<1>8. FileOf(ts).rows = Together(ss)[Len(ss)]
  BY <1>5 DEF FileOf
<1>9. t.at = Len(Together(ss)[i - 1])
  BY <1>3, <1>5
<1>10. t.at \in Nat /\ t.at + RowsOf(t) <= Len(FileOf(ts).rows)
       /\ SubSeq(FileOf(ts).rows, t.at + 1, t.at + RowsOf(t)) = CellsOf(t)
  BY <1>6, <1>7, <1>8, <1>9, Zenon
<1>11. QED BY <1>1, <1>2, <1>3, <1>10

\* Of an index without two entries of one name, Named is the entry there is.
Distinct(ts) == \A i, j \in DOMAIN ts : ts[i].name = ts[j].name => i = j

\* What is found under a name has that name.
LEMMA NamedIs ==
  ASSUME NEW ts, NEW name, Has(ts, name)
  PROVE  \E i \in DOMAIN ts : ts[i].name = name /\ Named(ts, name) = ts[i]
<1>1. PICK i : i = CHOOSE j \in DOMAIN ts : ts[j].name = name
  OBVIOUS
<1>2. i \in DOMAIN ts /\ ts[i].name = name
  BY <1>1, Zenon DEF Has
<1>3. Named(ts, name) = ts[i]
  BY <1>1, Zenon DEF Named
<1>4. QED BY <1>2, <1>3

\* A name that only one entry has finds that entry.
LEMMA NamedOne ==
  ASSUME NEW ts, Distinct(ts), NEW i \in DOMAIN ts
  PROVE  Has(ts, ts[i].name) /\ Named(ts, ts[i].name) = ts[i]
<1>1. Has(ts, ts[i].name)
  BY DEF Has
<1>2. PICK j \in DOMAIN ts : ts[j].name = ts[i].name /\ Named(ts, ts[i].name) = ts[j]
  BY <1>1, NamedIs
<1>3. j = i
  BY <1>2 DEF Distinct
<1>4. QED BY <1>1, <1>2, <1>3

\* Of an index whose entries of one name are alike, it is like any of them.
Alike(t, u) == t.name = u.name /\ t.ty = u.ty /\ t.dims = u.dims /\ t.of = u.of
Consistent(ts) == \A i, j \in DOMAIN ts : ts[i].name = ts[j].name => Alike(ts[i], ts[j])

\* Entries of one name are alike, so the first one found will do.
LEMMA NamedAlike ==
  ASSUME NEW ts, Consistent(ts), NEW i \in DOMAIN ts
  PROVE  Has(ts, ts[i].name) /\ Alike(Named(ts, ts[i].name), ts[i])
<1>1. Has(ts, ts[i].name)
  BY DEF Has
<1>2. PICK j \in DOMAIN ts : ts[j].name = ts[i].name /\ Named(ts, ts[i].name) = ts[j]
  BY <1>1, NamedIs
<1>3. QED BY <1>1, <1>2 DEF Consistent

\* Like tensors have the same rows.
LEMMA AlikeRows ==
  ASSUME NEW t, NEW u, Alike(t, u)
  PROVE  Elems(t) = Elems(u) /\ Ne0(t) = Ne0(u) /\ RowsOf(t) = RowsOf(u) /\ CellsOf(t) = CellsOf(u)
<1>1. t.dims = u.dims /\ t.of = u.of
  BY DEF Alike
<1>2. Elems(t) = Elems(u) /\ Ne0(t) = Ne0(u) /\ RowsOf(t) = RowsOf(u)
  BY <1>1, Zenon DEF Elems, Ne0, RowsOf
<1>3. CellsOf(t) = CellsOf(u)
  BY <1>1, <1>2, Zenon DEF CellsOf
<1>4. QED BY <1>2, <1>3

\* What the readers of a file go by: as far as the file goes, an entry's rows are
\* where its index says.
Held(f, t) ==
  /\ t.dims \in Dims /\ t.at \in Nat
  /\ \A r \in 1..RowsOf(t) : t.at + r <= Len(f.rows) => f.rows[t.at + r] = <<t.of, r>>
Within(f, t) == t.at + RowsOf(t) <= Len(f.rows)
IsFile(f) ==
  /\ f.rows \in Seq({f.rows[k] : k \in 1..Len(f.rows)})
  /\ \A i \in DOMAIN f.index : Held(f, f.index[i])

\* The tensors of a listing.
LEMMA ListingIs ==
  ASSUME NEW ts, Listing(ts)
  PROVE  Entries(ts) /\ Distinct(ts) /\ Consistent(ts) /\ DOMAIN ts = 1..Len(ts) /\ Len(ts) \in Nat
<1>1. PICK X : X = [name : {ts[i].name : i \in DOMAIN ts}, ty : {"f32", "f16", "bf16", "q4_1", "pq2"},
                    dims : Seq(Nat) \ {<<>>}, of : {ts[i].of : i \in DOMAIN ts}]
  OBVIOUS
<1>2. ts \in Seq(X)
  BY <1>1, Zenon DEF Listing
<1>3. DOMAIN ts = 1..Len(ts) /\ Len(ts) \in Nat /\ \A i \in DOMAIN ts : ts[i] \in X
  BY <1>2
<1>4. \A i \in DOMAIN ts : EntryOf(ts[i])
  BY <1>1, <1>3 DEF EntryOf, Dims
<1>5. ts \in Seq({ts[i] : i \in DOMAIN ts})
  BY <1>2, <1>3
<1>6. Distinct(ts)
  BY DEF Listing, Distinct
<1>7. Consistent(ts)
  BY <1>6 DEF Distinct, Consistent, Alike
<1>8. QED BY <1>3, <1>4, <1>5, <1>6, <1>7 DEF Entries

\* The place of a piece that stands in a sequence, element by element.
LEMMA StandsThere ==
  ASSUME NEW S, NEW s \in Seq(S), NEW at \in Nat, NEW n \in Nat, at + n <= Len(s),
         NEW r \in 1..n
  PROVE  s[at + r] = SubSeq(s, at + 1, at + n)[r]
<1>1. at + 1 \in 1..Len(s) + 1 /\ at + n \in at..Len(s)
  OBVIOUS
<1>2. \A i \in 1..(at + n - (at + 1) + 1) : SubSeq(s, at + 1, at + n)[i] = s[at + 1 + i - 1]
  BY <1>1, SubSeqProperties
<1>3. r \in 1..(at + n - (at + 1) + 1) /\ at + 1 + r - 1 = at + r
  OBVIOUS
<1>4. QED BY <1>2, <1>3

\* What FileOf lays out is a file, and complete.
LEMMA FileOfIsFile ==
  ASSUME NEW ts, Entries(ts)
  PROVE  IsFile(FileOf(ts)) /\ \A i \in DOMAIN FileOf(ts).index : Within(FileOf(ts), FileOf(ts).index[i])
<1>1. DOMAIN FileOf(ts).index = DOMAIN ts
  BY DEF FileOf
<1>3. FileOf(ts).rows \in Seq({FileOf(ts).rows[k] : k \in 1..Len(FileOf(ts).rows)})
  <2>1. PICK ss, S :
          /\ ss \in Seq(Seq(S)) /\ Len(ss) = Len(ts)
          /\ \A k \in 1..Len(ts) : ss[k] = CellsOf(ts[k])
          /\ DataOf(ts) = Together(ss)
    BY DataIs, Zenon
  <2>2. Len(ss) \in 0..Len(ss)
    BY <2>1
  <2>3. Together(ss)[Len(ss)] \in Seq(S)
    BY <2>1, <2>2, TogetherSeqs
  <2>4. FileOf(ts).rows = Together(ss)[Len(ss)]
    BY <2>1 DEF FileOf
  <2>5. QED BY <2>3, <2>4
<1>2. ASSUME NEW i \in DOMAIN ts
      PROVE  Held(FileOf(ts), FileOf(ts).index[i]) /\ Within(FileOf(ts), FileOf(ts).index[i])
  <2>1. PICK t, rows : t = FileOf(ts).index[i] /\ rows = FileOf(ts).rows
    OBVIOUS
  <2>2. /\ t.dims = ts[i].dims /\ t.at \in Nat /\ t.at + RowsOf(t) <= Len(rows)
        /\ SubSeq(rows, t.at + 1, t.at + RowsOf(t)) = CellsOf(t)
    BY <2>1, FileHolds
  <2>3. t.dims \in Dims
    BY <2>2 DEF Entries, EntryOf
  <2>4. PICK n \in Nat, at \in Nat : n = RowsOf(t) /\ at = t.at
    BY <2>2, <2>3, ShapeNat
  <2>5. \A r \in 1..n : rows[at + r] = <<t.of, r>>
    <3> TAKE r \in 1..n
    <3>1. PICK S : rows \in Seq(S)
      BY <1>3, <2>1
    <3>2. rows[at + r] = SubSeq(rows, at + 1, at + n)[r]
      <4>1. at + n <= Len(rows)
        BY <2>2, <2>4
      <4>2. rows \in Seq(S) /\ at \in Nat /\ n \in Nat /\ r \in 1..n
        BY <2>4, <3>1
      <4>3. QED BY ONLY <4>1, <4>2, StandsThere, Zenon
    <3>3. CellsOf(t)[r] = <<t.of, r>>
      BY <2>4 DEF CellsOf
    <3>4. QED BY <2>2, <2>4, <3>2, <3>3
  <2>6. QED BY <2>1, <2>2, <2>3, <2>4, <2>5, Zenon DEF Held, Within
<1>4. QED BY <1>1, <1>2, <1>3 DEF IsFile

\* So is a file that was cut short, though it is not complete.
LEMMA CutIsFile ==
  ASSUME NEW f, f.rows \in Seq({f.rows[k] : k \in 1..Len(f.rows)}), IsFile(f), NEW lost \in Nat,
         f = [index |-> f.index, rows |-> f.rows]
  PROVE  IsFile(CutShort(f, lost)) /\ CutShort(f, lost).index = f.index
<1>1. PICK rows, S : rows = f.rows /\ rows \in Seq(S)
  OBVIOUS
<1>2. PICK left \in Int : left = Len(rows) - lost
  BY <1>1
<1>3. PICK cut : cut = SubSeq(rows, 1, left)
  OBVIOUS
<1>4. CutShort(f, lost).index = f.index /\ CutShort(f, lost).rows = cut
  <2>1. CutShort(f, lost) = [f EXCEPT !.rows = cut]
    BY <1>1, <1>2, <1>3 DEF CutShort
  <2>2. QED BY <2>1
<1>5. cut \in Seq(S) /\ Len(cut) \in Nat /\ Len(cut) <= Len(rows) /\ \A k \in 1..Len(cut) : cut[k] = rows[k]
  <2>1. CASE left >= 1
    <3>1. 1 \in 1..Len(rows) + 1 /\ left \in 0..Len(rows)
      BY <1>1, <1>2, <2>1
    <3>4. \A i \in 1..left : rows[i] \in S
      BY <1>1, <3>1
    <3>5. cut \in Seq(S) /\ Len(cut) = (IF 1 <= left THEN left - 1 + 1 ELSE 0)
          /\ \A k \in 1..(left - 1 + 1) : cut[k] = rows[1 + k - 1]
      BY <1>2, <1>3, <3>4, SubSeqProperties
    <3>6. left - 1 + 1 = left /\ \A k \in 1..left : 1 + k - 1 = k
      BY <1>2
    <3>2. cut \in Seq(S) /\ Len(cut) = left /\ \A k \in 1..left : cut[k] = rows[k]
      BY <2>1, <3>5, <3>6
    <3>3. left \in Nat /\ left <= Len(rows)
      BY <3>1
    <3>7. QED BY <3>2, <3>3
  <2>2. CASE ~(left >= 1)
    <3>1. cut = <<>>
      BY <1>2, <1>3, <2>2, SubSeqEmpty
    <3>2. cut \in Seq(S) /\ Len(cut) = 0
      BY <3>1
    <3>3. Len(rows) \in Nat
      BY <1>1
    <3>4. QED BY <3>2, <3>3
  <2>3. QED BY <2>1, <2>2
<1>6. cut \in Seq({cut[k] : k \in 1..Len(cut)})
  <2>1. PICK T : T = {cut[k] : k \in 1..Len(cut)}
    OBVIOUS
  <2>2. \A k \in 1..Len(cut) : cut[k] \in T
    BY <2>1
  <2>3. cut = [k \in 1..Len(cut) |-> cut[k]]
    BY <1>5
  <2>4. cut \in [1..Len(cut) -> T]
    BY ONLY <2>2, <2>3
  <2>5. cut \in Seq(T)
    BY ONLY <1>5, <2>4
  <2>6. QED BY <2>1, <2>5
<1>7. ASSUME NEW i \in DOMAIN f.index
      PROVE  Held(CutShort(f, lost), f.index[i])
  <2>1. PICK t : t = f.index[i]
    OBVIOUS
  <2>2. Held(f, t)
    BY <2>1 DEF IsFile
  <2>3. PICK n \in Nat, at \in Nat : n = RowsOf(t) /\ at = t.at
    BY <2>2, ShapeNat DEF Held
  <2>4. \A r \in 1..n : at + r <= Len(rows) => rows[at + r] = <<t.of, r>>
    BY <1>1, <2>2, <2>3, Zenon DEF Held
  <2>5. \A r \in 1..n : at + r <= Len(cut) => cut[at + r] = <<t.of, r>>
    <3> TAKE r \in 1..n
    <3>1. SUFFICES ASSUME at + r <= Len(cut) PROVE cut[at + r] = <<t.of, r>>
      OBVIOUS
    <3>4. Len(rows) \in Nat
      BY <1>1
    <3>2. at + r \in 1..Len(cut) /\ at + r <= Len(rows)
      BY <1>5, <3>1, <3>4
    <3>3. QED BY <1>5, <2>4, <3>2
  <2>6. QED BY <1>4, <2>1, <2>2, <2>3, <2>5, Zenon DEF Held
<1>8. QED BY <1>4, <1>6, <1>7 DEF IsFile

\* An entry of a written file has what the tensor it was written for has.
LEMMA FileKeeps ==
  ASSUME NEW ts, Entries(ts), Consistent(ts), NEW i \in DOMAIN ts
  PROVE  Has(FileOf(ts).index, ts[i].name) /\ Alike(Named(FileOf(ts).index, ts[i].name), ts[i])
<1>1. PICK index : index = FileOf(ts).index
  OBVIOUS
<1>2. DOMAIN index = DOMAIN ts /\ \A j \in DOMAIN ts : Alike(index[j], ts[j])
  BY <1>1, FileHolds DEF Alike
<1>3. Consistent(index)
  BY <1>2 DEF Consistent, Alike
<1>4. index[i].name = ts[i].name
  BY <1>2 DEF Alike
<1>5. Has(index, ts[i].name) /\ Alike(Named(index, ts[i].name), index[i])
  BY <1>2, <1>3, <1>4, NamedAlike
<1>6. QED BY <1>1, <1>2, <1>5 DEF Alike

\* The name of a tensor that is not there is not in the file.
LEMMA FileHasNoOther ==
  ASSUME NEW ts, Entries(ts), NEW name, Has(FileOf(ts).index, name)
  PROVE  \E i \in DOMAIN ts : ts[i].name = name
<1>1. DOMAIN FileOf(ts).index = DOMAIN ts
  BY DEF FileOf
<1>2. PICK i \in DOMAIN ts : FileOf(ts).index[i].name = name
  BY <1>1 DEF Has
<1>3. FileOf(ts).index[i].name = ts[i].name
  BY FileHolds
<1>4. QED BY <1>2, <1>3

\* What is named is an entry.
LEMMA NamedHeld ==
  ASSUME NEW f, IsFile(f), NEW name, Has(f.index, name)
  PROVE  Held(f, Named(f.index, name)) /\ Named(f.index, name).name = name
<1>1. PICK i \in DOMAIN f.index : f.index[i].name = name /\ Named(f.index, name) = f.index[i]
  BY NamedIs
<1>2. QED BY <1>1 DEF IsFile

\* The payload of an entry, if the file has it, and one row of it.
LEMMA PayloadIs ==
  ASSUME NEW f, IsFile(f), NEW t, Held(f, t)
  PROVE  PayloadSlice(f, t) = IF Within(f, t) THEN Ok(CellsOf(t)) ELSE Err
<1>1. PICK n : n = RowsOf(t)
  OBVIOUS
<1>2. PICK size : size = Len(f.rows)
  OBVIOUS
<1>3. PICK at : at = t.at
  OBVIOUS
<1>4. n \in Nat /\ at \in Nat
  BY <1>1, <1>3, ShapeNat DEF Held
<1>5. size \in Nat
  BY <1>2 DEF IsFile
<1>6. PICK S : f.rows \in Seq(S)
  BY DEF IsFile
<1>7. Within(f, t) <=> ~(at + n > size)
  BY <1>1, <1>2, <1>3, <1>4, <1>5 DEF Within
<1>8. PayloadSlice(f, t) = IF at + n > size THEN Err ELSE Ok(SubSeq(f.rows, at + 1, at + n))
  BY <1>1, <1>2, <1>3, Zenon DEF PayloadSlice, SliceAt
<1>9. ASSUME at + n <= size PROVE SubSeq(f.rows, at + 1, at + n) = CellsOf(t)
  <2>1. PICK e, rows : e = SubSeq(rows, at + 1, at + n) /\ rows = f.rows
    OBVIOUS
  <2>2. \A r \in 1..n : rows[at + r] = <<t.of, r>>
    <3> TAKE r \in 1..n
    <3>1. at + r <= size
      BY <1>4, <1>5, <1>9
    <3>2. QED BY <1>1, <1>2, <1>3, <2>1, <3>1, Zenon DEF Held
  <2>3. \A r \in 1..n : e[r] = <<t.of, r>>
    <3> TAKE r \in 1..n
    <3>1. rows[at + r] = SubSeq(rows, at + 1, at + n)[r]
      BY <1>2, <1>4, <1>6, <1>9, <2>1, StandsThere, Zenon
    <3>2. QED BY <2>1, <2>2, <3>1
  <2>4. e \in Seq(S) /\ Len(e) = n
    <3>1. \A i \in (at + 1)..(at + n) : rows[i] \in S
      <4>1. \A i \in (at + 1)..(at + n) : i \in 1..Len(rows)
        BY <1>2, <1>4, <1>5, <1>9, <2>1
      <4>2. rows \in Seq(S)
        BY <1>6, <2>1
      <4>3. QED BY <4>1, <4>2
    <3>2. e \in Seq(S) /\ Len(e) = (IF at + 1 <= at + n THEN at + n - (at + 1) + 1 ELSE 0)
      BY <1>4, <2>1, <3>1, SubSeqProperties
    <3>3. QED BY <1>4, <3>2
  <2>5. CellsOf(t) = [r \in 1..n |-> <<t.of, r>>]
    <3>1. CellsOf(t) = [r \in 1..RowsOf(t) |-> <<t.of, r>>]
      BY DEF CellsOf
    <3>2. QED BY <1>1, <3>1
  <2>6. e = [r \in 1..n |-> <<t.of, r>>]
    <3>1. DOMAIN e = 1..n /\ e = [r \in DOMAIN e |-> e[r]]
      BY <2>4
    <3>2. e = [r \in 1..n |-> e[r]]
      BY <3>1
    <3>3. [r \in 1..n |-> e[r]] = [r \in 1..n |-> <<t.of, r>>]
      BY <2>3
    <3>4. QED BY <3>2, <3>3
  <2>7. e = CellsOf(t)
    BY ONLY <2>5, <2>6
  <2>8. QED BY ONLY <2>1, <2>7
<1>10. CASE at + n > size
  BY <1>7, <1>8, <1>10
<1>11. CASE ~(at + n > size)
  <2>1. SubSeq(f.rows, at + 1, at + n) = CellsOf(t)
    BY <1>4, <1>5, <1>9, <1>11
  <2>2. PayloadSlice(f, t) = Ok(SubSeq(f.rows, at + 1, at + n)) /\ Within(f, t)
    BY <1>7, <1>8, <1>11
  <2>3. QED BY <2>1, <2>2
<1>12. QED BY <1>10, <1>11

\* A row that is there is that tensor's row.
LEMMA RowIs ==
  ASSUME NEW f, IsFile(f), NEW t, Held(f, t), NEW row \in Nat, row < RowsOf(t)
  PROVE  SliceAt(f, t.at + row, 1) \in {Ok(<<<<t.of, row + 1>>>>), Err}
<1>1. PICK n : n = RowsOf(t)
  OBVIOUS
<1>2. PICK rows : rows = f.rows
  OBVIOUS
<1>3. PICK at : at = t.at
  OBVIOUS
<1>4. n \in Nat /\ at \in Nat /\ row < n
  BY <1>1, <1>3, ShapeNat DEF Held
<1>5. rows \in Seq({rows[k] : k \in 1..Len(rows)}) /\ Len(rows) \in Nat
  BY <1>2 DEF IsFile
<1>7. SliceAt(f, at + row, 1) =
         IF at + row + 1 > Len(rows) THEN Err ELSE Ok(SubSeq(rows, at + row + 1, at + row + 1))
  BY <1>2, Zenon DEF SliceAt
<1>0. CASE at + row + 1 > Len(rows)
  BY <1>0, <1>3, <1>7
<1>6. SUFFICES ASSUME ~(at + row + 1 > Len(rows)) PROVE SliceAt(f, t.at + row, 1) = Ok(<<<<t.of, row + 1>>>>)
  BY <1>0
<1>8. rows[at + row + 1] = <<t.of, row + 1>>
  <2>1. PICK r \in 1..n : r = row + 1 /\ at + r = at + row + 1
    BY <1>4
  <2>2. at + r <= Len(rows)
    BY <1>4, <1>5, <1>6, <2>1
  <2>3. rows[at + r] = <<t.of, r>>
    BY <1>1, <1>2, <1>3, <2>2, Zenon DEF Held
  <2>4. QED BY <2>1, <2>3
<1>9. SubSeq(rows, at + row + 1, at + row + 1) = <<rows[at + row + 1]>>
  <2>1. PICK k : k = at + row + 1
    OBVIOUS
  <2>2. k \in 1..Len(rows) /\ k \in Nat
    BY <1>4, <1>5, <1>6, <2>1
  <2>3. PICK e : e = SubSeq(rows, k, k)
    OBVIOUS
  <2>4. e \in Seq({rows[i] : i \in 1..Len(rows)}) /\ Len(e) = 1 /\ e[1] = rows[k]
    <3>1. k \in 1..Len(rows) + 1 /\ k \in (k - 1)..Len(rows)
      BY <1>5, <2>2
    <3>2. e \in Seq({rows[i] : i \in 1..Len(rows)})
      BY <1>5, <2>2, <2>3, <3>1, SubSeqProperties
    <3>3. Len(e) = k - k + 1 /\ \A i \in 1..(k - k + 1) : e[i] = rows[k + i - 1]
      BY <1>5, <2>2, <2>3, <3>1, SubSeqProperties
    <3>4. k - k + 1 = 1 /\ 1 \in 1..(k - k + 1) /\ k + 1 - 1 = k
      BY <2>2
    <3>5. QED BY <3>2, <3>3, <3>4
  <2>5. e = <<rows[k]>>
    BY <2>4
  <2>6. QED BY <2>1, <2>3, <2>5
<1>10. QED BY <1>3, <1>6, <1>7, <1>8, <1>9

-----------------------------------------------------------------------------
\* What a read gives.
LEMMA ReadsAre ==
  /\ \A rows : Ok(rows) # Err /\ Ok(rows) # Panicked /\ Ok(rows).is = "ok" /\ Ok(rows).rows = rows
  /\ Err # Panicked /\ Err.is = "err" /\ Panicked.is = "panic"
BY DEF Ok, Err, Panicked

\* What stands in the memo, or in device memory, are rows of the target's tensors.
HeldRows(h) == \A name \in DOMAIN h : Has(Ts, name) /\ h[name] = CellsOf(Named(Ts, name))

\* vec_f32 gives the vector of that name from the memo or the file, and gives
\* every f32 one of a size it allows that the file has.
LEMMA VecIs ==
  ASSUME IsFile(target), HeldRows(memo), NEW name
  PROVE  /\ VecF32(name) # Err => Has(Ts, name) /\ VecF32(name) = Ok(CellsOf(Named(Ts, name)))
         /\ Has(Ts, name) /\ Named(Ts, name).ty = "f32" /\ Elems(Named(Ts, name)) <= MaxVec =>
              VecF32(name) # Err \/ Missing(target, name)
<1>1. CASE name \in DOMAIN memo
  <2>1. VecF32(name) = Ok(memo[name])
    BY <1>1 DEF VecF32
  <2>2. Has(Ts, name) /\ memo[name] = CellsOf(Named(Ts, name))
    BY <1>1 DEF HeldRows
  <2>3. QED BY <2>1, <2>2, ReadsAre
<1>2. CASE name \notin DOMAIN memo /\ ~Has(Ts, name)
  <2>1. VecF32(name) = Err
    BY <1>2 DEF VecF32
  <2>2. QED BY <2>1, <1>2
<1>3. CASE name \notin DOMAIN memo /\ Has(Ts, name)
  <2>1. PICK t : t = Named(Ts, name)
    OBVIOUS
  <2>2. Held(target, t)
    BY <1>3, <2>1, NamedHeld DEF Ts
  <2>3. VecF32(name) = IF t.ty \notin {"f32", "f16"} \/ Elems(t) > MaxVec THEN Err ELSE PayloadSlice(target, t)
    BY <1>3, <2>1, Zenon DEF VecF32
  <2>4. PayloadSlice(target, t) \in {Ok(CellsOf(t)), Err} /\ (PayloadSlice(target, t) = Err => Missing(target, name))
    BY <2>1, <2>2, PayloadIs DEF Missing, Ts
  <2>5. Elems(t) \in Nat /\ MaxVec \in Nat
    BY <2>2, ShapeNat, TensorLookupAssumption DEF Held
  <2>6. t.ty = "f32" /\ Elems(t) <= MaxVec => ~(t.ty \notin {"f32", "f16"} \/ Elems(t) > MaxVec)
    BY <2>5
  <2>7. QED BY <1>3, <2>1, <2>3, <2>4, <2>6, ReadsAre
<1>4. QED BY <1>1, <1>2, <1>3

\* A product with n rows is one with the tensor's first n rows, on the device or
\* from the file; a matrix of the right width that the file has is not refused.
LEMMA MatvecIs ==
  ASSUME IsFile(target), HeldRows(device), NEW name, Has(Ts, name), NEW n \in Nat, NEW cols,
         NEW t, t = Named(Ts, name)
  PROVE  /\ MatvecInto(t, n, cols) # Err =>
              n <= RowsOf(t) /\ MatvecInto(t, n, cols) = Ok(SubSeq(CellsOf(t), 1, n))
         /\ t.ty = "pq2" /\ cols = Ne0(t) /\ n <= RowsOf(t) =>
              MatvecInto(t, n, cols) # Err \/ Missing(target, name)
<1>1. Held(target, t) /\ t.name = name
  BY NamedHeld DEF Ts
<1>2. PICK k \in Nat : k = RowsOf(t)
  BY <1>1, ShapeNat DEF Held
<1>3. /\ PayloadSlice(target, t) = Err => Missing(target, name)
      /\ PayloadSlice(target, t) # Err => PayloadSlice(target, t).rows = CellsOf(t)
  <2>1. PayloadSlice(target, t) \in {Ok(CellsOf(t)), Err}
    BY <1>1, PayloadIs
  <2>2. QED BY <2>1, ReadsAre DEF Missing, Ts
<1>4. CASE t.ty # "pq2" \/ cols # Ne0(t) \/ n > k
  <2>1. MatvecInto(t, n, cols) = Err
    BY <1>2, <1>4, Zenon DEF MatvecInto
  <2>2. n > k => ~(n <= k)
    BY <1>2
  <2>3. QED BY <1>2, <1>4, <2>1, <2>2
<1>5. CASE ~(t.ty # "pq2" \/ cols # Ne0(t) \/ n > k) /\ t.name \in DOMAIN device
  <2>1. MatvecInto(t, n, cols) = Ok(SubSeq(device[t.name], 1, n))
    BY <1>2, <1>5, Zenon DEF MatvecInto
  <2>2. device[t.name] = CellsOf(t)
    BY <1>1, <1>5, Zenon DEF HeldRows
  <2>3. n <= k
    BY <1>2, <1>5
  <2>4. QED BY <1>2, <2>1, <2>2, <2>3, ReadsAre
<1>6. CASE ~(t.ty # "pq2" \/ cols # Ne0(t) \/ n > k) /\ t.name \notin DOMAIN device
  <2>1. MatvecInto(t, n, cols) =
          IF PayloadSlice(target, t) = Err THEN Err ELSE Ok(SubSeq(PayloadSlice(target, t).rows, 1, n))
    BY <1>2, <1>6, Zenon DEF MatvecInto
  <2>2. n <= k
    BY <1>2, <1>6
  <2>3. QED BY <1>2, <1>3, <2>1, <2>2, ReadsAre
<1>7. QED BY <1>4, <1>5, <1>6

\* All the rows are the rows.
LEMMA AllRows ==
  ASSUME NEW f, NEW t, Held(f, t)
  PROVE  SubSeq(CellsOf(t), 1, RowsOf(t)) = CellsOf(t)
<1>1. RowsOf(t) \in Nat
  BY ShapeNat DEF Held
<1>2. EntryOf(t)
  BY DEF Held, EntryOf
<1>3. \A r \in Nat : <<t.of, r>> \in {t.of} \X Nat
  OBVIOUS
<1>4. CellsOf(t) \in Seq({t.of} \X Nat) /\ Len(CellsOf(t)) = RowsOf(t)
  BY <1>2, <1>3, CellsAre, Zenon
<1>5. QED BY <1>4, SubSeqFull

\* What a forward pass is given is what it asked for, of the tensor it named.
ForwardFn == {"row", "vec", "vec_rows", "matvec", "matvec_into", "head"}

\* So whatever a forward pass is given are the rows it asked for.
LEMMA GivesOwners ==
  ASSUME IsFile(target), HeldRows(memo), HeldRows(device),
         NEW a, a.fn \in ForwardFn, a.n \in Nat, Outcome(a).is = "ok"
  PROVE  Has(Ts, a.name) /\ Outcome(a) = Ok(Asked(a, Named(Ts, a.name)))
<1>1. PICK t : t = Named(Ts, a.name)
  OBVIOUS
<1>2. PICK n \in Nat : n = a.n
  OBVIOUS
<1>3. Has(Ts, a.name) => Held(target, t)
  BY <1>1, NamedHeld DEF Ts
<1>4. CASE a.fn = "row"
  <2>1. Outcome(a) = IF RowF32(a.name, n) # Err /\ Ne0(t) # a.cols THEN Err ELSE RowF32(a.name, n)
    BY <1>1, <1>2, <1>4, Zenon DEF Outcome
  <2>2. RowF32(a.name, n) # Err /\ Outcome(a) = RowF32(a.name, n)
    BY <2>1, ReadsAre
  <2>3. Has(Ts, a.name)
    BY <2>2 DEF RowF32
  <2>4. InRange(t, n) /\ RowF32(a.name, n) = SliceAt(target, t.at + n, 1)
    BY <1>1, <2>2, <2>3, Zenon DEF RowF32
  <2>5. RowF32(a.name, n) = Ok(<<<<t.of, n + 1>>>>)
    BY <1>3, <2>2, <2>3, <2>4, RowIs DEF InRange
  <2>6. Asked(a, t) = <<<<t.of, n + 1>>>>
    BY <1>2, <1>4, Zenon DEF Asked
  <2>7. QED BY <1>1, <2>2, <2>3, <2>5, <2>6
<1>5. CASE a.fn = "vec"
  <2>1. Outcome(a) = IF VecF32(a.name) # Err /\ Elems(t) < n THEN Panicked ELSE VecF32(a.name)
    BY <1>1, <1>2, <1>5, Zenon DEF Outcome
  <2>2. VecF32(a.name) # Err /\ Outcome(a) = VecF32(a.name)
    BY <2>1, ReadsAre
  <2>3. Asked(a, t) = CellsOf(t)
    BY <1>5, Zenon DEF Asked
  <2>4. QED BY <1>1, <2>2, <2>3, VecIs
<1>6. CASE a.fn = "vec_rows"
  <2>1. Outcome(a) = IF VecF32(a.name) # Err /\ Elems(t) # n THEN Err ELSE VecF32(a.name)
    BY <1>1, <1>2, <1>6, Zenon DEF Outcome
  <2>2. VecF32(a.name) # Err /\ Outcome(a) = VecF32(a.name)
    BY <2>1, ReadsAre
  <2>3. Asked(a, t) = CellsOf(t)
    BY <1>6, Zenon DEF Asked
  <2>4. QED BY <1>1, <2>2, <2>3, VecIs
<1>7. CASE a.fn = "matvec"
  <2>1. Outcome(a) = IF ~Has(Ts, a.name) \/ RowsOf(t) # n THEN Err ELSE MatvecInto(t, RowsOf(t), a.cols)
    BY <1>1, <1>2, <1>7, Zenon DEF Outcome
  <2>2. Has(Ts, a.name) /\ RowsOf(t) = n /\ Outcome(a) = MatvecInto(t, RowsOf(t), a.cols)
    BY <2>1, ReadsAre
  <2>3. Outcome(a) # Err
    BY ReadsAre
  <2>4. Outcome(a) = Ok(SubSeq(CellsOf(t), 1, RowsOf(t)))
    <3>1. Has(Ts, a.name) /\ MatvecInto(t, n, a.cols) # Err
      BY <2>2, <2>3
    <3>2. MatvecInto(t, n, a.cols) = Ok(SubSeq(CellsOf(t), 1, n))
      BY <1>1, <3>1, MatvecIs, Zenon
    <3>3. QED BY <2>2, <3>2
  <2>5. Asked(a, t) = CellsOf(t)
    BY <1>7, Zenon DEF Asked
  <2>6. QED BY <1>1, <1>3, <2>2, <2>4, <2>5, AllRows
<1>8. CASE a.fn = "matvec_into"
  <2>1. Outcome(a) = IF ~Has(Ts, a.name) THEN Err ELSE MatvecInto(t, n, a.cols)
    BY <1>1, <1>2, <1>8, Zenon DEF Outcome
  <2>2. Has(Ts, a.name) /\ Outcome(a) = MatvecInto(t, n, a.cols) /\ Outcome(a) # Err
    BY <2>1, ReadsAre
  <2>3. Outcome(a) = Ok(SubSeq(CellsOf(t), 1, n))
    BY <1>1, <2>2, MatvecIs, Zenon
  <2>4. Asked(a, t) = SubSeq(CellsOf(t), 1, n)
    BY <1>2, <1>8, Zenon DEF Asked
  <2>5. QED BY <1>1, <2>2, <2>3, <2>4
<1>9. CASE a.fn = "head"
  <2>1. Outcome(a) = IF ~Has(Ts, a.name) THEN Err ELSE MatvecInto(t, RowsOf(t), a.cols)
    BY <1>1, <1>2, <1>9, Zenon DEF Outcome
  <2>2. Has(Ts, a.name) /\ Outcome(a) = MatvecInto(t, RowsOf(t), a.cols) /\ Outcome(a) # Err
    BY <2>1, ReadsAre
  <2>3. RowsOf(t) \in Nat
    BY <1>3, <2>2, ShapeNat DEF Held
  <2>4. Outcome(a) = Ok(SubSeq(CellsOf(t), 1, RowsOf(t)))
    <3>1. PICK k \in Nat : k = RowsOf(t)
      BY <2>3
    <3>2. Has(Ts, a.name) /\ MatvecInto(t, k, a.cols) # Err
      BY <2>2, <3>1
    <3>3. MatvecInto(t, k, a.cols) = Ok(SubSeq(CellsOf(t), 1, k))
      BY <1>1, <3>2, MatvecIs, Zenon
    <3>4. QED BY <2>2, <3>1, <3>3
  <2>5. Asked(a, t) = CellsOf(t)
    BY <1>9, Zenon DEF Asked
  <2>6. QED BY <1>1, <1>3, <2>2, <2>4, <2>5, AllRows
<1>10. QED BY <1>4, <1>5, <1>6, <1>7, <1>8, <1>9 DEF ForwardFn

-----------------------------------------------------------------------------
\* What verify expects of a tensor is enough for what a layer asks of it.
ServedBy(a, e) ==
  /\ a.name = e.name /\ a.n \in Nat
  /\ \/ a.fn = "vec" /\ e.ty = "f32" /\ a.n <= Elems(e)
     \/ a.fn = "vec_rows" /\ e.ty = "f32" /\ a.n = Elems(e)
     \/ a.fn = "matvec" /\ e.ty = "pq2" /\ a.cols = Ne0(e) /\ a.n = RowsOf(e)
     \/ a.fn = "matvec_into" /\ e.ty = "pq2" /\ a.cols = Ne0(e) /\ a.n <= RowsOf(e)
LayerServes(c, il, a) == \E e \in ExpectedTensors(c, il) : ServedBy(a, e)

Expected(il, s, ty, dims) == [name |-> <<il, s>>, ty |-> ty, dims |-> dims]

\* The widths of a configuration are numbers.
LEMMA WidthsNat ==
  ASSUME NEW c \in ModelConfig
  PROVE  /\ {c.embd, c.ff, c.hd, c.rank, c.inner, c.state, c.kernel, c.layers} \subseteq Nat
         /\ AttnIn(c) \in Nat /\ 2 * AttnIn(c) \in Nat /\ KvRows(c) \in Nat /\ Channels(c) \in Nat
         /\ c.kernel * Channels(c) \in Nat
<1>1. {c.embd, c.ff, c.heads, c.kv, c.hd, c.rank, c.inner, c.state, c.kernel, c.groups, c.layers} \subseteq Nat
  BY DEF ModelConfig
<1>2. PICK heads \in Nat, kv \in Nat, hd \in Nat, state \in Nat, groups \in Nat, inner \in Nat, kernel \in Nat :
        heads = c.heads /\ kv = c.kv /\ hd = c.hd /\ state = c.state /\ groups = c.groups
        /\ inner = c.inner /\ kernel = c.kernel
  BY <1>1
<1>3. PICK p \in Nat, q \in Nat, r \in Nat : p = heads * hd /\ q = kv * hd /\ r = groups * state
  OBVIOUS
<1>4. AttnIn(c) = p /\ KvRows(c) = q /\ Channels(c) = 2 * r + inner
  BY <1>2, <1>3 DEF AttnIn, KvRows, Channels, KeyDim
<1>5. PICK s \in Nat : s = 2 * r + inner
  OBVIOUS
<1>6. kernel * s \in Nat /\ 2 * p \in Nat
  OBVIOUS
<1>7. QED BY <1>1, <1>2, <1>4, <1>5, <1>6

\* What expected_layer_tensors lists, one by one.
LEMMA ExpectedOfAll ==
  ASSUME NEW c, NEW il
  PROVE  /\ Expected(il, "attn_norm", "f32", <<c.embd>>) \in ExpectedTensors(c, il)
         /\ Expected(il, "post_attention_norm", "f32", <<c.embd>>) \in ExpectedTensors(c, il)
         /\ Expected(il, "ffn_gate", "pq2", <<c.embd, c.ff>>) \in ExpectedTensors(c, il)
         /\ Expected(il, "ffn_up", "pq2", <<c.embd, c.ff>>) \in ExpectedTensors(c, il)
         /\ Expected(il, "ffn_down", "pq2", <<c.ff, c.embd>>) \in ExpectedTensors(c, il)
BY DEF ExpectedTensors, Expected

\* What a layer of full attention is expected to have.
LEMMA ExpectedOfFull ==
  ASSUME NEW c, NEW il, IsFull(c, il)
  PROVE  /\ Expected(il, "attn_q", "pq2", <<c.embd, 2 * AttnIn(c)>>) \in ExpectedTensors(c, il)
         /\ Expected(il, "attn_q_norm", "f32", <<c.hd>>) \in ExpectedTensors(c, il)
         /\ Expected(il, "attn_k", "pq2", <<c.embd, KvRows(c)>>) \in ExpectedTensors(c, il)
         /\ Expected(il, "attn_k_norm", "f32", <<c.hd>>) \in ExpectedTensors(c, il)
         /\ Expected(il, "attn_v", "pq2", <<c.embd, KvRows(c)>>) \in ExpectedTensors(c, il)
         /\ Expected(il, "attn_output", "pq2", <<AttnIn(c), c.embd>>) \in ExpectedTensors(c, il)
BY DEF ExpectedTensors, Expected

\* What a recurrent layer is expected to have.
LEMMA ExpectedOfRecurrent ==
  ASSUME NEW c, NEW il, ~IsFull(c, il)
  PROVE  /\ Expected(il, "attn_qkv", "pq2", <<c.embd, Channels(c)>>) \in ExpectedTensors(c, il)
         /\ Expected(il, "attn_gate", "pq2", <<c.embd, c.inner>>) \in ExpectedTensors(c, il)
         /\ Expected(il, "ssm_a", "f32", <<c.rank>>) \in ExpectedTensors(c, il)
         /\ Expected(il, "ssm_alpha", "pq2", <<c.embd, c.rank>>) \in ExpectedTensors(c, il)
         /\ Expected(il, "ssm_beta", "pq2", <<c.embd, c.rank>>) \in ExpectedTensors(c, il)
         /\ Expected(il, "ssm_conv1d", "f32", <<c.kernel, Channels(c)>>) \in ExpectedTensors(c, il)
         /\ Expected(il, "ssm_dt", "f32", <<c.rank>>) \in ExpectedTensors(c, il)
         /\ Expected(il, "ssm_norm", "f32", <<c.state>>) \in ExpectedTensors(c, il)
         /\ Expected(il, "ssm_out", "pq2", <<c.inner, c.embd>>) \in ExpectedTensors(c, il)
BY DEF ExpectedTensors, Expected

\* A vector, and a matrix, of the expected shape serve.
LEMMA ServesVec ==
  ASSUME NEW c, NEW il, NEW s, NEW n \in Nat,
         Expected(il, s, "f32", <<n>>) \in ExpectedTensors(c, il)
  PROVE  /\ LayerServes(c, il, Ask("vec", <<il, s>>, 0, n))
         /\ LayerServes(c, il, Ask("vec_rows", <<il, s>>, 0, n))
<1>1. PICK e : e = Expected(il, s, "f32", <<n>>)
  OBVIOUS
<1>2. e.name = <<il, s>> /\ e.ty = "f32" /\ e.dims = <<n>>
  BY <1>1 DEF Expected
<1>3. Elems(e) = n
  BY <1>2, Vector
<1>4. ServedBy(Ask("vec", <<il, s>>, 0, n), e) /\ ServedBy(Ask("vec_rows", <<il, s>>, 0, n), e)
  BY <1>2, <1>3 DEF ServedBy, Ask
<1>5. QED BY <1>1, <1>4 DEF LayerServes

\* A matrix read as one vector.
LEMMA ServesWide ==
  ASSUME NEW c, NEW il, NEW s, NEW n \in Nat, NEW k \in Nat,
         Expected(il, s, "f32", <<n, k>>) \in ExpectedTensors(c, il)
  PROVE  LayerServes(c, il, Ask("vec", <<il, s>>, 0, n * k))
<1>1. PICK e : e = Expected(il, s, "f32", <<n, k>>)
  OBVIOUS
<1>2. e.name = <<il, s>> /\ e.ty = "f32" /\ e.dims = <<n, k>>
  BY <1>1 DEF Expected
<1>3. PICK m \in Nat : m = n * k
  OBVIOUS
<1>4. Elems(e) = m
  BY <1>2, <1>3, Matrix
<1>5. ServedBy(Ask("vec", <<il, s>>, 0, m), e)
  BY <1>2, <1>4 DEF ServedBy, Ask
<1>6. QED BY <1>1, <1>3, <1>5 DEF LayerServes

\* A ternary matrix with as many columns as the vector has elements.
LEMMA ServesMatrix ==
  ASSUME NEW c, NEW il, NEW s, NEW n \in Nat, NEW k \in Nat,
         Expected(il, s, "pq2", <<n, k>>) \in ExpectedTensors(c, il)
  PROVE  /\ LayerServes(c, il, Ask("matvec", <<il, s>>, n, k))
         /\ LayerServes(c, il, Ask("matvec_into", <<il, s>>, n, k))
<1>1. PICK e : e = Expected(il, s, "pq2", <<n, k>>)
  OBVIOUS
<1>2. e.name = <<il, s>> /\ e.ty = "pq2" /\ e.dims = <<n, k>>
  BY <1>1 DEF Expected
<1>3. Ne0(e) = n /\ RowsOf(e) = k
  BY <1>2, Matrix
<1>4. ServedBy(Ask("matvec", <<il, s>>, n, k), e) /\ ServedBy(Ask("matvec_into", <<il, s>>, n, k), e)
  BY <1>2, <1>3 DEF ServedBy, Ask
<1>5. QED BY <1>1, <1>4 DEF LayerServes

\* The requests of a layer, one by one: front.
LEMMA FrontServed ==
  ASSUME NEW c \in ModelConfig, NEW il
  PROVE  /\ LayerServes(c, il, Ask("vec", <<il, "attn_norm">>, 0, c.embd))
<1>0. {c.embd, c.ff, c.hd, c.rank, c.inner, c.state, c.kernel} \subseteq Nat /\ AttnIn(c) \in Nat
      /\ 2 * AttnIn(c) \in Nat /\ KvRows(c) \in Nat /\ Channels(c) \in Nat
  BY WidthsNat
<1>1. LayerServes(c, il, Ask("vec", <<il, "attn_norm">>, 0, c.embd))
  BY <1>0, ExpectedOfAll, ServesVec, Zenon
<1>2. QED BY <1>1

\* The requests of a layer, one by one: back.
LEMMA BackServed ==
  ASSUME NEW c \in ModelConfig, NEW il
  PROVE  /\ LayerServes(c, il, Ask("vec", <<il, "post_attention_norm">>, 0, c.embd))
         /\ LayerServes(c, il, Ask("matvec", <<il, "ffn_gate">>, c.embd, c.ff))
         /\ LayerServes(c, il, Ask("matvec", <<il, "ffn_up">>, c.embd, c.ff))
         /\ LayerServes(c, il, Ask("matvec_into", <<il, "ffn_down">>, c.ff, c.embd))
<1>0. {c.embd, c.ff, c.hd, c.rank, c.inner, c.state, c.kernel} \subseteq Nat /\ AttnIn(c) \in Nat
      /\ 2 * AttnIn(c) \in Nat /\ KvRows(c) \in Nat /\ Channels(c) \in Nat
  BY WidthsNat
<1>1. LayerServes(c, il, Ask("vec", <<il, "post_attention_norm">>, 0, c.embd))
  BY <1>0, ExpectedOfAll, ServesVec, Zenon
<1>2. LayerServes(c, il, Ask("matvec", <<il, "ffn_gate">>, c.embd, c.ff))
  BY <1>0, ExpectedOfAll, ServesMatrix, Zenon
<1>3. LayerServes(c, il, Ask("matvec", <<il, "ffn_up">>, c.embd, c.ff))
  BY <1>0, ExpectedOfAll, ServesMatrix, Zenon
<1>4. LayerServes(c, il, Ask("matvec_into", <<il, "ffn_down">>, c.ff, c.embd))
  BY <1>0, ExpectedOfAll, ServesMatrix, Zenon
<1>5. QED BY <1>1, <1>2, <1>3, <1>4

\* The requests of a layer, one by one: full.
LEMMA FullServed ==
  ASSUME NEW c \in ModelConfig, NEW il, IsFull(c, il)
  PROVE  /\ LayerServes(c, il, Ask("matvec", <<il, "attn_q">>, c.embd, 2 * AttnIn(c)))
         /\ LayerServes(c, il, Ask("matvec", <<il, "attn_k">>, c.embd, KvRows(c)))
         /\ LayerServes(c, il, Ask("matvec", <<il, "attn_v">>, c.embd, KvRows(c)))
         /\ LayerServes(c, il, Ask("vec_rows", <<il, "attn_q_norm">>, 0, c.hd))
         /\ LayerServes(c, il, Ask("vec_rows", <<il, "attn_k_norm">>, 0, c.hd))
         /\ LayerServes(c, il, Ask("matvec_into", <<il, "attn_output">>, AttnIn(c), c.embd))
<1>0. {c.embd, c.ff, c.hd, c.rank, c.inner, c.state, c.kernel} \subseteq Nat /\ AttnIn(c) \in Nat
      /\ 2 * AttnIn(c) \in Nat /\ KvRows(c) \in Nat /\ Channels(c) \in Nat
  BY WidthsNat
<1>1. LayerServes(c, il, Ask("matvec", <<il, "attn_q">>, c.embd, 2 * AttnIn(c)))
  BY <1>0, ExpectedOfFull, ServesMatrix, Zenon
<1>2. LayerServes(c, il, Ask("matvec", <<il, "attn_k">>, c.embd, KvRows(c)))
  BY <1>0, ExpectedOfFull, ServesMatrix, Zenon
<1>3. LayerServes(c, il, Ask("matvec", <<il, "attn_v">>, c.embd, KvRows(c)))
  BY <1>0, ExpectedOfFull, ServesMatrix, Zenon
<1>4. LayerServes(c, il, Ask("vec_rows", <<il, "attn_q_norm">>, 0, c.hd))
  BY <1>0, ExpectedOfFull, ServesVec, Zenon
<1>5. LayerServes(c, il, Ask("vec_rows", <<il, "attn_k_norm">>, 0, c.hd))
  BY <1>0, ExpectedOfFull, ServesVec, Zenon
<1>6. LayerServes(c, il, Ask("matvec_into", <<il, "attn_output">>, AttnIn(c), c.embd))
  BY <1>0, ExpectedOfFull, ServesMatrix, Zenon
<1>7. QED BY <1>1, <1>2, <1>3, <1>4, <1>5, <1>6

\* The requests of a layer, one by one: recurrent.
LEMMA RecurrentServed ==
  ASSUME NEW c \in ModelConfig, NEW il, ~IsFull(c, il)
  PROVE  /\ LayerServes(c, il, Ask("matvec", <<il, "attn_qkv">>, c.embd, Channels(c)))
         /\ LayerServes(c, il, Ask("matvec", <<il, "attn_gate">>, c.embd, c.inner))
         /\ LayerServes(c, il, Ask("matvec", <<il, "ssm_beta">>, c.embd, c.rank))
         /\ LayerServes(c, il, Ask("matvec", <<il, "ssm_alpha">>, c.embd, c.rank))
         /\ LayerServes(c, il, Ask("vec", <<il, "ssm_dt">>, 0, c.rank))
         /\ LayerServes(c, il, Ask("vec", <<il, "ssm_a">>, 0, c.rank))
         /\ LayerServes(c, il, Ask("vec", <<il, "ssm_conv1d">>, 0, c.kernel * Channels(c)))
         /\ LayerServes(c, il, Ask("vec_rows", <<il, "ssm_norm">>, 0, c.state))
         /\ LayerServes(c, il, Ask("matvec_into", <<il, "ssm_out">>, c.inner, c.embd))
<1>0. {c.embd, c.ff, c.hd, c.rank, c.inner, c.state, c.kernel} \subseteq Nat /\ AttnIn(c) \in Nat
      /\ 2 * AttnIn(c) \in Nat /\ KvRows(c) \in Nat /\ Channels(c) \in Nat
  BY WidthsNat
<1>1. LayerServes(c, il, Ask("matvec", <<il, "attn_qkv">>, c.embd, Channels(c)))
  BY <1>0, ExpectedOfRecurrent, ServesMatrix, Zenon
<1>2. LayerServes(c, il, Ask("matvec", <<il, "attn_gate">>, c.embd, c.inner))
  BY <1>0, ExpectedOfRecurrent, ServesMatrix, Zenon
<1>3. LayerServes(c, il, Ask("matvec", <<il, "ssm_beta">>, c.embd, c.rank))
  BY <1>0, ExpectedOfRecurrent, ServesMatrix, Zenon
<1>4. LayerServes(c, il, Ask("matvec", <<il, "ssm_alpha">>, c.embd, c.rank))
  BY <1>0, ExpectedOfRecurrent, ServesMatrix, Zenon
<1>5. LayerServes(c, il, Ask("vec", <<il, "ssm_dt">>, 0, c.rank))
  BY <1>0, ExpectedOfRecurrent, ServesVec, Zenon
<1>6. LayerServes(c, il, Ask("vec", <<il, "ssm_a">>, 0, c.rank))
  BY <1>0, ExpectedOfRecurrent, ServesVec, Zenon
<1>7. LayerServes(c, il, Ask("vec", <<il, "ssm_conv1d">>, 0, c.kernel * Channels(c)))
  BY <1>0, ExpectedOfRecurrent, ServesWide, Zenon
<1>8. LayerServes(c, il, Ask("vec_rows", <<il, "ssm_norm">>, 0, c.state))
  BY <1>0, ExpectedOfRecurrent, ServesVec, Zenon
<1>9. LayerServes(c, il, Ask("matvec_into", <<il, "ssm_out">>, c.inner, c.embd))
  BY <1>0, ExpectedOfRecurrent, ServesMatrix, Zenon
<1>10. QED BY <1>1, <1>2, <1>3, <1>4, <1>5, <1>6, <1>7, <1>8, <1>9

\* Requests that are all served.
AllServed(c, il, s) ==
  /\ s \in Seq({s[j] : j \in 1..Len(s)})
  /\ \A j \in 1..Len(s) : LayerServes(c, il, s[j])

\* Two lists of requests one behind the other.
LEMMA BothServed ==
  ASSUME NEW c, NEW il, NEW s, NEW r, AllServed(c, il, s), AllServed(c, il, r)
  PROVE  AllServed(c, il, s \o r)
<1>1. PICK S : S = {s[j] : j \in 1..Len(s)} \cup {r[j] : j \in 1..Len(r)}
  OBVIOUS
<1>2. s \in Seq(S) /\ r \in Seq(S)
  <2>1. {s[j] : j \in 1..Len(s)} \subseteq S /\ {r[j] : j \in 1..Len(r)} \subseteq S
    BY <1>1
  <2>2. QED BY <2>1, SeqMonotonic DEF AllServed
<1>3. PICK w \in Seq(S) : w = s \o r
  BY <1>2, ConcatProperties, Zenon
<1>4. /\ Len(w) = Len(s) + Len(r) /\ Len(s) \in Nat /\ Len(r) \in Nat /\ Len(w) \in Nat
      /\ \A j \in 1..(Len(s) + Len(r)) : w[j] = IF j <= Len(s) THEN s[j] ELSE r[j - Len(s)]
  BY <1>2, <1>3
<1>5. ASSUME NEW j \in 1..Len(w) PROVE LayerServes(c, il, w[j])
  <2>1. CASE j <= Len(s)
    <3>1. j \in 1..Len(s) /\ w[j] = s[j]
      BY <1>4, <2>1
    <3>2. QED BY <3>1 DEF AllServed
  <2>2. CASE ~(j <= Len(s))
    <3>1. j - Len(s) \in 1..Len(r) /\ w[j] = r[j - Len(s)]
      BY <1>4, <2>2
    <3>2. QED BY <3>1 DEF AllServed
  <2>3. QED BY <2>1, <2>2
<1>6. w \in Seq({w[j] : j \in 1..Len(w)})
  OBVIOUS
<1>7. QED BY <1>3, <1>5, <1>6, Zenon DEF AllServed

\* Lists of one, four, six and nine requests.
LEMMA OneServed ==
  ASSUME NEW c, NEW il, NEW a, LayerServes(c, il, a)
  PROVE  AllServed(c, il, <<a>>)
BY DEF AllServed

LEMMA FourServed ==
  ASSUME NEW c, NEW il, NEW x, NEW d, NEW z, NEW w,
         LayerServes(c, il, x), LayerServes(c, il, d), LayerServes(c, il, z), LayerServes(c, il, w)
  PROVE  AllServed(c, il, <<x, d, z, w>>)
<1>1. PICK s : s = <<x, d, z, w>>
  OBVIOUS
<1>2. Len(s) = 4 /\ s[1] = x /\ s[2] = d /\ s[3] = z /\ s[4] = w
  BY <1>1
<1>3. \A j \in 1..4 : j = 1 \/ j = 2 \/ j = 3 \/ j = 4
  OBVIOUS
<1>4. \A j \in 1..Len(s) : LayerServes(c, il, s[j])
  BY <1>2, <1>3, Zenon
<1>5. s \in Seq({x, d, z, w})
  BY <1>1
<1>6. s \in Seq({s[j] : j \in 1..Len(s)})
  BY <1>5
<1>7. QED BY <1>1, <1>4, <1>6 DEF AllServed

LEMMA SixServed ==
  ASSUME NEW c, NEW il, NEW x, NEW d, NEW z, NEW w, NEW u, NEW v,
         LayerServes(c, il, x), LayerServes(c, il, d), LayerServes(c, il, z), LayerServes(c, il, w),
         LayerServes(c, il, u), LayerServes(c, il, v)
  PROVE  AllServed(c, il, <<x, d, z, w, u, v>>)
<1>1. PICK s : s = <<x, d, z, w, u, v>>
  OBVIOUS
<1>2. Len(s) = 6 /\ s[1] = x /\ s[2] = d /\ s[3] = z /\ s[4] = w /\ s[5] = u /\ s[6] = v
  BY <1>1
<1>3. \A j \in 1..6 : j = 1 \/ j = 2 \/ j = 3 \/ j = 4 \/ j = 5 \/ j = 6
  OBVIOUS
<1>4. \A j \in 1..Len(s) : LayerServes(c, il, s[j])
  BY <1>2, <1>3, Zenon
<1>5. s \in Seq({x, d, z, w, u, v})
  BY <1>1
<1>6. s \in Seq({s[j] : j \in 1..Len(s)})
  BY <1>5
<1>7. QED BY <1>1, <1>4, <1>6 DEF AllServed

LEMMA NineServed ==
  ASSUME NEW c, NEW il, NEW x, NEW d, NEW z, NEW w, NEW u, NEW v, NEW o, NEW p, NEW q,
         LayerServes(c, il, x), LayerServes(c, il, d), LayerServes(c, il, z), LayerServes(c, il, w),
         LayerServes(c, il, u), LayerServes(c, il, v), LayerServes(c, il, o), LayerServes(c, il, p),
         LayerServes(c, il, q)
  PROVE  AllServed(c, il, <<x, d, z, w, u, v, o, p, q>>)
<1>1. PICK s : s = <<x, d, z, w, u, v, o, p, q>>
  OBVIOUS
<1>2. Len(s) = 9 /\ s[1] = x /\ s[2] = d /\ s[3] = z /\ s[4] = w /\ s[5] = u /\ s[6] = v
      /\ s[7] = o /\ s[8] = p /\ s[9] = q
  BY <1>1
<1>3. \A j \in 1..9 : j = 1 \/ j = 2 \/ j = 3 \/ j = 4 \/ j = 5 \/ j = 6 \/ j = 7 \/ j = 8 \/ j = 9
  OBVIOUS
<1>4. \A j \in 1..Len(s) : LayerServes(c, il, s[j])
  BY <1>2, <1>3, Zenon
<1>5. s \in Seq({x, d, z, w, u, v, o, p, q})
  BY <1>1
<1>6. s \in Seq({s[j] : j \in 1..Len(s)})
  BY <1>5
<1>7. QED BY <1>1, <1>4, <1>6 DEF AllServed

\* Every request of a layer is one that its expected tensors serve.
LEMMA LayerAllServed ==
  ASSUME NEW c \in ModelConfig, NEW il
  PROVE  AllServed(c, il, LayerAsks(c, il))
<1> DEFINE front == <<Ask("vec", <<il, "attn_norm">>, 0, c.embd)>>
           full == <<Ask("matvec", <<il, "attn_q">>, c.embd, 2 * AttnIn(c)),
                     Ask("matvec", <<il, "attn_k">>, c.embd, KvRows(c)),
                     Ask("matvec", <<il, "attn_v">>, c.embd, KvRows(c)),
                     Ask("vec_rows", <<il, "attn_q_norm">>, 0, c.hd),
                     Ask("vec_rows", <<il, "attn_k_norm">>, 0, c.hd),
                     Ask("matvec_into", <<il, "attn_output">>, AttnIn(c), c.embd)>>
           recurrent == <<Ask("matvec", <<il, "attn_qkv">>, c.embd, Channels(c)),
                          Ask("matvec", <<il, "attn_gate">>, c.embd, c.inner),
                          Ask("matvec", <<il, "ssm_beta">>, c.embd, c.rank),
                          Ask("matvec", <<il, "ssm_alpha">>, c.embd, c.rank),
                          Ask("vec", <<il, "ssm_dt">>, 0, c.rank),
                          Ask("vec", <<il, "ssm_a">>, 0, c.rank),
                          Ask("vec", <<il, "ssm_conv1d">>, 0, c.kernel * Channels(c)),
                          Ask("vec_rows", <<il, "ssm_norm">>, 0, c.state),
                          Ask("matvec_into", <<il, "ssm_out">>, c.inner, c.embd)>>
           back == <<Ask("vec", <<il, "post_attention_norm">>, 0, c.embd),
                     Ask("matvec", <<il, "ffn_gate">>, c.embd, c.ff),
                     Ask("matvec", <<il, "ffn_up">>, c.embd, c.ff),
                     Ask("matvec_into", <<il, "ffn_down">>, c.ff, c.embd)>>
<1>1. LayerAsks(c, il) = front \o (IF IsFull(c, il) THEN full ELSE recurrent) \o back
  BY DEF LayerAsks
<1>2. AllServed(c, il, front)
  BY FrontServed, OneServed, Zenon
<1>3. AllServed(c, il, back)
  BY BackServed, FourServed, Zenon
<1>4. AllServed(c, il, IF IsFull(c, il) THEN full ELSE recurrent)
  <2>1. CASE IsFull(c, il)
    <3>1. AllServed(c, il, full)
      BY <2>1, FullServed, SixServed, Zenon
    <3> HIDE DEF full, recurrent
    <3>2. QED BY <2>1, <3>1, Zenon
  <2>2. CASE ~IsFull(c, il)
    <3>1. AllServed(c, il, recurrent)
      BY <2>2, RecurrentServed, NineServed, Zenon
    <3> HIDE DEF full, recurrent
    <3>2. QED BY <2>2, <3>1, Zenon
  <2>3. QED BY <2>1, <2>2
<1>5. PICK x, d, z : x = front /\ d = (IF IsFull(c, il) THEN full ELSE recurrent) /\ z = back
  OBVIOUS
<1> HIDE DEF front, full, recurrent, back
<1>6. AllServed(c, il, x \o d)
  BY <1>2, <1>4, <1>5, BothServed, Zenon
<1>7. AllServed(c, il, (x \o d) \o z)
  BY <1>3, <1>5, <1>6, BothServed, Zenon
<1>8. QED BY <1>1, <1>5, <1>7, Zenon

-----------------------------------------------------------------------------
\* The requests of a forward pass.
LEMMA ForwardAsksAre ==
  ASSUME NEW c \in ModelConfig, NEW tok \in Nat
  PROVE  /\ Len(ForwardAsks(c, tok)) \in Nat
         /\ \A k \in 1..Len(ForwardAsks(c, tok)) :
              LET a == ForwardAsks(c, tok)[k] IN
              /\ a.fn \in ForwardFn /\ a.n \in Nat
              /\ a.name[1] >= 0 => \E il \in 0..(c.layers - 1) : LayerServes(c, il, a)
         /\ 0 < Len(ForwardAsks(c, tok))
<1>1. PICK n \in Nat : n = c.layers
  BY WidthsNat
<1>2. PICK S : S = UNION {{LayerAsks(c, il)[j] : j \in Nat} : il \in 0..(n - 1)}
  OBVIOUS
<1>3. PICK ss : ss = [k \in 1..n |-> LayerAsks(c, k - 1)]
  OBVIOUS
<1>4. ss \in Seq(Seq(S)) /\ Len(ss) = n /\ \A i \in 1..n : ss[i] = LayerAsks(c, i - 1)
  <2>1. ASSUME NEW i \in 1..n PROVE LayerAsks(c, i - 1) \in Seq(S)
    <3>0. PICK il \in 0..(n - 1) : il = i - 1
      OBVIOUS
    <3>1. PICK s : s = LayerAsks(c, il) /\ il = i - 1
      BY <3>0
    <3>2. s \in Seq({s[j] : j \in 1..Len(s)})
      BY <3>1, LayerAllServed DEF AllServed
    <3>3. Len(s) \in Nat
      BY <3>2
    <3>4. {s[j] : j \in 1..Len(s)} \subseteq S
      BY <1>2, <3>1, <3>3
    <3>5. QED BY <3>1, <3>2, <3>4, SeqMonotonic, Zenon
  <2>2. QED BY <1>3, <2>1
<1>5. PICK e1, e2, e3 : /\ e1 = Ask("row", <<-1, "token_embd">>, c.embd, tok)
                        /\ e2 = Ask("vec", <<-1, "output_norm">>, 0, c.embd)
                        /\ e3 = Ask("head", <<-1, "output">>, c.embd, 0)
  OBVIOUS
<1>6. PICK E : E = S \cup {e1, e2, e3}
  OBVIOUS
<1>7. PICK mid \in Seq(S) : mid = Flat(ss)
  BY <1>4, JoinedIsSeq, Zenon
<1>8. PICK one \in Seq(E), two \in Seq(E), m \in Seq(E) : one = <<e1>> /\ two = <<e2, e3>> /\ m = mid
  <2>1. mid \in Seq(E)
    BY <1>6, SeqMonotonic
  <2>2. <<e1>> \in Seq(E) /\ <<e2, e3>> \in Seq(E)
    BY <1>6
  <2>3. QED BY <2>1, <2>2
<1>9. PICK p \in Seq(E) : p = one \o m
  BY ConcatProperties, Zenon
<1>10. PICK q \in Seq(E) : q = p \o two
  BY ConcatProperties, Zenon
<1>11. ForwardAsks(c, tok) = q
  <2>1. ForwardAsks(c, tok) = <<e1>> \o mid \o <<e2, e3>>
    BY <1>1, <1>3, <1>5, <1>7, Zenon DEF ForwardAsks
  <2>2. QED BY <1>8, <1>9, <1>10, <2>1, Zenon
<1>12. /\ Len(q) \in Nat /\ Len(p) = 1 + Len(m) /\ Len(q) = Len(p) + 2 /\ Len(m) \in Nat
       /\ p[1] = e1 /\ \A k \in 1..Len(m) : p[k + 1] = m[k]
       /\ \A k \in 1..Len(p) : q[k] = p[k]
       /\ q[Len(p) + 1] = e2 /\ q[Len(p) + 2] = e3
  <2>1. Len(one) = 1 /\ one[1] = e1 /\ Len(two) = 2 /\ two[1] = e2 /\ two[2] = e3
    BY <1>8
  <2>2. Len(p) = 1 + Len(m) /\ p[1] = e1 /\ Len(m) \in Nat /\ \A k \in 1..Len(m) : p[k + 1] = m[k]
    <3>1. Len(m) \in Nat /\ Len(p) = Len(one) + Len(m)
          /\ \A i \in 1..(Len(one) + Len(m)) : p[i] = IF i <= Len(one) THEN one[i] ELSE m[i - Len(one)]
      BY <1>9, ConcatProperties
    <3>2. ASSUME NEW k \in 1..Len(m) PROVE p[k + 1] = m[k]
      <4>1. PICK i \in 1..(Len(one) + Len(m)) : i = k + 1 /\ ~(i <= Len(one)) /\ i - Len(one) = k
        BY <2>1, <3>1
      <4>2. QED BY <3>1, <4>1
    <3>3. QED BY <2>1, <3>1, <3>2
  <2>3. /\ Len(q) = Len(p) + 2 /\ q[Len(p) + 1] = e2 /\ q[Len(p) + 2] = e3 /\ Len(q) \in Nat
        /\ \A k \in 1..Len(p) : q[k] = p[k]
    <3>1. Len(p) \in Nat /\ Len(q) \in Nat /\ Len(q) = Len(p) + Len(two)
          /\ \A i \in 1..(Len(p) + Len(two)) : q[i] = IF i <= Len(p) THEN p[i] ELSE two[i - Len(p)]
      BY <1>10, ConcatProperties
    <3>2. PICK z \in Nat : z = Len(p)
      BY <3>1
    <3>3. z + 1 \in 1..(z + 2) /\ z + 2 \in 1..(z + 2) /\ z + 1 - z = 1 /\ z + 2 - z = 2
          /\ ~(z + 1 <= z) /\ ~(z + 2 <= z)
      OBVIOUS
    <3>4. q[z + 1] = two[1] /\ q[z + 2] = two[2]
      BY <2>1, <3>1, <3>2, <3>3
    <3>5. \A k \in 1..z : q[k] = p[k]
      BY <2>1, <3>1, <3>2
    <3>6. QED BY <2>1, <3>1, <3>2, <3>4, <3>5
  <2>4. QED BY <2>2, <2>3
<1>13. ASSUME NEW a, a \in {e1, e2, e3}
       PROVE  a.fn \in ForwardFn /\ a.n \in Nat /\ ~(a.name[1] >= 0)
  BY <1>5, <1>13, WidthsNat DEF Ask, ForwardFn
<1>14. ASSUME NEW k \in 1..Len(m)
       PROVE  \E il \in 0..(n - 1) : LayerServes(c, il, m[k])
  <2>1. k \in 1..Len(Flat(ss))
    BY <1>7, <1>8
  <2>2. PICK i \in 1..n : \E j \in 1..Len(ss[i]) : Flat(ss)[k] = ss[i][j]
    <3>1. \E i \in 1..Len(ss) : \E j \in 1..Len(ss[i]) : Flat(ss)[k] = ss[i][j]
      BY <1>4, <2>1, JoinedFrom, Zenon
    <3>2. QED BY <1>4, <3>1
  <2>3. PICK j \in 1..Len(ss[i]) : Flat(ss)[k] = ss[i][j]
    BY <2>2
  <2>4. PICK il \in 0..(n - 1) : il = i - 1
    OBVIOUS
  <2>5. ss[i] = LayerAsks(c, il)
    BY <1>4, <2>4
  <2>6. LayerServes(c, il, ss[i][j])
    BY <2>3, <2>5, LayerAllServed DEF AllServed
  <2>7. QED BY <1>7, <1>8, <2>3, <2>6
<1>15. ASSUME NEW k \in 1..Len(q)
       PROVE  /\ q[k].fn \in ForwardFn /\ q[k].n \in Nat
              /\ q[k].name[1] >= 0 => \E il \in 0..(n - 1) : LayerServes(c, il, q[k])
  <2>1. CASE k = 1
    <3>1. Len(m) \in Nat /\ Len(p) = 1 + Len(m)
      BY <1>12
    <3>2. 1 \in 1..Len(p)
      BY <3>1
    <3>3. q[1] = p[1] /\ p[1] = e1
      BY <1>12, <3>2
    <3>4. q[k] \in {e1, e2, e3}
      BY <2>1, <3>3
    <3>5. QED BY <1>13, <3>4
  <2>2. CASE k \in 2..Len(p)
    <3>0. PICK i \in 1..Len(m) : i + 1 = k
      <4>1. Len(m) \in Nat /\ k \in 2..(1 + Len(m))
        BY <1>12, <2>2
      <4>2. k - 1 \in 1..Len(m) /\ (k - 1) + 1 = k
        BY <4>1
      <4>3. QED BY <4>2
    <3>1. k - 1 \in 1..Len(m) /\ q[k] = m[k - 1]
      <4>1. i = k - 1 /\ k \in 1..Len(p)
        BY <1>12, <2>2, <3>0
      <4>2. q[k] = p[k] /\ p[i + 1] = m[i]
        BY <1>12, <3>0, <4>1
      <4>3. QED BY <3>0, <4>1, <4>2
    <3>2. PICK il \in 0..(n - 1) : LayerServes(c, il, q[k])
      BY <1>14, <3>1
    <3>3. q[k].fn \in ForwardFn /\ q[k].n \in Nat
      BY <3>2 DEF LayerServes, ServedBy, ForwardFn
    <3>4. QED BY <3>2, <3>3
  <2>3. CASE k = Len(p) + 1 \/ k = Len(p) + 2
    <3>1. q[Len(p) + 1] = e2 /\ q[Len(p) + 2] = e3
      BY <1>12
    <3>2. q[k] \in {e1, e2, e3}
      BY <2>3, <3>1
    <3>3. QED BY <1>13, <3>2
  <2>4. k = 1 \/ k \in 2..Len(p) \/ k = Len(p) + 1 \/ k = Len(p) + 2
    <3>1. k \in 1..(Len(p) + 2) /\ Len(p) \in Nat
      BY <1>12
    <3>2. QED BY <3>1
  <2>5. QED BY <2>1, <2>2, <2>3, <2>4
<1>16. QED BY <1>1, <1>11, <1>12, <1>15

\* A file that verify accepts has for each of a layer's requests what it asks for,
\* as far as it goes.
Loaded ==
  /\ model \in DOMAIN Models
  /\ \E lost \in Losses : target = CutShort(FileOf(Models[model].tensors), lost)

\* A model that is loaded has its file.
LEMMA LoadedIs ==
  ASSUME Loaded
  PROVE  /\ IsFile(target) /\ Models[model].cfg \in ModelConfig
         /\ target.index = FileOf(Models[model].tensors).index
<1>1. Models[model].cfg \in ModelConfig /\ Listing(Models[model].tensors)
  BY TensorLookupAssumption DEF Loaded
<1>2. PICK f : f = FileOf(Models[model].tensors)
  OBVIOUS
<1>3. PICK lost \in Nat : target = CutShort(f, lost)
  BY <1>2, TensorLookupAssumption DEF Loaded
<1>4. IsFile(f)
  BY <1>1, <1>2, ListingIs, FileOfIsFile
<1>5. f = [index |-> f.index, rows |-> f.rows]
  BY <1>2 DEF FileOf
<1>6. f.rows \in Seq({f.rows[k] : k \in 1..Len(f.rows)})
  BY <1>4 DEF IsFile
<1>7. IsFile(target) /\ target.index = f.index
  BY <1>3, <1>4, <1>5, <1>6, CutIsFile
<1>8. QED BY <1>1, <1>2, <1>7

\* A request of a layer of a verified model is answered, or for what its file has
\* no more.
LEMMA VerifiedAnswers ==
  ASSUME Loaded, HeldRows(memo), HeldRows(device), VerifyOk,
         NEW il \in 0..(Models[model].cfg.layers - 1), NEW a,
         LayerServes(Models[model].cfg, il, a)
  PROVE  Outcome(a).is = "ok" \/ (Outcome(a) = Err /\ Missing(target, a.name))
<1>0. IsFile(target)
  BY LoadedIs
<1>1. PICK e \in ExpectedTensors(Models[model].cfg, il) : ServedBy(a, e)
  BY DEF LayerServes
<1>2. PICK t : t = Named(Ts, a.name)
  OBVIOUS
<1>3. PICK n \in Nat : n = a.n
  BY <1>1 DEF ServedBy
<1>4. Has(Ts, a.name) /\ t.ty = e.ty /\ t.dims = e.dims
  BY <1>1, <1>2 DEF VerifyOk, AsExpected, ServedBy
<1>5. Elems(t) = Elems(e) /\ Ne0(t) = Ne0(e) /\ RowsOf(t) = RowsOf(e)
  BY <1>4, Zenon DEF Elems, Ne0, RowsOf
<1>6. Held(target, t)
  BY <1>0, <1>2, <1>4, NamedHeld DEF Ts
<1>7. Elems(t) \in Nat /\ RowsOf(t) \in Nat
  BY <1>6, ShapeNat DEF Held
<1>8. e.ty = "f32" => Elems(t) <= MaxVec
  BY <1>1, <1>5, VectorsFit DEF Loaded
<1>9. ASSUME e.ty = "f32"
      PROVE  VecF32(a.name).is = "ok" \/ (VecF32(a.name) = Err /\ Missing(target, a.name))
  <2>1. VecF32(a.name) # Err \/ Missing(target, a.name)
    BY <1>0, <1>2, <1>4, <1>8, <1>9, VecIs
  <2>2. VecF32(a.name) # Err => VecF32(a.name) = Ok(CellsOf(Named(Ts, a.name)))
    BY <1>0, VecIs, Zenon
  <2>3. PICK v, rows : v = VecF32(a.name) /\ rows = CellsOf(Named(Ts, a.name))
    OBVIOUS
  <2>4. (v # Err \/ Missing(target, a.name)) /\ (v # Err => v = Ok(rows))
    BY <2>1, <2>2, <2>3, Zenon
  <2>5. v.is = "ok" \/ (v = Err /\ Missing(target, a.name))
    <3>1. CASE v = Err
      BY <2>4, <3>1
    <3>2. CASE v # Err
      <4>1. v = Ok(rows)
        BY <2>4, <3>2
      <4>2. QED BY <4>1 DEF Ok
    <3>3. QED BY <3>1, <3>2
  <2>6. QED BY <2>3, <2>5, Zenon
<1>10. ASSUME NEW k \in Nat, e.ty = "pq2", a.cols = Ne0(e), k <= RowsOf(e)
       PROVE  \/ MatvecInto(t, k, a.cols).is = "ok"
              \/ MatvecInto(t, k, a.cols) = Err /\ Missing(target, a.name)
  <2>1. t.ty = "pq2" /\ a.cols = Ne0(t) /\ k <= RowsOf(t)
    BY <1>4, <1>5, <1>10
  <2>0. IsFile(target) /\ HeldRows(device) /\ Has(Ts, a.name) /\ t = Named(Ts, a.name)
    BY <1>0, <1>2, <1>4
  <2>2. MatvecInto(t, k, a.cols) # Err \/ Missing(target, a.name)
    BY <2>0, <2>1, MatvecIs
  <2>3. MatvecInto(t, k, a.cols) # Err => MatvecInto(t, k, a.cols) = Ok(SubSeq(CellsOf(t), 1, k))
    BY <2>0, MatvecIs
  <2>4. QED BY <2>2, <2>3, ReadsAre
<1>11. CASE a.fn = "vec" /\ e.ty = "f32" /\ n <= Elems(e)
  <2>1. Outcome(a) = IF VecF32(a.name) # Err /\ Elems(t) < n THEN Panicked ELSE VecF32(a.name)
    BY <1>2, <1>3, <1>11, Zenon DEF Outcome
  <2>2. ~(Elems(t) < n)
    BY <1>5, <1>7, <1>11
  <2>3. QED BY <1>9, <1>11, <2>1, <2>2
<1>12. CASE a.fn = "vec_rows" /\ e.ty = "f32" /\ n = Elems(e)
  <2>1. Outcome(a) = IF VecF32(a.name) # Err /\ Elems(t) # n THEN Err ELSE VecF32(a.name)
    BY <1>2, <1>3, <1>12, Zenon DEF Outcome
  <2>2. QED BY <1>5, <1>9, <1>12, <2>1
<1>13. CASE a.fn = "matvec" /\ e.ty = "pq2" /\ a.cols = Ne0(e) /\ n = RowsOf(e)
  <2>1. Outcome(a) = IF ~Has(Ts, a.name) \/ RowsOf(t) # n THEN Err ELSE MatvecInto(t, RowsOf(t), a.cols)
    BY <1>2, <1>3, <1>13, Zenon DEF Outcome
  <2>2. Outcome(a) = MatvecInto(t, n, a.cols)
    BY <1>4, <1>5, <1>13, <2>1
  <2>3. n <= RowsOf(e)
    BY <1>3, <1>13
  <2>4. MatvecInto(t, n, a.cols).is = "ok" \/ (MatvecInto(t, n, a.cols) = Err /\ Missing(target, a.name))
    <3>1. e.ty = "pq2" /\ a.cols = Ne0(e)
      BY <1>13
    <3>2. n \in Nat
      BY <1>3
    <3>3. QED BY ONLY <1>10, <2>3, <3>1, <3>2
  <2>5. QED BY <2>2, <2>4, Zenon
<1>14. CASE a.fn = "matvec_into" /\ e.ty = "pq2" /\ a.cols = Ne0(e) /\ n <= RowsOf(e)
  <2>1. Outcome(a) = IF ~Has(Ts, a.name) THEN Err ELSE MatvecInto(t, n, a.cols)
    BY <1>2, <1>3, <1>14, Zenon DEF Outcome
  <2>2. Outcome(a) = MatvecInto(t, n, a.cols)
    BY <1>4, <2>1
  <2>3. MatvecInto(t, n, a.cols).is = "ok" \/ (MatvecInto(t, n, a.cols) = Err /\ Missing(target, a.name))
    BY <1>3, <1>10, <1>14
  <2>4. QED BY <2>2, <2>3, Zenon
<1>15. QED BY <1>1, <1>3, <1>11, <1>12, <1>13, <1>14 DEF ServedBy

-----------------------------------------------------------------------------
\* What a draft is given for a name: the original's tensor, as the sidecar holds it.
Source(name) ==
  LET t == Named(sidecar.original.tensors, name) IN IF t.name \in sidecar.shared THEN t ELSE Repacked(t)
Against(ref) == IF ref = None THEN <<>> ELSE Models[ref].tensors
MadeOf(o, ref, other) ==
  LET repacked == Repack(o.tensors, Against(ref)) IN
  /\ sidecar = [original |-> o, reference |-> ref, file |-> repacked.file,
                shared |-> repacked.shared, other |-> other]
  /\ repacked.shared # {} => other # EmptyFile
Made == \E o \in Originals, ref \in References \cup {None}, other \in {target, EmptyFile} : MadeOf(o, ref, other)
SameModel == sidecar.reference \in {None, model}
DraftHeld ==
  SameModel => \A name \in DOMAIN draftMemo :
                 Has(sidecar.original.tensors, name) /\ draftMemo[name] = CellsOf(Source(name))
Uploading ==
  /\ loading \in Seq({loading[k] : k \in 1..Len(loading)}) /\ Len(loading) <= Len(Matrices)
  /\ \A k \in 1..Len(loading) : loading[k] = CellsOf(Matrices[k])

LkPlaces ==
  /\ lkAt \in {"start", "refused", "open", "upload", "forward", "draft", "panicked"}
  /\ lkAt \in {"start", "refused"} => LkNothing
  /\ lkAt \notin {"start", "refused"} => Loaded
LkHeld == HeldRows(device) /\ HeldRows(memo) /\ (lkAt = "upload" => Uploading)
LkSidecar == (sidecar = NoSidecar \/ Made) /\ DraftHeld
InScript(asks) == script = asks /\ asked \in Nat /\ asked < Len(asks)
LkScript ==
  /\ lkAt = "forward" => \E tok \in AskedTokens : InScript(ForwardAsks(Models[model].cfg, tok))
  /\ lkAt = "draft" => \E tok \in AskedTokens : InScript(DraftAsks(sidecar.original.cfg, tok))
  /\ lkAt = "draft" \/ answer.by = "draft" => sidecar # NoSidecar
LkAnswers == VerifiedServes /\ DraftFindsOriginal
LkInv == LkPlaces /\ LkHeld /\ LkSidecar /\ LkScript /\ LkAnswers

-----------------------------------------------------------------------------
\* Repacking changes a tensor's type and its content, never its name or its shape.
Types == {"f32", "f16", "bf16", "q4_1", "pq2"}

\* Repacking keeps name and shape, and a type the draft can read.
LEMMA RepackedIs ==
  ASSUME NEW N, NEW O, NEW t \in [name : N, ty : Types, dims : Seq(Nat) \ {<<>>}, of : O]
  PROVE  /\ Repacked(t).name = t.name /\ Repacked(t).dims = t.dims
         /\ TypeSupported(t.ty) => TypeSupported(Repacked(t).ty)
<1>1. CASE Convertible(t)
  <2>1. Repacked(t) = [t EXCEPT !.ty = "pq2", !.of = Ternary(t.of)]
    BY <1>1, Zenon DEF Repacked
  <2>2. Repacked(t).name = t.name /\ Repacked(t).dims = t.dims /\ Repacked(t).ty = "pq2"
    BY <2>1
  <2>3. QED BY <2>2 DEF TypeSupported
<1>2. CASE ~Convertible(t)
  BY <1>2 DEF Repacked
<1>3. QED BY <1>1, <1>2

\* What repacking keeps, and what its file holds.
LEMMA KeptAre ==
  ASSUME NEW ts, Listing(ts), NEW ref
  PROVE  /\ \A k \in DOMAIN Kept(ts, ref) : \E i \in DOMAIN ts :
              ~SameInReference(ts[i], ref) /\ Kept(ts, ref)[k] = ts[i]
         /\ \A i \in DOMAIN ts : ~SameInReference(ts[i], ref) =>
              \E k \in DOMAIN Kept(ts, ref) : Kept(ts, ref)[k] = ts[i]
         /\ Kept(ts, ref) \in Seq({ts[i] : i \in DOMAIN ts})
<1>1. PICK X : X = {ts[i] : i \in DOMAIN ts}
  OBVIOUS
<1>2. ts \in Seq(X)
  BY <1>1, ListingIs DEF Entries
<1>3. PICK S : S = {i \in DOMAIN ts : ~SameInReference(ts[i], ref)}
  OBVIOUS
<1>4. Kept(ts, ref) = Those(ts, S)
  BY <1>3 DEF Kept
<1>5. PICK w \in Seq(X) : w = Those(ts, S) /\ OnlyThose(w, ts, S) /\ AllThose(w, ts, S)
  BY <1>2, ThoseAre, Zenon
<1>6. DOMAIN w = 1..Len(w)
  OBVIOUS
<1>7. \A k \in DOMAIN w : \E i \in DOMAIN ts : ~SameInReference(ts[i], ref) /\ w[k] = ts[i]
  BY <1>3, <1>5, <1>6 DEF OnlyThose
<1>8. \A i \in DOMAIN ts : ~SameInReference(ts[i], ref) => \E k \in DOMAIN w : w[k] = ts[i]
  BY <1>3, <1>5, <1>6 DEF AllThose
<1>9. QED BY <1>1, <1>4, <1>5, <1>7, <1>8

\* The same of an entry of a sidecar.
LEMMA ListedIs ==
  ASSUME NEW ts, Listing(ts), NEW i \in DOMAIN ts
  PROVE  /\ Repacked(ts[i]).name = ts[i].name /\ Repacked(ts[i]).dims = ts[i].dims
         /\ TypeSupported(ts[i].ty) => TypeSupported(Repacked(ts[i]).ty)
         /\ ts[i].dims \in Dims
<1>1. PICK N, O : ts \in Seq([name : N, ty : Types, dims : Seq(Nat) \ {<<>>}, of : O])
  BY Zenon DEF Listing, Types
<1>2. ts[i] \in [name : N, ty : Types, dims : Seq(Nat) \ {<<>>}, of : O]
  <2>1. PICK R : R = [name : N, ty : Types, dims : Seq(Nat) \ {<<>>}, of : O]
    BY Zenon
  <2>2. ts \in Seq(R)
    BY <1>1, <2>1
  <2>3. ts[i] \in R
    BY <2>2
  <2>4. QED BY <2>1, <2>3
<1>3. ts[i].dims \in Dims
  BY <1>2 DEF Dims
<1>4. QED BY <1>2, <1>3, RepackedIs

Rewritten(ts, ref) == [i \in DOMAIN Kept(ts, ref) |-> Repacked(Kept(ts, ref)[i])]

\* A repacked sidecar holds what the reference has not, and nothing else.
LEMMA RewrittenIs ==
  ASSUME NEW ts, Listing(ts), NEW ref
  PROVE  /\ Entries(Rewritten(ts, ref)) /\ Consistent(Rewritten(ts, ref))
         /\ \A k \in DOMAIN Rewritten(ts, ref) : \E i \in DOMAIN ts :
              ~SameInReference(ts[i], ref) /\ Rewritten(ts, ref)[k] = Repacked(ts[i])
         /\ \A i \in DOMAIN ts : ~SameInReference(ts[i], ref) =>
              \E k \in DOMAIN Rewritten(ts, ref) : Rewritten(ts, ref)[k] = Repacked(ts[i])
<1>1. PICK kept : kept = Kept(ts, ref)
  OBVIOUS
<1>2. PICK r : r = [i \in DOMAIN kept |-> Repacked(kept[i])]
  OBVIOUS
<1>3. r = Rewritten(ts, ref)
  BY <1>1, <1>2, Zenon DEF Rewritten
<1>4. /\ \A k \in DOMAIN kept : \E i \in DOMAIN ts : ~SameInReference(ts[i], ref) /\ kept[k] = ts[i]
      /\ \A i \in DOMAIN ts : ~SameInReference(ts[i], ref) => \E k \in DOMAIN kept : kept[k] = ts[i]
      /\ kept \in Seq({ts[i] : i \in DOMAIN ts})
  BY <1>1, KeptAre
<1>5. DOMAIN r = DOMAIN kept /\ DOMAIN kept = 1..Len(kept) /\ Len(kept) \in Nat
      /\ \A k \in DOMAIN kept : r[k] = Repacked(kept[k])
  BY <1>2, <1>4
<1>6. \A k \in DOMAIN r : \E i \in DOMAIN ts : ~SameInReference(ts[i], ref) /\ r[k] = Repacked(ts[i])
  BY <1>4, <1>5
<1>7. \A i \in DOMAIN ts : ~SameInReference(ts[i], ref) => \E k \in DOMAIN r : r[k] = Repacked(ts[i])
  BY <1>4, <1>5
<1>8. \A k \in DOMAIN r : EntryOf(r[k])
  <2> TAKE k \in DOMAIN r
  <2>1. PICK i \in DOMAIN ts : r[k] = Repacked(ts[i])
    BY <1>6
  <2>2. Repacked(ts[i]).dims = ts[i].dims /\ ts[i].dims \in Dims
    BY ListedIs
  <2>3. QED BY <2>1, <2>2 DEF EntryOf
<1>9. r \in Seq({r[k] : k \in DOMAIN r})
  BY <1>2, <1>5
<1>10. Consistent(r)
  <2> SUFFICES ASSUME NEW j \in DOMAIN r, NEW k \in DOMAIN r, r[j].name = r[k].name PROVE Alike(r[j], r[k])
    BY DEF Consistent
  <2>1. PICK i \in DOMAIN ts : r[j] = Repacked(ts[i])
    BY <1>6
  <2>2. PICK l \in DOMAIN ts : r[k] = Repacked(ts[l])
    BY <1>6
  <2>3. ts[i].name = ts[l].name
    BY <2>1, <2>2, ListedIs
  <2>4. i = l
    BY <2>3, ListingIs DEF Distinct
  <2>5. QED BY <2>1, <2>2, <2>4 DEF Alike
<1>11. QED BY <1>3, <1>6, <1>7, <1>8, <1>9, <1>10 DEF Entries

\* A sidecar that is opened with the model it was repacked against finds for each of
\* the original's names a tensor like the original's: in its own file, or, for one
\* that was dropped, in the target's.
LEMMA SourceFound ==
  ASSUME Loaded, Made, SameModel, NEW name, Has(sidecar.original.tensors, name)
  PROVE  /\ Resolve(name) # EmptyFile /\ IsFile(Resolve(name)) /\ Has(Resolve(name).index, name)
         /\ Alike(Named(Resolve(name).index, name), Source(name))
         /\ Source(name).name = name
         /\ Source(name).dims = Named(sidecar.original.tensors, name).dims
         /\ TypeSupported(Named(sidecar.original.tensors, name).ty) => TypeSupported(Source(name).ty)
         /\ \/ Within(Resolve(name), Named(Resolve(name).index, name))
            \/ name \in sidecar.shared /\ Resolve(name) = sidecar.other
<1>1. PICK o \in Originals, ref \in References \cup {None}, other \in {target, EmptyFile} : MadeOf(o, ref, other)
  BY DEF Made
<1>2. PICK ts, r : ts = o.tensors /\ r = Against(ref)
  OBVIOUS
<1>3. PICK w, shared, file : /\ w = Rewritten(ts, r) /\ file = FileOf(w)
                             /\ shared = {ts[i].name : i \in {j \in DOMAIN ts : SameInReference(ts[j], r)}}
  OBVIOUS
<1>4. Repack(ts, r) = [file |-> file, shared |-> shared]
  BY <1>3, Zenon DEF Repack, Rewritten
<1>5. sidecar = [original |-> o, reference |-> ref, file |-> file, shared |-> shared, other |-> other]
      /\ (shared # {} => other # EmptyFile)
  <2>1. Repack(ts, r).file = file /\ Repack(ts, r).shared = shared
    BY <1>4
  <2>2. QED BY <1>1, <1>2, <2>1, Zenon DEF MadeOf
<1>6. /\ sidecar.original = o /\ sidecar.reference = ref /\ sidecar.file = file
      /\ sidecar.shared = shared /\ sidecar.other = other /\ sidecar.original.tensors = ts
  BY <1>2, <1>5
<1>7. Listing(ts)
  BY <1>2, TensorLookupAssumption
<1>8. PICK i \in DOMAIN ts : ts[i].name = name /\ Named(ts, name) = ts[i]
  BY <1>6, NamedIs
<1>9. Entries(w) /\ Consistent(w)
  BY <1>3, <1>7, RewrittenIs
<1>10. Source(name) = IF name \in shared THEN ts[i] ELSE Repacked(ts[i])
  BY <1>6, <1>8, Zenon DEF Source
<1>11. name \in shared <=> SameInReference(ts[i], r)
  <2>1. ASSUME NEW j \in DOMAIN ts, ts[j].name = name PROVE j = i
    BY <1>7, <1>8, <2>1, ListingIs DEF Distinct
  <2>2. QED BY <1>3, <1>8, <2>1
<1>12. /\ Source(name).name = name /\ Source(name).dims = ts[i].dims
       /\ TypeSupported(ts[i].ty) => TypeSupported(Source(name).ty)
  BY <1>7, <1>8, <1>10, ListedIs
<1>13. CASE SameInReference(ts[i], r)
  <2>1. ~Has(file.index, name)
    <3>1. SUFFICES ASSUME Has(file.index, name) PROVE FALSE
      OBVIOUS
    <3>2. PICK k \in DOMAIN w : w[k].name = name
      BY <1>3, <1>9, <3>1, FileHasNoOther
    <3>3. PICK j \in DOMAIN ts : ~SameInReference(ts[j], r) /\ w[k] = Repacked(ts[j])
      BY <1>3, <1>7, RewrittenIs
    <3>4. ts[j].name = name
      BY <1>7, <3>2, <3>3, ListedIs
    <3>5. j = i
      BY <1>7, <1>8, <3>4, ListingIs DEF Distinct
    <3>6. QED BY <1>13, <3>3, <3>5
  <2>2. Has(r, name) /\ Named(r, name).ty = ts[i].ty /\ Named(r, name).dims = ts[i].dims
        /\ Named(r, name).of = ts[i].of
    BY <1>8, <1>13 DEF SameInReference
  <2>3. ref # None
    <3>1. ref = None => r = <<>>
      BY <1>2 DEF Against
    <3>2. QED BY <2>2, <3>1 DEF Has
  <2>4. r = Models[model].tensors /\ model \in DOMAIN Models
    BY <1>2, <1>6, <2>3 DEF Against, SameModel, Loaded
  <2>5. name \in shared /\ other # EmptyFile /\ other = target
    BY <1>5, <1>11, <1>13
  <2>6. PICK j \in DOMAIN r : r[j].name = name /\ Named(r, name) = r[j]
    BY <2>2, NamedIs
  <2>7. Listing(r)
    BY <2>4, TensorLookupAssumption
  <2>8. Has(FileOf(r).index, r[j].name) /\ Alike(Named(FileOf(r).index, r[j].name), r[j])
    BY <2>7, ListingIs, FileKeeps
  <2>9. Has(target.index, name) /\ Alike(Named(target.index, name), r[j])
    BY <2>4, <2>6, <2>8, LoadedIs
  <2>10. Alike(r[j], ts[i])
    BY <1>8, <2>2, <2>6 DEF Alike
  <2>11. Alike(Named(target.index, name), ts[i])
    BY <2>9, <2>10 DEF Alike
  <2>12. Resolve(name) = target
    BY <1>6, <2>1, <2>5, <2>9, Zenon DEF Resolve
  <2>13. Source(name) = ts[i]
    BY <1>10, <2>5
  <2>14. QED BY <1>6, <1>8, <1>12, <2>5, <2>9, <2>11, <2>12, <2>13, LoadedIs
<1>14. CASE ~SameInReference(ts[i], r)
  <2>1. PICK k \in DOMAIN w : w[k] = Repacked(ts[i])
    BY <1>3, <1>7, <1>14, RewrittenIs
  <2>2. w[k].name = name
    BY <1>7, <1>8, <2>1, ListedIs
  <2>3. Has(file.index, name) /\ Alike(Named(file.index, name), w[k])
    BY <1>3, <1>9, <2>2, FileKeeps
  <2>4. Resolve(name) = file
    BY <1>6, <2>3, Zenon DEF Resolve
  <2>5. file # EmptyFile
    <3>1. ~Has(EmptyFile.index, name)
      BY DEF EmptyFile, Has
    <3>2. QED BY <2>3, <3>1
  <2>6. Source(name) = w[k]
    BY <1>10, <1>11, <1>14, <2>1
  <2>7. IsFile(file) /\ Within(file, Named(file.index, name))
    BY <1>3, <1>9, <2>3, FileOfIsFile, NamedIs
  <2>8. QED BY <1>6, <1>8, <1>12, <2>3, <2>4, <2>5, <2>6, <2>7
<1>15. QED BY <1>13, <1>14

\* Requests that the original could answer are answered with its rows.
LEMMA DraftServes ==
  ASSUME Loaded, Made, SameModel, DraftHeld, NEW a, HasFor(sidecar.original.tensors, a)
  PROVE  \/ BeyondRows(a, Named(sidecar.original.tensors, a.name))
         \/ DraftOutcome(a) = Ok(Asked(a, Source(a.name)))
         \/ a.name \in sidecar.shared /\ DraftOutcome(a) = Err /\ Missing(sidecar.other, a.name)
<1>1. PICK t, f, u, g, n : /\ t = Named(sidecar.original.tensors, a.name) /\ f = Resolve(a.name)
                           /\ u = Named(f.index, a.name) /\ g = Source(a.name) /\ n = a.n
  OBVIOUS
<1>2. Has(sidecar.original.tensors, a.name) /\ n \in Nat
  BY <1>1 DEF HasFor
<1>3. /\ f # EmptyFile /\ IsFile(f) /\ Has(f.index, a.name) /\ Alike(u, g) /\ g.dims = t.dims
      /\ TypeSupported(t.ty) => TypeSupported(g.ty)
  BY <1>1, <1>2, SourceFound
<1>4. Held(f, u)
  BY <1>1, <1>3, NamedHeld
<1>17. PayloadSlice(f, u) = IF Within(f, u) THEN Ok(CellsOf(u)) ELSE Err
  BY <1>3, <1>4, PayloadIs
<1>18. CASE ~Within(f, u)
  <2>1. a.name \in sidecar.shared /\ Missing(sidecar.other, a.name) /\ PayloadSlice(f, u) = Err
    BY <1>1, <1>2, <1>17, <1>18, SourceFound DEF Missing
  <2>2. CASE a.fn = "vec" /\ a.name \in DOMAIN draftMemo
    <3>1. DraftVec(a.name) = Ok(CellsOf(g))
      BY <1>1, <2>2, Zenon DEF DraftVec, DraftHeld
    <3>2. DraftOutcome(a) = IF DraftVec(a.name) # Err /\ n > Elems(u) THEN Panicked ELSE DraftVec(a.name)
      BY <1>1, <2>2, Zenon DEF DraftOutcome
    <3>3. ~(n > Elems(u))
      <4>1. n <= Elems(t)
        BY <1>1, <2>2 DEF HasFor
      <4>2. Elems(u) = Elems(t) /\ Elems(u) \in Nat
        <5>1. u.dims = t.dims
          BY <1>3 DEF Alike
        <5>2. QED BY <1>4, <5>1, ShapeNat, Zenon DEF Elems, Held
      <4>3. QED BY <1>2, <4>1, <4>2
    <3>4. Asked(a, g) = CellsOf(g)
      BY <2>2, Zenon DEF Asked
    <3>5. QED BY <1>1, <3>1, <3>2, <3>3, <3>4
  <2>3. CASE a.fn = "vec" /\ a.name \notin DOMAIN draftMemo
    <3>1. DraftVec(a.name) = IF f = EmptyFile \/ ~TypeSupported(u.ty) THEN Err ELSE PayloadSlice(f, u)
      BY <1>1, <2>3, Zenon DEF DraftVec
    <3>2. DraftOutcome(a) = IF DraftVec(a.name) # Err /\ n > Elems(u) THEN Panicked ELSE DraftVec(a.name)
      BY <1>1, <2>3, Zenon DEF DraftOutcome
    <3>3. QED BY <2>1, <3>1, <3>2
  <2>4. CASE a.fn # "vec"
    <3>1. DraftOutcome(a) = Err
      BY <1>1, <2>1, <2>4, Zenon DEF DraftOutcome
    <3>2. QED BY <2>1, <3>1
  <2>5. QED BY <2>2, <2>3, <2>4
<1>19. SUFFICES ASSUME Within(f, u)
       PROVE  \/ BeyondRows(a, Named(sidecar.original.tensors, a.name))
              \/ DraftOutcome(a) = Ok(Asked(a, Source(a.name)))
  BY <1>18
<1>5. PayloadSlice(f, u) = Ok(CellsOf(u)) /\ PayloadSlice(f, u) # Err /\ PayloadSlice(f, u).rows = CellsOf(u)
  BY <1>17, <1>19, ReadsAre
<1>6. PICK rows \in Nat : rows = RowsOf(u)
  BY <1>4, ShapeNat DEF Held
<1>7. u.ty = g.ty /\ u.dims = t.dims /\ u.of = g.of
  BY <1>3 DEF Alike
<1>8. Elems(u) = Elems(t) /\ Ne0(u) = Ne0(t) /\ RowsOf(t) = rows
  BY <1>6, <1>7, Zenon DEF Elems, Ne0, RowsOf
<1>9. CellsOf(u) = CellsOf(g) /\ Elems(u) \in Nat
  BY <1>3, <1>4, AlikeRows, ShapeNat DEF Held
<1>10. \A r \in 1..rows : CellsOf(u)[r] = <<g.of, r>>
  BY <1>6, <1>7 DEF CellsOf
<1>11. CASE a.fn = "vec" /\ TypeSupported(t.ty) /\ n <= Elems(t)
  <2>1. DraftVec(a.name) = Ok(CellsOf(g))
    <3>1. CASE a.name \in DOMAIN draftMemo
      BY <1>1, <3>1, Zenon DEF DraftVec, DraftHeld
    <3>2. CASE a.name \notin DOMAIN draftMemo
      <4>1. DraftVec(a.name) = IF f = EmptyFile \/ ~TypeSupported(u.ty) THEN Err ELSE PayloadSlice(f, u)
        BY <1>1, <3>2, Zenon DEF DraftVec
      <4>2. QED BY <1>3, <1>5, <1>7, <1>9, <1>11, <4>1
    <3>3. QED BY <3>1, <3>2
  <2>2. DraftOutcome(a) = IF DraftVec(a.name) # Err /\ n > Elems(u) THEN Panicked ELSE DraftVec(a.name)
    BY <1>1, <1>11, Zenon DEF DraftOutcome
  <2>3. ~(n > Elems(u))
    BY <1>2, <1>8, <1>9, <1>11
  <2>4. Asked(a, g) = CellsOf(g)
    BY <1>11, Zenon DEF Asked
  <2>5. QED BY <1>1, <2>1, <2>2, <2>3, <2>4
<1>12. CASE a.fn = "row" /\ TypeSupported(t.ty)
  <2>1. DraftOutcome(a) = IF ~TypeSupported(u.ty) \/ n + 1 > rows THEN Err ELSE Ok(<<CellsOf(u)[n + 1]>>)
    BY <1>1, <1>3, <1>5, <1>6, <1>12, Zenon DEF DraftOutcome
  <2>2. CASE n >= rows
    BY <1>1, <1>8, <1>12, <2>2, Zenon DEF BeyondRows
  <2>3. CASE n < rows
    <3>1. n + 1 \in 1..rows /\ ~(n + 1 > rows)
      BY <1>2, <2>3
    <3>2. DraftOutcome(a) = Ok(<<<<g.of, n + 1>>>>)
      BY <1>3, <1>7, <1>10, <1>12, <2>1, <3>1
    <3>3. Asked(a, g) = <<<<g.of, n + 1>>>>
      BY <1>1, <1>12, Zenon DEF Asked
    <3>4. QED BY <1>1, <3>2, <3>3
  <2>4. QED BY <1>2, <2>2, <2>3
<1>13. CASE a.fn = "range" /\ TypeSupported(t.ty) /\ a.cols = Ne0(t) /\ n <= rows
  <2>1. DraftOutcome(a) = IF ~TypeSupported(u.ty) \/ a.cols # Ne0(u) \/ n > rows
                          THEN Err ELSE Ok(SubSeq(CellsOf(u), 1, n))
    BY <1>1, <1>3, <1>5, <1>6, <1>13, Zenon DEF DraftOutcome
  <2>2. ~(n > rows)
    BY <1>2, <1>13
  <2>3. DraftOutcome(a) = Ok(SubSeq(CellsOf(g), 1, n))
    BY <1>3, <1>7, <1>8, <1>9, <1>13, <2>1, <2>2
  <2>4. Asked(a, g) = SubSeq(CellsOf(g), 1, n)
    BY <1>1, <1>13, Zenon DEF Asked
  <2>5. QED BY <1>1, <2>3, <2>4
<1>14. CASE a.fn = "multi" /\ TypeSupported(t.ty) /\ a.cols = Ne0(t) /\ n = rows
  <2>1. DraftOutcome(a) = IF ~TypeSupported(u.ty) \/ a.cols # Ne0(u) \/ n < rows
                          THEN Err ELSE PayloadSlice(f, u)
    BY <1>1, <1>3, <1>5, <1>6, <1>14, Zenon DEF DraftOutcome
  <2>2. ~(n < rows)
    BY <1>2, <1>14
  <2>3. DraftOutcome(a) = Ok(CellsOf(g))
    BY <1>3, <1>5, <1>7, <1>8, <1>9, <1>14, <2>1, <2>2
  <2>4. Asked(a, g) = CellsOf(g)
    BY <1>1, <1>14, Zenon DEF Asked
  <2>5. QED BY <1>1, <2>3, <2>4
<1>15. CASE a.fn = "markov_row"
  <2>1. DraftOutcome(a) = IF n + 1 > rows THEN Panicked ELSE Ok(<<CellsOf(u)[n + 1]>>)
    BY <1>1, <1>3, <1>5, <1>6, <1>15, Zenon DEF DraftOutcome
  <2>2. CASE n >= rows
    BY <1>1, <1>8, <1>15, <2>2, Zenon DEF BeyondRows
  <2>3. CASE n < rows
    <3>1. n + 1 \in 1..rows /\ ~(n + 1 > rows)
      BY <1>2, <2>3
    <3>2. DraftOutcome(a) = Ok(<<<<g.of, n + 1>>>>)
      BY <1>10, <2>1, <3>1
    <3>3. Asked(a, g) = <<<<g.of, n + 1>>>>
      BY <1>1, <1>15, Zenon DEF Asked
    <3>4. QED BY <1>1, <3>2, <3>3
  <2>4. QED BY <1>2, <2>2, <2>3
<1>16. QED
  <2>1. \/ a.fn = "vec" /\ TypeSupported(t.ty) /\ n <= Elems(t)
        \/ a.fn = "row" /\ TypeSupported(t.ty)
        \/ a.fn = "range" /\ TypeSupported(t.ty) /\ a.cols = Ne0(t) /\ n <= rows
        \/ a.fn = "multi" /\ TypeSupported(t.ty) /\ a.cols = Ne0(t) /\ n = rows
        \/ a.fn = "markov_row"
    BY <1>1, <1>8, Zenon DEF HasFor
  <2>2. QED BY <1>11, <1>12, <1>13, <1>14, <1>15, <2>1

\* The requests of a draft are a sequence, which is never empty.
LEMMA JoinedOfSeqs ==
  ASSUME NEW n \in Nat, NEW ss, DOMAIN ss = 1..n, ss = [k \in 1..n |-> ss[k]],
         \A k \in 1..n : \E S : ss[k] \in Seq(S)
  PROVE  \E S : Flat(ss) \in Seq(S)
<1>1. PICK S : S = UNION {{ss[k][j] : j \in DOMAIN ss[k]} : k \in 1..n}
  OBVIOUS
<1>2. ASSUME NEW k \in 1..n PROVE ss[k] \in Seq(S)
  <2>1. PICK p : p = ss[k]
    OBVIOUS
  <2>2. PICK R : p \in Seq(R)
    BY <2>1
  <2>3. p \in Seq({p[j] : j \in DOMAIN p})
    BY <2>2
  <2>4. {p[j] : j \in DOMAIN p} \subseteq S
    BY <1>1, <2>1
  <2>5. QED BY <2>1, <2>3, <2>4, SeqMonotonic, Zenon
<1>3. ss \in Seq(Seq(S))
  BY <1>2
<1>4. QED BY <1>3, JoinedIsSeq, Zenon

\* A draft asks for something.
LEMMA DraftAsksAre ==
  ASSUME NEW c \in SidecarConfig, NEW tok
  PROVE  /\ \E S : DraftAsks(c, tok) \in Seq(S)
         /\ 0 < Len(DraftAsks(c, tok))
<1>1. PICK n \in Nat : n = c.layers
  BY DEF SidecarConfig
<1>2. PICK m1 : m1 = [k \in 1..n |-> Injected(c, k - 1)]
  OBVIOUS
<1>3. PICK m2 : m2 = [k \in 1..n |-> DraftLayer(c, k - 1)]
  OBVIOUS
<1>4. \E S : Flat(m1) \in Seq(S)
  <2>1. \A k \in 1..n : \E S : Injected(c, k - 1) \in Seq(S)
    <3> TAKE k \in 1..n
    <3>1. PICK il : il = k - 1
      OBVIOUS
    <3>2. PICK x, d, z : Injected(c, il) = <<x, d, z>>
      BY Zenon DEF Injected
    <3>3. <<x, d, z>> \in Seq({x, d, z})
      OBVIOUS
    <3>4. QED BY <3>1, <3>2, <3>3
  <2>2. DOMAIN m1 = 1..n /\ m1 = [k \in 1..n |-> m1[k]] /\ \A k \in 1..n : m1[k] = Injected(c, k - 1)
    BY <1>2
  <2>3. QED BY <2>1, <2>2, JoinedOfSeqs
<1>5. \E S : Flat(m2) \in Seq(S)
  <2>1. \A k \in 1..n : \E S : DraftLayer(c, k - 1) \in Seq(S)
    <3> TAKE k \in 1..n
    <3>1. PICK il : il = k - 1
      OBVIOUS
    <3>2. PICK x, d, z, w, u, v, p, q, s, t, r : DraftLayer(c, il) = <<x, d, z, w, u, v, p, q, s, t, r>>
      BY Zenon DEF DraftLayer
    <3>3. <<x, d, z, w, u, v, p, q, s, t, r>> \in Seq({x, d, z, w, u, v, p, q, s, t, r})
      OBVIOUS
    <3>4. QED BY <3>1, <3>2, <3>3
  <2>2. DOMAIN m2 = 1..n /\ m2 = [k \in 1..n |-> m2[k]] /\ \A k \in 1..n : m2[k] = DraftLayer(c, k - 1)
    BY <1>3
  <2>3. QED BY <2>1, <2>2, JoinedOfSeqs
<1>6. \E S : LogSnr(c) \in Seq(S)
  <2>1. CASE ~c.snr
    BY <2>1 DEF LogSnr
  <2>2. CASE c.snr
    <3>1. PICK x, d, z, w : LogSnr(c) = <<x, d, z, w>>
      BY <2>2, Zenon DEF LogSnr
    <3>2. <<x, d, z, w>> \in Seq({x, d, z, w})
      OBVIOUS
    <3>3. QED BY <3>1, <3>2
  <2>3. QED BY <2>1, <2>2
<1>7. PICK x1, x2, x3, y1, y2, y3, y4, y5, y6 :
        DraftAsks(c, tok) = <<x1, x2>> \o Flat(m1) \o <<x3>> \o LogSnr(c) \o Flat(m2)
                            \o <<y1, y2, y3, y4, y5, y6>>
  BY <1>1, <1>2, <1>3, Zenon DEF DraftAsks
<1>8. PICK S1 : Flat(m1) \in Seq(S1)
  BY <1>4
<1>9. PICK S2 : LogSnr(c) \in Seq(S2)
  BY <1>6
<1>10. PICK S3 : Flat(m2) \in Seq(S3)
  BY <1>5
<1>11. PICK U : U = S1 \cup S2 \cup S3 \cup {x1, x2, x3, y1, y2, y3, y4, y5, y6}
  OBVIOUS
<1>12. PICK j1 \in Seq(U), j2 \in Seq(U), j3 \in Seq(U) :
         j1 = Flat(m1) /\ j2 = LogSnr(c) /\ j3 = Flat(m2)
  <2>1. S1 \subseteq U /\ S2 \subseteq U /\ S3 \subseteq U
    BY <1>11
  <2>2. Flat(m1) \in Seq(U) /\ LogSnr(c) \in Seq(U) /\ Flat(m2) \in Seq(U)
    BY <1>8, <1>9, <1>10, <2>1, SeqMonotonic, Zenon
  <2>3. QED BY <2>2
<1>13. PICK e1 \in Seq(U), e2 \in Seq(U), e3 \in Seq(U) :
         e1 = <<x1, x2>> /\ e2 = <<x3>> /\ e3 = <<y1, y2, y3, y4, y5, y6>> /\ Len(e1) = 2
  <2>1. {x1, x2, x3, y1, y2, y3, y4, y5, y6} \subseteq U
    BY <1>11
  <2>2. <<x1, x2>> \in Seq(U) /\ Len(<<x1, x2>>) = 2
    BY <2>1
  <2>3. <<x3>> \in Seq(U)
    BY <2>1
  <2>4. <<y1, y2, y3, y4, y5, y6>> \in Seq(U)
    BY <2>1
  <2>5. QED BY <2>2, <2>3, <2>4, Zenon
<1>14. PICK p1 \in Seq(U) : p1 = e1 \o j1 /\ Len(p1) = Len(e1) + Len(j1)
  BY ConcatProperties, Zenon
<1>15. PICK p2 \in Seq(U) : p2 = p1 \o e2 /\ Len(p2) = Len(p1) + Len(e2)
  BY ConcatProperties, Zenon
<1>16. PICK p3 \in Seq(U) : p3 = p2 \o j2 /\ Len(p3) = Len(p2) + Len(j2)
  BY ConcatProperties, Zenon
<1>17. PICK p4 \in Seq(U) : p4 = p3 \o j3 /\ Len(p4) = Len(p3) + Len(j3)
  BY ConcatProperties, Zenon
<1>18. PICK p5 \in Seq(U) : p5 = p4 \o e3 /\ Len(p5) = Len(p4) + Len(e3)
  BY ConcatProperties, Zenon
<1>19. DraftAsks(c, tok) = p5
  BY <1>7, <1>12, <1>13, <1>14, <1>15, <1>16, <1>17, <1>18, Zenon
<1>20. 0 < Len(p5)
  <2>1. /\ Len(e1) \in Nat /\ Len(j1) \in Nat /\ Len(p1) \in Nat /\ Len(e2) \in Nat /\ Len(p2) \in Nat
        /\ Len(j2) \in Nat /\ Len(p3) \in Nat /\ Len(j3) \in Nat /\ Len(p4) \in Nat /\ Len(e3) \in Nat
    BY LenProperties
  <2>2. QED BY <2>1, <1>13, <1>14, <1>15, <1>16, <1>17, <1>18
<1>21. QED BY <1>19, <1>20, Zenon

\* The matrices that are uploaded are the target's ternary tensors.
LEMMA MatricesAre ==
  ASSUME Loaded
  PROVE  /\ Len(Matrices) \in Nat /\ DOMAIN Matrices = 1..Len(Matrices)
         /\ \A k \in 1..Len(Matrices) :
              /\ Held(target, Matrices[k]) /\ Has(Ts, Matrices[k].name)
              /\ Alike(Named(Ts, Matrices[k].name), Matrices[k])
<1>1. PICK m \in DOMAIN Models : /\ m = model /\ Listing(Models[m].tensors)
                                  /\ target.index = FileOf(Models[m].tensors).index
  BY TensorLookupAssumption, LoadedIs DEF Loaded
<1>2. PICK ts : ts = Models[m].tensors
  OBVIOUS
<1>3. Entries(ts) /\ Consistent(ts) /\ DOMAIN ts = 1..Len(ts) /\ Len(ts) \in Nat
  BY <1>1, <1>2, ListingIs
<1>4. PICK index : index = Ts
  OBVIOUS
<1>5. DOMAIN index = 1..Len(ts) /\ \A i \in DOMAIN ts : Alike(index[i], ts[i])
  <2>1. index = FileOf(ts).index
    BY <1>1, <1>2, <1>4 DEF Ts
  <2>2. DOMAIN index = DOMAIN ts
    BY <2>1 DEF FileOf
  <2>3. QED BY <1>3, <2>1, <2>2, FileHolds DEF Alike
<1>6. Consistent(index)
  BY <1>3, <1>5 DEF Consistent, Alike
<1>7. index \in Seq({index[i] : i \in 1..Len(ts)})
  <2>1. index = [i \in 1..Len(ts) |-> index[i]]
    BY <1>1, <1>2, <1>3, <1>4 DEF Ts, FileOf
  <2>2. QED BY <1>3, <2>1
<1>8. PICK S : S = {i \in DOMAIN index : index[i].ty = "pq2"}
  OBVIOUS
<1>9. PICK w : /\ w = Those(index, S) /\ OnlyThose(w, index, S)
               /\ w \in Seq({index[i] : i \in 1..Len(ts)})
  BY <1>7, ThoseAre, Zenon
<1>10. Matrices = w
  BY <1>4, <1>8, <1>9, Zenon DEF Matrices
<1>11. DOMAIN w = 1..Len(w) /\ Len(w) \in Nat
  BY <1>9
<1>12. ASSUME NEW k \in 1..Len(w)
       PROVE  Held(target, w[k]) /\ Has(index, w[k].name) /\ Alike(Named(index, w[k].name), w[k])
  <2>1. PICK i \in DOMAIN index : w[k] = index[i]
    BY <1>9 DEF OnlyThose
  <2>2. Held(target, index[i])
    BY <1>4, LoadedIs DEF IsFile, Ts
  <2>3. QED BY <1>6, <2>1, <2>2, NamedAlike
<1>13. QED BY <1>4, <1>10, <1>11, <1>12

-----------------------------------------------------------------------------
\* While the files stay, so does what is said of them.
LEMMA FilesStay ==
  ASSUME UNCHANGED <<model, target>>
  PROVE  /\ Ts' = Ts /\ Matrices' = Matrices /\ Loaded' = Loaded /\ VerifyOk' = VerifyOk
         /\ UNCHANGED device /\ HeldRows(device) => HeldRows(device)'
         /\ UNCHANGED memo /\ HeldRows(memo) => HeldRows(memo)'
<1>1. Ts' = Ts
  BY DEF Ts
<1>2. Matrices' = Matrices
  BY <1>1, Zenon DEF Matrices
<1>3. Loaded' = Loaded
  BY Zenon DEF Loaded
<1>4. VerifyOk' = VerifyOk
  BY <1>1, Zenon DEF VerifyOk
<1>5. UNCHANGED device /\ HeldRows(device) => HeldRows(device)'
  BY <1>1, Zenon DEF HeldRows
<1>6. UNCHANGED memo /\ HeldRows(memo) => HeldRows(memo)'
  BY <1>1, Zenon DEF HeldRows
<1>7. QED BY <1>1, <1>2, <1>3, <1>4, <1>5, <1>6, Zenon

\* What is said of the sidecar depends on these variables only.
LEMMA SidecarStays ==
  ASSUME UNCHANGED <<model, target, sidecar>>
  PROVE  /\ Made' = Made /\ SameModel' = SameModel
         /\ \A name : Source(name)' = Source(name)
<1>1. Made' = Made
  BY Zenon DEF Made, MadeOf
<1>2. SameModel' = SameModel
  BY Zenon DEF SameModel
<1>3. \A name : Source(name)' = Source(name)
  BY Zenon DEF Source
<1>4. QED BY <1>1, <1>2, <1>3, Zenon

\* The sidecar and the memo of the draft.
LEMMA LkSidecarStays ==
  ASSUME LkSidecar, UNCHANGED <<model, target, sidecar, draftMemo>>
  PROVE  LkSidecar'
<1>1. (sidecar = NoSidecar \/ Made)'
  BY SidecarStays, Zenon DEF LkSidecar
<1>2. DraftHeld'
  BY SidecarStays, Zenon DEF LkSidecar, DraftHeld
<1>3. QED BY <1>1, <1>2 DEF LkSidecar

\* The last answer.
LEMMA LkAnswersStay ==
  ASSUME LkAnswers, UNCHANGED <<model, target, sidecar, answer>>
  PROVE  LkAnswers'
<1>1. VerifiedServes'
  <2>1. OwnersRows'
    BY FilesStay, Zenon DEF LkAnswers, VerifiedServes, OwnersRows
  <2>2. VerifiedIsEnough'
    BY FilesStay, Zenon DEF LkAnswers, VerifiedServes, VerifiedIsEnough
  <2>3. QED BY <2>1, <2>2 DEF VerifiedServes
<1>2. DraftFindsOriginal'
  BY Zenon DEF LkAnswers, DraftFindsOriginal
<1>3. QED BY <1>1, <1>2 DEF LkAnswers

\* No answer yet is nothing to be wrong about.
LEMMA NoAnswerIsFine ==
  ASSUME answer = NoAnswer
  PROVE  LkAnswers /\ answer.by # "draft"
<1>1. answer.by = "none"
  BY DEF NoAnswer
<1>2. QED BY <1>1 DEF LkAnswers, VerifiedServes, OwnersRows, VerifiedIsEnough, DraftFindsOriginal

\* The invariant holds before a model is opened.
LEMMA LkInitHolds ==
  ASSUME LkInit
  PROVE  LkInv
<1>1. lkAt = "start" /\ LkNothing
  BY DEF LkInit
<1>2. LkPlaces
  BY <1>1 DEF LkPlaces
<1>3. LkHeld
  BY <1>1 DEF LkHeld, LkNothing, NoDevice, NoRows, HeldRows
<1>4. LkSidecar
  BY <1>1 DEF LkSidecar, LkNothing, DraftHeld, NoRows
<1>5. LkAnswers /\ answer.by # "draft"
  BY <1>1, NoAnswerIsFine DEF LkNothing
<1>6. LkScript
  BY <1>1, <1>5 DEF LkScript
<1>7. QED BY <1>2, <1>3, <1>4, <1>5, <1>6 DEF LkInv

-----------------------------------------------------------------------------
\* Each action keeps the invariant.
LEMMA LkOpenModel ==
  ASSUME LkInv, NEW m \in DOMAIN Models, NEW lost \in Losses, OpenModel(m, lost)
  PROVE  LkInv'
<1>1. lkAt = "start" /\ LkNothing
  BY DEF LkInv, LkPlaces, OpenModel
<1>2. /\ lkAt' = (IF Models[m].sound THEN "open" ELSE "refused")
      /\ model' = (IF Models[m].sound THEN m ELSE model)
      /\ target' = (IF Models[m].sound THEN CutShort(FileOf(Models[m].tensors), lost) ELSE target)
      /\ UNCHANGED <<device, loading, memo, draftMemo, sidecar, script, asked, answer>>
  BY Zenon DEF OpenModel
<1>3. LkPlaces'
  <2>1. CASE Models[m].sound
    BY <1>2, <2>1 DEF LkPlaces, Loaded
  <2>2. CASE ~Models[m].sound
    BY <1>1, <1>2, <2>2 DEF LkPlaces, LkNothing
  <2>3. QED BY <2>1, <2>2
<1>4. LkHeld'
  BY <1>1, <1>2 DEF LkHeld, LkNothing, NoDevice, NoRows, HeldRows
<1>5. LkSidecar'
  BY <1>1, <1>2 DEF LkSidecar, LkNothing, DraftHeld, NoRows
<1>6. answer'.by = "none"
  BY <1>1, <1>2 DEF LkNothing, NoAnswer
<1>7. LkAnswers'
  BY <1>6 DEF LkAnswers, VerifiedServes, OwnersRows, VerifiedIsEnough, DraftFindsOriginal
<1>8. LkScript'
  BY <1>2, <1>6 DEF LkScript
<1>9. QED BY <1>3, <1>4, <1>5, <1>7, <1>8 DEF LkInv

\* What an action that leaves the files and the answer alone has to show.
LEMMA LkKeeps ==
  ASSUME LkInv, UNCHANGED <<model, target, sidecar, draftMemo>>, LkAnswers',
         lkAt \notin {"start", "refused"}, lkAt' \in {"open", "upload", "forward", "draft", "panicked"},
         LkHeld', LkScript'
  PROVE  LkInv'
<1>1. LkPlaces'
  <2>1. Loaded'
    BY FilesStay, Zenon DEF LkInv, LkPlaces
  <2>2. QED BY <2>1 DEF LkPlaces
<1>2. LkSidecar'
  BY LkSidecarStays, Zenon DEF LkInv
<1>3. QED BY <1>1, <1>2, Zenon DEF LkInv

\* Nothing is uploaded yet.
LEMMA LkEnableGpu ==
  ASSUME LkInv, EnableGpu
  PROVE  LkInv'
<1>1. /\ lkAt = "open" /\ lkAt' = "upload" /\ loading' = <<>>
      /\ UNCHANGED <<model, target, device, memo, draftMemo, sidecar, script, asked, answer>>
  BY DEF EnableGpu
<1>2. Loaded
  BY <1>1 DEF LkInv, LkPlaces
<1>3. Uploading'
  <2>1. Len(Matrices) \in Nat /\ Matrices' = Matrices
    BY <1>1, <1>2, MatricesAre, FilesStay
  <2>2. QED BY <1>1, <2>1 DEF Uploading
<1>4. LkHeld'
  BY <1>1, <1>3, FilesStay DEF LkInv, LkHeld
<1>5. LkScript'
  BY <1>1 DEF LkInv, LkScript
<1>6. LkAnswers'
  BY <1>1, LkAnswersStay DEF LkInv
<1>7. QED BY <1>1, <1>4, <1>5, <1>6, LkKeeps

\* The next tensor's rows are read from the file.
LEMMA LkUploadNext ==
  ASSUME LkInv, UploadNext
  PROVE  LkInv'
<1>1. /\ lkAt = "upload" /\ Len(loading) < Len(Matrices)
      /\ PayloadSlice(target, Matrices[Len(loading) + 1]) # Err
      /\ loading' = Append(loading, PayloadSlice(target, Matrices[Len(loading) + 1]).rows)
      /\ UNCHANGED <<lkAt, model, target, device, memo, draftMemo, sidecar, script, asked, answer>>
  BY DEF UploadNext
<1>2. Loaded /\ Uploading
  BY <1>1 DEF LkInv, LkPlaces, LkHeld
<1>3. PICK n \in Nat, all \in Nat : n = Len(loading) /\ all = Len(Matrices) /\ n < all
  <2>1. Len(Matrices) \in Nat
    BY <1>2, MatricesAre
  <2>2. loading \in Seq({loading[k] : k \in 1..Len(loading)})
    BY <1>2 DEF Uploading
  <2>3. Len(loading) \in Nat
    BY <2>2, LenProperties, Zenon
  <2>4. QED BY <1>1, <2>1, <2>3
<1>4. PICK cells : cells = CellsOf(Matrices[n + 1])
  OBVIOUS
<1>5. PayloadSlice(target, Matrices[n + 1]).rows = cells
  <2>1. Held(target, Matrices[n + 1]) /\ IsFile(target)
    BY <1>2, <1>3, MatricesAre, LoadedIs
  <2>2. PayloadSlice(target, Matrices[n + 1]) \in {Ok(cells), Err}
    BY <1>4, <2>1, PayloadIs
  <2>3. QED BY <1>1, <1>3, <2>2, ReadsAre
<1>6. loading' = Append(loading, cells)
  BY <1>1, <1>3, <1>5
<1>7. PICK S : loading \in Seq(S) /\ cells \in S
  <2>0. PICK T : T = {loading[k] : k \in 1..Len(loading)}
    OBVIOUS
  <2>1. loading \in Seq(T)
    BY <1>2, <2>0, Zenon DEF Uploading
  <2>2. loading \in Seq(T \cup {cells})
    BY <2>1, SeqMonotonic
  <2>3. QED BY <2>2
<1>8. loading' \in Seq(S) /\ Len(loading') = n + 1 /\ loading'[n + 1] = cells
      /\ \A k \in 1..n : loading'[k] = loading[k]
  BY <1>3, <1>6, <1>7
<1>9. Uploading'
  <2>1. Matrices' = Matrices
    BY <1>1, FilesStay
  <2>2. loading' \in Seq({loading'[k] : k \in 1..Len(loading')})
    BY <1>8
  <2>3. \A k \in 1..(n + 1) : loading'[k] = CellsOf(Matrices[k])
    <3> TAKE k \in 1..(n + 1)
    <3>1. CASE k = n + 1
      BY <1>4, <1>8, <3>1
    <3>2. CASE k \in 1..n
      BY <1>2, <1>3, <1>8, <3>2 DEF Uploading
    <3>3. QED BY <1>3, <3>1, <3>2
  <2>4. n + 1 <= all
    BY <1>3
  <2>5. QED BY <1>3, <1>8, <2>1, <2>2, <2>3, <2>4 DEF Uploading
<1>10. LkHeld'
  BY <1>1, <1>9, FilesStay DEF LkInv, LkHeld
<1>11. LkScript'
  BY <1>1 DEF LkInv, LkScript
<1>12. LkAnswers'
  BY <1>1, LkAnswersStay DEF LkInv
<1>13. QED BY <1>1, <1>10, <1>11, <1>12, LkKeeps

\* The device holds under each name that tensor's rows.
LEMMA LkUploadDone ==
  ASSUME LkInv, UploadDone
  PROVE  LkInv'
<1>1. /\ lkAt = "upload" /\ Len(loading) = Len(Matrices) /\ lkAt' = "open" /\ loading' = <<>>
      /\ device' = [name \in {Matrices[k].name : k \in DOMAIN Matrices} |->
                      loading[CHOOSE k \in DOMAIN Matrices : Matrices[k].name = name]]
      /\ UNCHANGED <<model, target, memo, draftMemo, sidecar, script, asked, answer>>
  BY DEF UploadDone
<1>2. Loaded /\ Uploading
  BY <1>1 DEF LkInv, LkPlaces, LkHeld
<1>3. HeldRows(device)'
  <2>1. Ts' = Ts
    BY <1>1, FilesStay
  <2>2. ASSUME NEW name \in DOMAIN device'
        PROVE  Has(Ts, name) /\ device'[name] = CellsOf(Named(Ts, name))
    <3>1. PICK k : k = CHOOSE i \in DOMAIN Matrices : Matrices[i].name = name
      OBVIOUS
    <3>2. \E j \in DOMAIN Matrices : Matrices[j].name = name
      BY <1>1
    <3>3. k \in DOMAIN Matrices /\ Matrices[k].name = name
      BY <3>1, <3>2, Zenon
    <3>4. device'[name] = loading[k]
      BY <1>1, <3>1
    <3>5. k \in 1..Len(Matrices)
      BY <1>2, <3>3, MatricesAre
    <3>6. loading[k] = CellsOf(Matrices[k])
      BY <1>1, <1>2, <3>5 DEF Uploading
    <3>7. Has(Ts, name) /\ Alike(Named(Ts, name), Matrices[k])
      BY <1>2, <3>3, <3>5, MatricesAre
    <3>8. CellsOf(Named(Ts, name)) = CellsOf(Matrices[k])
      BY <3>7, AlikeRows
    <3>9. QED BY <3>4, <3>6, <3>7, <3>8
  <2>3. QED BY <2>1, <2>2, Zenon DEF HeldRows
<1>4. LkHeld'
  BY <1>1, <1>3, FilesStay DEF LkInv, LkHeld
<1>5. LkScript'
  BY <1>1 DEF LkInv, LkScript
<1>6. LkAnswers'
  BY <1>1, LkAnswersStay DEF LkInv
<1>7. QED BY <1>1, <1>4, <1>5, <1>6, LkKeeps

\* An upload that fails leaves the weights as they were.
LEMMA LkUploadFails ==
  ASSUME LkInv, UploadFails
  PROVE  LkInv'
<1>1. /\ lkAt = "upload" /\ lkAt' = "open"
      /\ UNCHANGED <<model, target, device, memo, draftMemo, sidecar, script, asked, answer>>
  BY DEF UploadFails
<1>2. LkHeld'
  BY <1>1, FilesStay DEF LkInv, LkHeld
<1>3. LkScript'
  BY <1>1 DEF LkInv, LkScript
<1>4. LkAnswers'
  BY <1>1, LkAnswersStay DEF LkInv
<1>5. QED BY <1>1, <1>2, <1>3, <1>4, LkKeeps

\* A sidecar that is opened was repacked, whatever against and with whatever
\* file.
LEMMA LkOpenSidecar ==
  ASSUME LkInv, NEW o \in Originals, NEW ref \in References \cup {None}, NEW other \in {target, EmptyFile},
         OpenSidecar(o, ref, other)
  PROVE  LkInv'
<1>1. PICK repacked : repacked = Repack(o.tensors, Against(ref))
  OBVIOUS
<1>2. /\ lkAt = "open" /\ sidecar = NoSidecar
      /\ sidecar' = (IF repacked.shared # {} /\ other = EmptyFile THEN sidecar
                     ELSE [original |-> o, reference |-> ref, file |-> repacked.file,
                           shared |-> repacked.shared, other |-> other])
      /\ UNCHANGED <<lkAt, model, target, device, loading, memo, draftMemo, script, asked, answer>>
  BY <1>1, Zenon DEF OpenSidecar, Against
<1>3. Loaded /\ LkPlaces' /\ LkHeld'
  <2>1. Loaded /\ Loaded'
    BY <1>2, FilesStay DEF LkInv, LkPlaces
  <2>2. LkHeld'
    BY <1>2, FilesStay DEF LkInv, LkHeld
  <2>3. QED BY <1>2, <2>1, <2>2 DEF LkPlaces
<1>4. answer'.by # "draft" /\ answer.by # "draft"
  BY <1>2 DEF LkInv, LkScript
<1>5. LkScript'
  BY <1>2, <1>4 DEF LkScript
<1>6. LkAnswers'
  <2>1. VerifiedServes'
    <3>1. OwnersRows'
      BY <1>2, FilesStay, Zenon DEF LkInv, LkAnswers, VerifiedServes, OwnersRows
    <3>2. VerifiedIsEnough'
      BY <1>2, FilesStay, Zenon DEF LkInv, LkAnswers, VerifiedServes, VerifiedIsEnough
    <3>3. QED BY <3>1, <3>2 DEF VerifiedServes
  <2>2. DraftFindsOriginal'
    BY <1>4 DEF DraftFindsOriginal
  <2>3. QED BY <2>1, <2>2 DEF LkAnswers
<1>7. LkSidecar'
  <2>1. CASE repacked.shared # {} /\ other = EmptyFile
    BY <1>2, <2>1, LkSidecarStays DEF LkInv
  <2>2. CASE ~(repacked.shared # {} /\ other = EmptyFile)
    <3>1. sidecar' = [original |-> o, reference |-> ref, file |-> repacked.file,
                      shared |-> repacked.shared, other |-> other]
      BY <1>2, <2>2
    <3>2. MadeOf(o, ref, other)'
      BY <1>1, <2>2, <3>1, Zenon DEF MadeOf, Against
    <3>3. Made'
      BY <1>2, <3>2 DEF Made
    <3>4. DOMAIN draftMemo = {}
      <4>1. SUFFICES ASSUME NEW name \in DOMAIN draftMemo PROVE FALSE
        OBVIOUS
      <4>2. SameModel /\ sidecar.original.tensors = <<>>
        BY <1>2 DEF SameModel, NoSidecar, None
      <4>3. Has(sidecar.original.tensors, name)
        BY <4>2 DEF LkInv, LkSidecar, DraftHeld
      <4>4. QED BY <4>2, <4>3 DEF Has
    <3>5. DraftHeld'
      BY <1>2, <3>4 DEF DraftHeld
    <3>6. QED BY <3>3, <3>5 DEF LkSidecar
  <2>3. QED BY <2>1, <2>2
<1>8. QED BY <1>3, <1>5, <1>6, <1>7 DEF LkInv

\* A pass begins with its requests and no answer.
LEMMA LkBeginForward ==
  ASSUME LkInv, NEW tok \in AskedTokens, BeginForward(tok)
  PROVE  LkInv'
<1>1. /\ lkAt = "open" /\ lkAt' = "forward" /\ script' = ForwardAsks(Models[model].cfg, tok)
      /\ asked' = 0 /\ answer' = NoAnswer
      /\ UNCHANGED <<model, target, device, loading, memo, draftMemo, sidecar>>
  BY DEF BeginForward, Begin
<1>2. Models[model].cfg \in ModelConfig /\ tok \in Nat
  BY <1>1, LoadedIs, TensorLookupAssumption DEF LkInv, LkPlaces
<1>3. 0 < Len(script')
  BY <1>1, <1>2, ForwardAsksAre
<1>4. InScript(ForwardAsks(Models[model].cfg, tok))'
  BY <1>1, <1>3 DEF InScript
<1>5. answer'.by = "none"
  BY <1>1 DEF NoAnswer
<1>6. LkAnswers'
  BY <1>5 DEF LkAnswers, VerifiedServes, OwnersRows, VerifiedIsEnough, DraftFindsOriginal
<1>7. LkScript'
  BY <1>1, <1>4, <1>5 DEF LkScript
<1>8. LkHeld'
  BY <1>1, FilesStay DEF LkInv, LkHeld
<1>9. QED BY <1>1, <1>6, <1>7, <1>8, LkKeeps

\* An open sidecar has the configuration and the tensors of its original.
LEMMA SidecarConfigIs ==
  ASSUME Made
  PROVE  /\ sidecar.original \in Originals /\ sidecar.original.cfg \in SidecarConfig
         /\ Listing(sidecar.original.tensors)
<1>1. PICK o \in Originals : sidecar.original = o
  BY DEF Made, MadeOf
<1>2. QED BY <1>1, TensorLookupAssumption

\* So does a draft.
LEMMA LkBeginDraft ==
  ASSUME LkInv, NEW tok \in AskedTokens, BeginDraft(tok)
  PROVE  LkInv'
<1>1. /\ lkAt = "open" /\ lkAt' = "draft" /\ script' = DraftAsks(sidecar.original.cfg, tok)
      /\ asked' = 0 /\ answer' = NoAnswer /\ sidecar # NoSidecar
      /\ UNCHANGED <<model, target, device, loading, memo, draftMemo, sidecar>>
  BY DEF BeginDraft, Begin
<1>2. Made
  BY <1>1 DEF LkInv, LkSidecar
<1>3. 0 < Len(script')
  BY <1>1, <1>2, SidecarConfigIs, DraftAsksAre
<1>4. InScript(DraftAsks(sidecar.original.cfg, tok))'
  BY <1>1, <1>3 DEF InScript
<1>5. answer'.by = "none"
  BY <1>1 DEF NoAnswer
<1>6. LkAnswers'
  BY <1>5 DEF LkAnswers, VerifiedServes, OwnersRows, VerifiedIsEnough, DraftFindsOriginal
<1>7. LkScript'
  BY <1>1, <1>4 DEF LkScript
<1>8. LkHeld'
  BY <1>1, FilesStay DEF LkInv, LkHeld
<1>9. QED BY <1>1, <1>6, <1>7, <1>8, LkKeeps

\* A product that fails gives no answer.
LEMMA LkDeviceFails ==
  ASSUME LkInv, DeviceFails
  PROVE  LkInv'
<1>1. /\ lkAt = "forward" /\ lkAt' = "open" /\ answer' = NoAnswer
      /\ UNCHANGED <<model, target, device, loading, memo, draftMemo, sidecar, script, asked>>
  BY DEF DeviceFails
<1>2. answer'.by = "none"
  BY <1>1 DEF NoAnswer
<1>3. LkAnswers'
  BY <1>2 DEF LkAnswers, VerifiedServes, OwnersRows, VerifiedIsEnough, DraftFindsOriginal
<1>4. LkScript'
  BY <1>1, <1>2 DEF LkScript
<1>5. LkHeld'
  BY <1>1, FilesStay DEF LkInv, LkHeld
<1>6. QED BY <1>1, <1>3, <1>4, <1>5, LkKeeps

\* Where a pass goes with an answer.
LEMMA GivenIs ==
  ASSUME NEW out, Given(out), lkAt \in {"forward", "draft"}, asked \in Nat
  PROVE  /\ answer' = [ask |-> NextAsk, out |-> out, by |-> lkAt]
         /\ lkAt' \in {lkAt, "panicked", "open"}
         /\ lkAt' = lkAt => asked' \in Nat /\ asked' < Len(script)
         /\ UNCHANGED <<model, target, device, loading, sidecar, script>>
<1>1. PICK last : last = (asked' < Len(script))
  OBVIOUS
<1>2. /\ answer' = [ask |-> NextAsk, out |-> out, by |-> lkAt] /\ asked' = asked + 1
      /\ UNCHANGED <<model, target, device, loading, sidecar, script>>
      /\ lkAt' = CASE out.is = "panic" -> "panicked"
                   [] out.is = "ok" /\ asked' < Len(script) -> lkAt
                   [] OTHER -> "open"
  BY DEF Given
<1>3. CASE out.is = "panic"
  <2>1. lkAt' = "panicked"
    BY <1>2, <1>3
  <2>2. QED BY <1>2, <2>1
<1>4. CASE out.is # "panic" /\ out.is = "ok" /\ asked' < Len(script)
  BY <1>2, <1>4
<1>5. CASE out.is # "panic" /\ ~(out.is = "ok" /\ asked' < Len(script))
  <2>1. lkAt' = "open"
    BY <1>2, <1>5
  <2>2. QED BY <1>2, <2>1
<1>6. QED BY <1>3, <1>4, <1>5

\* The answer to a forward pass, and what the memo keeps of it.
LEMMA LkForwardAnswer ==
  ASSUME LkInv, lkAt = "forward", Given(Outcome(NextAsk)),
         memo' = Remember(memo, NextAsk, Outcome(NextAsk)), UNCHANGED draftMemo
  PROVE  LkInv'
<1>1. PICK tok \in AskedTokens : InScript(ForwardAsks(Models[model].cfg, tok))
  BY DEF LkInv, LkScript
<1>2. PICK a, out : a = NextAsk /\ out = Outcome(a)
  OBVIOUS
<1>3. Loaded /\ HeldRows(memo) /\ HeldRows(device) /\ tok \in Nat
  BY TensorLookupAssumption DEF LkInv, LkPlaces, LkHeld
<1>4. IsFile(target) /\ Models[model].cfg \in ModelConfig
  BY <1>3, LoadedIs
<1>5. /\ a.fn \in ForwardFn /\ a.n \in Nat
      /\ a.name[1] >= 0 => \E il \in 0..(Models[model].cfg.layers - 1) : LayerServes(Models[model].cfg, il, a)
  <2>0. PICK s : s = ForwardAsks(Models[model].cfg, tok)
    OBVIOUS
  <2>1. PICK n \in Nat : s = ForwardAsks(Models[model].cfg, tok) /\ n = Len(s)
    BY <1>3, <1>4, <2>0, ForwardAsksAre
  <2>2. asked + 1 \in 1..n /\ a = s[asked + 1]
    BY <1>1, <1>2, <2>1 DEF InScript, NextAsk
  <2>3. QED BY <1>3, <1>4, <2>1, <2>2, ForwardAsksAre
<1>6. out.is = "ok" => Has(Ts, a.name) /\ out = Ok(Asked(a, Named(Ts, a.name)))
  BY <1>2, <1>3, <1>4, <1>5, GivesOwners
<1>7. out.is = "ok" => out.rows = Asked(a, Named(Ts, a.name))
  BY <1>6, ReadsAre
<1>8. asked \in Nat
  BY <1>1 DEF InScript
<1>9. /\ answer' = [ask |-> a, out |-> out, by |-> "forward"] /\ lkAt' \in {"forward", "panicked", "open"}
      /\ lkAt' = "forward" => asked' \in Nat /\ asked' < Len(script)
      /\ UNCHANGED <<model, target, device, loading, sidecar, script>>
  BY <1>2, <1>8, GivenIs
<1>10. answer'.by = "forward" /\ answer'.ask = a /\ answer'.out = out
  BY <1>9
<1>11. Ts' = Ts /\ VerifyOk' = VerifyOk
  BY <1>9, FilesStay
<1>12. LkAnswers'
  <2>1. OwnersRows'
    BY <1>7, <1>10, <1>11, Zenon DEF OwnersRows
  <2>2. VerifiedIsEnough'
    <3>1. SUFFICES ASSUME a.name[1] >= 0, out.is # "ok", VerifyOk PROVE out = Err /\ Missing(target, a.name)
      BY <1>9, <1>10, <1>11, Zenon DEF VerifiedIsEnough
    <3>2. QED BY <1>2, <1>3, <1>5, <3>1, VerifiedAnswers, Zenon
  <2>3. DraftFindsOriginal'
    BY <1>10 DEF DraftFindsOriginal
  <2>4. QED BY <2>1, <2>2, <2>3 DEF LkAnswers, VerifiedServes
<1>13. HeldRows(memo)'
  <2>1. CASE a.fn \in {"vec", "vec_rows"} /\ out.is = "ok" /\ a.name \notin DOMAIN memo
    <3>1. memo' = [name \in DOMAIN memo \cup {a.name} |-> IF name = a.name THEN out.rows ELSE memo[name]]
      BY <1>2, <2>1, Zenon DEF Remember
    <3>2. out.rows = CellsOf(Named(Ts, a.name))
      <4>1. Asked(a, Named(Ts, a.name)) = CellsOf(Named(Ts, a.name))
        BY <2>1 DEF Asked
      <4>2. QED BY <1>7, <2>1, <4>1
    <3>3. \A name \in DOMAIN memo' : Has(Ts, name) /\ memo'[name] = CellsOf(Named(Ts, name))
      BY <1>3, <1>6, <2>1, <3>1, <3>2 DEF HeldRows
    <3>4. QED BY <1>11, <3>3, Zenon DEF HeldRows
  <2>2. CASE ~(a.fn \in {"vec", "vec_rows"} /\ out.is = "ok" /\ a.name \notin DOMAIN memo)
    <3>1. memo' = memo
      BY <1>2, <2>2, Zenon DEF Remember
    <3>2. QED BY <1>3, <1>9, <3>1, FilesStay
  <2>3. QED BY <2>1, <2>2
<1>14. LkHeld'
  BY <1>3, <1>9, <1>13, FilesStay DEF LkHeld
<1>15. LkScript'
  <2>1. lkAt' = "forward" => InScript(ForwardAsks(Models[model].cfg, tok))'
    BY <1>1, <1>9 DEF InScript
  <2>2. QED BY <1>9, <1>10, <2>1 DEF LkScript
<1>16. QED BY <1>9, <1>12, <1>14, <1>15, LkKeeps

\* The answer to a draft, and what its memo keeps of it.
LEMMA LkDraftAnswer ==
  ASSUME LkInv, lkAt = "draft", Given(DraftOutcome(NextAsk)),
         draftMemo' = Remember(draftMemo, NextAsk, DraftOutcome(NextAsk)), UNCHANGED memo
  PROVE  LkInv'
<1>1. PICK tok \in AskedTokens : InScript(DraftAsks(sidecar.original.cfg, tok))
  BY DEF LkInv, LkScript
<1>2. PICK a, out : a = NextAsk /\ out = DraftOutcome(a)
  OBVIOUS
<1>3. Loaded /\ Made /\ DraftHeld /\ sidecar # NoSidecar
  BY DEF LkInv, LkPlaces, LkSidecar, LkScript
<1>4. HasFor(sidecar.original.tensors, a)
  <2>1. PICK c : c = sidecar.original.cfg /\ c \in SidecarConfig /\ sidecar.original \in Originals
    BY <1>3, SidecarConfigIs
  <2>2. PICK s, S : s = DraftAsks(c, tok) /\ s \in Seq(S)
    BY <2>1, DraftAsksAre
  <2>3. asked + 1 \in DOMAIN s /\ a = s[asked + 1]
    BY <1>1, <1>2, <2>1, <2>2 DEF InScript, NextAsk
  <2>4. QED BY <2>1, <2>2, <2>3, OriginalsComplete
<1>5. SameModel =>
        \/ BeyondRows(a, Named(sidecar.original.tensors, a.name)) \/ out = Ok(Asked(a, Source(a.name)))
        \/ a.name \in sidecar.shared /\ out = Err /\ Missing(sidecar.other, a.name)
  BY <1>2, <1>3, <1>4, DraftServes
<1>6. asked \in Nat
  BY <1>1 DEF InScript
<1>7. /\ answer' = [ask |-> a, out |-> out, by |-> "draft"] /\ lkAt' \in {"draft", "panicked", "open"}
      /\ lkAt' = "draft" => asked' \in Nat /\ asked' < Len(script)
      /\ UNCHANGED <<model, target, device, loading, sidecar, script>>
  BY <1>2, <1>6, GivenIs
<1>8. answer'.by = "draft" /\ answer'.ask = a /\ answer'.out = out
  BY <1>7
<1>9. LkAnswers'
  <2>1. OwnersRows'
    BY <1>8 DEF OwnersRows
  <2>2. VerifiedIsEnough'
    BY <1>8 DEF VerifiedIsEnough
  <2>3. DraftFindsOriginal'
    <3>1. PICK t : t = Named(sidecar.original.tensors, a.name)
      OBVIOUS
    <3>2. Source(a.name) = IF t.name \in sidecar.shared THEN t ELSE Repacked(t)
      BY <3>1, Zenon DEF Source
    <3>6. t.name = a.name
      BY <1>4, <3>1, NamedIs DEF HasFor
    <3>3. SameModel => \/ BeyondRows(a, t) \/ out = Ok(Asked(a, Source(a.name)))
                       \/ t.name \in sidecar.shared /\ out = Err /\ Missing(sidecar.other, t.name)
      BY <1>5, <3>1, <3>6
    <3>4. SameModel => \/ BeyondRows(a, t) \/ (out.is = "ok" /\ out.rows = Asked(a, Source(a.name)))
                       \/ t.name \in sidecar.shared /\ out = Err /\ Missing(sidecar.other, t.name)
      BY <3>3, ReadsAre
    <3>5. QED BY <1>7, <1>8, <3>1, <3>2, <3>4, Zenon DEF DraftFindsOriginal, SameModel
  <2>4. QED BY <2>1, <2>2, <2>3 DEF LkAnswers, VerifiedServes
<1>10. DraftHeld'
  <2>1. SameModel' = SameModel /\ \A name : Source(name)' = Source(name)
    BY <1>7, SidecarStays
  <2>2. SUFFICES ASSUME SameModel, NEW name \in DOMAIN draftMemo'
                 PROVE  Has(sidecar.original.tensors, name) /\ draftMemo'[name] = CellsOf(Source(name))
    BY <1>7, <2>1, Zenon DEF DraftHeld
  <2>3. name \in DOMAIN draftMemo =>
          Has(sidecar.original.tensors, name) /\ draftMemo[name] = CellsOf(Source(name))
    BY <1>3, <2>2 DEF DraftHeld
  <2>4. CASE a.fn \in {"vec", "vec_rows"} /\ out.is = "ok" /\ a.name \notin DOMAIN draftMemo
    <3>1. draftMemo' = [x \in DOMAIN draftMemo \cup {a.name} |-> IF x = a.name THEN out.rows ELSE draftMemo[x]]
      BY <1>2, <2>4, Zenon DEF Remember
    <3>2. Asked(a, Source(a.name)) = CellsOf(Source(a.name))
      BY <2>4 DEF Asked
    <3>3. ~BeyondRows(a, Named(sidecar.original.tensors, a.name))
      BY <2>4 DEF BeyondRows
    <3>7. out # Err
      BY <2>4, ReadsAre
    <3>4. out.rows = CellsOf(Source(a.name))
      BY <1>5, <2>2, <3>2, <3>3, <3>7, ReadsAre
    <3>5. Has(sidecar.original.tensors, a.name)
      BY <1>4 DEF HasFor
    <3>6. QED BY <2>3, <3>1, <3>4, <3>5
  <2>5. CASE ~(a.fn \in {"vec", "vec_rows"} /\ out.is = "ok" /\ a.name \notin DOMAIN draftMemo)
    <3>1. draftMemo' = draftMemo
      BY <1>2, <2>5, Zenon DEF Remember
    <3>2. QED BY <2>2, <2>3, <3>1
  <2>6. QED BY <2>4, <2>5
<1>11. LkSidecar'
  BY <1>3, <1>7, <1>10, SidecarStays, Zenon DEF LkSidecar
<1>12. LkHeld'
  BY <1>7, FilesStay DEF LkInv, LkHeld
<1>13. LkScript'
  <2>1. lkAt' = "draft" => InScript(DraftAsks(sidecar.original.cfg, tok))'
    BY <1>1, <1>7 DEF InScript
  <2>2. QED BY <1>3, <1>7, <1>8, <2>1 DEF LkScript
<1>14. LkPlaces'
  BY <1>3, <1>7, FilesStay DEF LkPlaces
<1>15. QED BY <1>9, <1>11, <1>12, <1>13, <1>14 DEF LkInv

\* Every step keeps the invariant.
LEMMA LkStep ==
  ASSUME LkInv, [LkNext]_lkVars
  PROVE  LkInv'
<1>1. CASE UNCHANGED lkVars
  <2>1. UNCHANGED <<lkAt, model, target, device, loading, memo, draftMemo, sidecar, script, asked, answer>>
    BY <1>1 DEF lkVars
  <2>2. LkPlaces'
    BY <2>1, FilesStay DEF LkInv, LkPlaces, LkNothing
  <2>3. LkHeld'
    BY <2>1, FilesStay, Zenon DEF LkInv, LkHeld, Uploading
  <2>4. LkSidecar' /\ LkAnswers'
    BY <2>1, LkSidecarStays, LkAnswersStay DEF LkInv
  <2>5. LkScript'
    BY <2>1, Zenon DEF LkInv, LkScript, InScript
  <2>6. QED BY <2>2, <2>3, <2>4, <2>5 DEF LkInv
<1>2. CASE LkNext
  <2>1. CASE \E m \in DOMAIN Models, lost \in Losses : OpenModel(m, lost)
    BY <2>1, LkOpenModel
  <2>2. CASE EnableGpu
    BY <2>2, LkEnableGpu
  <2>3. CASE UploadNext
    BY <2>3, LkUploadNext
  <2>4. CASE UploadDone
    BY <2>4, LkUploadDone
  <2>5. CASE UploadFails
    BY <2>5, LkUploadFails
  <2>6. CASE \E o \in Originals, ref \in References \cup {None}, other \in {target, EmptyFile} :
               OpenSidecar(o, ref, other)
    BY <2>6, LkOpenSidecar, Zenon
  <2>7. CASE \E tok \in AskedTokens : BeginForward(tok) \/ BeginDraft(tok)
    BY <2>7, LkBeginForward, LkBeginDraft
  <2>8. CASE Answer
    BY <2>8, LkForwardAnswer, LkDraftAnswer DEF Answer
  <2>9. CASE DeviceFails
    BY <2>9, LkDeviceFails
  <2>10. QED BY <1>2, <2>1, <2>2, <2>3, <2>4, <2>5, <2>6, <2>7, <2>8, <2>9, Zenon DEF LkNext
<1>3. QED BY <1>1, <1>2

\* Every step of every run keeps the invariant.
THEOREM LookupInvariant == LkSpec => []LkInv
<1>1. LkInit => LkInv
  BY LkInitHolds
<1>2. LkInv /\ [LkNext]_lkVars => LkInv'
  BY LkStep
<1>3. QED BY <1>1, <1>2, PTL DEF LkSpec

\* A model that passed verify serves every forward pass.
THEOREM VerifiedModelServes == LkSpec => []VerifiedServes
<1>1. LkInv => VerifiedServes
  BY DEF LkInv, LkAnswers
<1>2. QED BY <1>1, LookupInvariant, PTL

\* A draft finds what the original sidecar had.
THEOREM DraftFindsItsTensors == LkSpec => []DraftFindsOriginal
<1>1. LkInv => DraftFindsOriginal
  BY DEF LkInv, LkAnswers
<1>2. QED BY <1>1, LookupInvariant, PTL

-----------------------------------------------------------------------------
\* GgufFile: what is written, and what is read back of it.

-----------------------------------------------------------------------------
\* Sizes in a file: of a payload, of its place in the data section, of a header.
Sized(t) == t.dims \in Seq(Nat \ {0}) /\ t.ty \in {0, 1, 3, 30, 34, 42, 142}
IsList(ts, n) == n \in Nat /\ ts = [i \in 1..n |-> ts[i]]

\* A list as a sequence.
LEMMA ListIs ==
  ASSUME NEW n, NEW ts, IsList(ts, n)
  PROVE  ts \in Seq({ts[i] : i \in 1..n}) /\ Len(ts) = n /\ DOMAIN ts = 1..n /\ n \in Nat
<1>1. n \in Nat /\ DOMAIN ts = 1..n
  BY DEF IsList
<1>2. ts \in [1..n -> {ts[i] : i \in 1..n}]
  BY <1>1 DEF IsList
<1>3. ts \in Seq({ts[i] : i \in 1..n})
  BY <1>1, <1>2
<1>4. Len(ts) = n
  BY <1>1, <1>3
<1>5. QED BY <1>1, <1>3, <1>4

\* What is counted for each element of a list.
LEMMA CountsAre ==
  ASSUME NEW n, NEW ns, IsList(ns, n), \A i \in 1..n : ns[i] \in Nat
  PROVE  /\ ns \in Seq(Nat) /\ Len(ns) = n
         /\ Total(ns) \in Nat
         /\ \A i \in 0..n : Sums(ns)[i] \in Nat /\ Sums(ns)[i] <= Total(ns)
<1>1. Len(ns) = n /\ n \in Nat /\ DOMAIN ns = 1..n
  BY ListIs
<1>2. ns \in [1..n -> Nat]
  BY <1>1 DEF IsList
<1>3. ns \in Seq(Nat)
  BY <1>1, <1>2
<1>4. \A i \in 0..n : Sums(ns)[i] \in Nat /\ Sums(ns)[i] <= Sums(ns)[n]
  <2> SUFFICES ASSUME NEW i \in 0..n PROVE Sums(ns)[i] \in Nat /\ Sums(ns)[i] <= Sums(ns)[n]
    OBVIOUS
  <2>1. Sums(ns)[i] \in Nat
    BY <1>1, <1>3, SumsNat
  <2>2. n \in i..Len(ns) /\ i \in 0..Len(ns)
    BY <1>1
  <2>3. QED BY <1>3, <2>1, <2>2, SumsGrow
<1>5. n \in 0..n
  BY <1>1
<1>6. QED BY <1>1, <1>3, <1>4, <1>5 DEF Total

\* No payload is empty.
LEMMA NBytesPositive ==
  ASSUME NEW t, Sized(t)
  PROVE  NBytes(t) \in Nat \ {0}
<1>1. PICK p \in Nat \ {0} : p = Products(t.dims)[Len(t.dims)]
  <2>1. Len(t.dims) \in 0..Len(t.dims)
    BY DEF Sized
  <2>2. Products(t.dims)[Len(t.dims)] \in Nat \ {0}
    BY <2>1, ProductsPositive DEF Sized
  <2>3. QED BY <2>2
<1>2. PICK b : b = Block(t.ty)
  OBVIOUS
<1>3. NBytes(t) = ((p + b[1] - 1) \div b[1]) * b[2]
  BY <1>1, <1>2 DEF NBytes
<1>4. b \in {<<1, 4>>, <<1, 2>>, <<32, 20>>, <<128, 34>>, <<256, 54>>}
  BY <1>2 DEF Block, Sized
<1>5. CASE b = <<1, 4>>
  <2>1. b[1] = 1 /\ b[2] = 4
    BY <1>5
  <2>2. (p + 1 - 1) \div 1 = p
    OBVIOUS
  <2>3. QED BY <1>3, <2>1, <2>2
<1>6. CASE b = <<1, 2>>
  <2>1. b[1] = 1 /\ b[2] = 2
    BY <1>6
  <2>2. (p + 1 - 1) \div 1 = p
    OBVIOUS
  <2>3. QED BY <1>3, <2>1, <2>2
<1>7. CASE b = <<32, 20>>
  <2>1. b[1] = 32 /\ b[2] = 20
    BY <1>7
  <2>2. (p + 32 - 1) \div 32 \in Nat \ {0}
    OBVIOUS
  <2>3. QED BY <1>3, <2>1, <2>2
<1>8. CASE b = <<128, 34>>
  <2>1. b[1] = 128 /\ b[2] = 34
    BY <1>8
  <2>2. (p + 128 - 1) \div 128 \in Nat \ {0}
    OBVIOUS
  <2>3. QED BY <1>3, <2>1, <2>2
<1>9. CASE b = <<256, 54>>
  <2>1. b[1] = 256 /\ b[2] = 54
    BY <1>9
  <2>2. (p + 256 - 1) \div 256 \in Nat \ {0}
    OBVIOUS
  <2>3. QED BY <1>3, <2>1, <2>2
<1>10. QED BY <1>4, <1>5, <1>6, <1>7, <1>8, <1>9

\* Padding goes up.
LEMMA AlignedIs ==
  ASSUME NEW v \in Nat
  PROVE  AlignUp(v) \in Nat /\ v <= AlignUp(v)
<1>1. PICK k \in Nat \ {0} : k = Align
  BY GgufAssumption
<1>2. PICK m \in Nat : m = v + k - 1
  OBVIOUS
<1>3. PICK q \in Int, r \in 0..(k - 1) : q = m \div k /\ m = k * q + r
  <2>1. m \div k \in Int /\ m % k \in 0..(k - 1) /\ m = k * (m \div k) + (m % k)
    OBVIOUS
  <2>2. QED BY <2>1
<1>4. q * k = k * q
  OBVIOUS
<1>5. v <= q * k
  BY <1>2, <1>3, <1>4
<1>6. q * k \in Nat
  <2>1. q * k \in Int
    OBVIOUS
  <2>2. QED BY <1>5, <2>1
<1>7. AlignUp(v) = q * k
  BY <1>1, <1>2, <1>3 DEF AlignUp
<1>8. QED BY <1>5, <1>6, <1>7

\* A payload fits its padded place.
LEMMA PaddedIs ==
  ASSUME NEW t, Sized(t)
  PROVE  NBytes(t) \in Nat \ {0} /\ Padded(t) \in Nat /\ NBytes(t) <= Padded(t)
<1>1. NBytes(t) \in Nat \ {0}
  BY NBytesPositive
<1>2. QED BY <1>1, AlignedIs DEF Padded

\* Tensors one behind the other: each ends before the next, and the last at the end.
LEMMA BlocksAre ==
  ASSUME NEW n, NEW ts, IsList(ts, n), \A i \in 1..n : Sized(ts[i])
  PROVE  /\ Total(Blocks(ts)) \in Nat
         /\ \A i \in 1..n :
              /\ OffsetOf(ts, i) \in Nat
              /\ OffsetOf(ts, i) + Padded(ts[i]) <= Total(Blocks(ts))
              /\ \A j \in 1..n : i < j => OffsetOf(ts, i) + Padded(ts[i]) <= OffsetOf(ts, j)
<1>1. PICK ns : ns = Blocks(ts)
  OBVIOUS
<1>2. Len(ts) = n /\ DOMAIN ts = 1..n /\ n \in Nat /\ ts \in Seq({ts[i] : i \in 1..n})
  BY ListIs
<1>3. \A i \in 1..n : ns[i] = Padded(ts[i]) /\ ns[i] \in Nat
  <2>1. ASSUME NEW i \in 1..n PROVE ns[i] = Padded(ts[i]) /\ ns[i] \in Nat
    <3>1. ns[i] = Padded(ts[i])
      BY <1>1, <1>2 DEF Blocks
    <3>2. QED BY <3>1, PaddedIs
  <2>2. QED BY <2>1
<1>4. DOMAIN ns = DOMAIN ts /\ ns = [i \in DOMAIN ts |-> ns[i]]
  BY <1>1 DEF Blocks
<1>5. ns \in Seq(Nat) /\ Len(ns) = n /\ Total(ns) \in Nat
      /\ \A i \in 0..n : Sums(ns)[i] \in Nat /\ Sums(ns)[i] <= Total(ns)
  <2>1. IsList(ns, n)
    BY <1>2, <1>4 DEF IsList
  <2>2. \A i \in 1..n : ns[i] \in Nat
    BY <1>3
  <2>3. QED BY <2>1, <2>2, CountsAre
<1>6. \A i \in 1..n : Sums(ns)[i] = Sums(ns)[i - 1] + ns[i]
  BY <1>2, <1>5, SumsAre
<1>7. ASSUME NEW i \in 1..n, NEW j \in 1..n, i < j
      PROVE  Sums(ns)[i] <= Sums(ns)[j - 1]
  <2>1. i \in 0..Len(ns) /\ j - 1 \in i..Len(ns)
    BY <1>2, <1>5, <1>7
  <2>2. QED BY <1>5, <2>1, SumsGrow
<1>8. \A i \in 1..n : i - 1 \in 0..n /\ i \in 0..n
  BY <1>2
<1>9. ASSUME NEW i \in 1..n
      PROVE  /\ OffsetOf(ts, i) = Sums(ns)[i - 1] /\ OffsetOf(ts, i) \in Nat
             /\ OffsetOf(ts, i) + Padded(ts[i]) = Sums(ns)[i]
  <2>1. OffsetOf(ts, i) = Sums(ns)[i - 1]
    BY <1>1 DEF OffsetOf
  <2>2. Sums(ns)[i - 1] \in Nat /\ Sums(ns)[i] = Sums(ns)[i - 1] + Padded(ts[i])
    BY <1>3, <1>5, <1>6, <1>8
  <2>3. QED BY <2>1, <2>2
<1>10. ASSUME NEW i \in 1..n
       PROVE  OffsetOf(ts, i) + Padded(ts[i]) <= Total(ns)
  BY <1>5, <1>8, <1>9
<1>11. ASSUME NEW i \in 1..n, NEW j \in 1..n, i < j
       PROVE  OffsetOf(ts, i) + Padded(ts[i]) <= OffsetOf(ts, j)
  BY <1>7, <1>9, <1>11
<1>12. QED BY <1>1, <1>5, <1>9, <1>10, <1>11

\* Lists of tensors of the same sizes lie alike.
LEMMA BlocksAlike ==
  ASSUME NEW ts, NEW us, DOMAIN ts = DOMAIN us, \A i \in DOMAIN ts : Padded(ts[i]) = Padded(us[i])
  PROVE  Blocks(ts) = Blocks(us)
BY DEF Blocks

\* The legacy ternary id stands for the same size.
LEMMA SameSize ==
  ASSUME NEW t, NEW u, Sized(t), t.dims = u.dims, Normal(t.ty) = Normal(u.ty), u.ty \in {0, 1, 3, 30, 34, 42, 142}
  PROVE  NBytes(t) = NBytes(u) /\ Padded(t) = Padded(u) /\ Sized(u)
<1>1. Block(t.ty) = Block(u.ty)
  BY DEF Block, Normal, Sized
<1>2. NBytes(t) = NBytes(u)
  BY <1>1 DEF NBytes
<1>3. QED BY <1>2 DEF Padded, Sized

\* A metadata entry and a tensor's entry whose strings have lengths.
Metadatum(m) == m = [key |-> m.key, value |-> m.value] /\ NameLen(m.key) \in Nat /\ m.value \in Values
Entry(t) == Sized(t) /\ NameLen(t.name) \in Nat
Header(f) ==
  \E n, k :
    /\ IsList(f.meta, k) /\ \A i \in 1..k : Metadatum(f.meta[i])
    /\ IsList(f.index, n) /\ \A i \in 1..n : Entry(f.index[i])

\* A value has a width.
LEMMA WidthNat ==
  ASSUME NEW v \in Values
  PROVE  Width(v, Scalar) \in Nat
<1>1. \A t \in DOMAIN Scalar : Scalar[t] \in Nat /\ t # 8 /\ t # 9
  BY DEF Scalar
<1>2. CASE v \in [t : DOMAIN Scalar, x : Int]
  BY <1>1, <1>2 DEF Width
<1>3. CASE v \in [t : {8}, len : Nat, name : {"dspark", "dflash", "another"}]
  BY <1>3 DEF Width
<1>4. CASE v \in [t : {9}, e : DOMAIN Scalar \cup {8}, n : Nat, len : Nat]
  <2>1. v.t = 9 /\ v.n \in Nat /\ v.len \in Nat /\ v.e \in DOMAIN Scalar \cup {8}
    BY <1>4
  <2>2. PICK w : w = IF v.e = 8 THEN 8 + v.len ELSE Scalar[v.e]
    OBVIOUS
  <2>3. w \in Nat
    <3>1. CASE v.e = 8
      BY <2>1, <2>2, <3>1
    <3>2. CASE v.e # 8
      BY <1>1, <2>1, <2>2, <3>2
    <3>3. QED BY <3>1, <3>2
  <2>4. Width(v, Scalar) = 4 + 8 + v.n * w
    BY <2>1, <2>2 DEF Width
  <2>5. PICK z \in Nat : z = v.n
    BY <2>1
  <2>6. z * w \in Nat
    BY <2>3
  <2>7. QED BY <2>4, <2>5, <2>6
<1>5. QED BY <1>2, <1>3, <1>4 DEF Values

\* The metadata have an end.
LEMMA MetaEndNat ==
  ASSUME NEW k, NEW meta, IsList(meta, k), \A i \in 1..k : Metadatum(meta[i])
  PROVE  MetaEnd(meta, Scalar) \in Nat
<1>1. PICK ns : ns = [i \in DOMAIN meta |-> 8 + NameLen(meta[i].key) + 4 + Width(meta[i].value, Scalar)]
  OBVIOUS
<1>2. DOMAIN meta = 1..k /\ k \in Nat
  BY ListIs
<1>3. IsList(ns, k)
  BY <1>1, <1>2 DEF IsList
<1>4. \A i \in 1..k : ns[i] \in Nat
  <2>1. ASSUME NEW i \in 1..k PROVE ns[i] \in Nat
    <3>1. NameLen(meta[i].key) \in Nat /\ Width(meta[i].value, Scalar) \in Nat
      BY WidthNat DEF Metadatum
    <3>2. ns[i] = 8 + NameLen(meta[i].key) + 4 + Width(meta[i].value, Scalar)
      BY <1>1, <1>2
    <3>3. QED BY <3>1, <3>2
  <2>2. QED BY <2>1
<1>5. Total(ns) \in Nat
  BY <1>3, <1>4, CountsAre
<1>6. MetaEnd(meta, Scalar) = 4 + 4 + 8 + 8 + Total(ns)
  BY <1>1 DEF MetaEnd
<1>7. QED BY <1>5, <1>6

\* What is reserved for an entry is what is put there.
LEMMA InfoIs ==
  ASSUME NEW t, Entry(t)
  PROVE  InfoLen(t) = InfoPut(t) /\ InfoPut(t) \in Nat
<1>1. PICK d : d = t.dims
  OBVIOUS
<1>2. d \in Seq(Nat \ {0}) /\ Len(d) \in Nat /\ DOMAIN d = 1..Len(d)
  BY <1>1 DEF Entry, Sized
<1>3. PICK ns : ns = [k \in DOMAIN d |-> 8]
  OBVIOUS
<1>4. ns \in Seq(Nat) /\ Len(ns) = Len(d) /\ \A k \in 1..Len(ns) : ns[k] = 8
  <2>1. IsList(ns, Len(d))
    BY <1>2, <1>3 DEF IsList
  <2>2. Len(ns) = Len(d)
    BY <2>1, ListIs
  <2>3. \A k \in 1..Len(d) : ns[k] = 8 /\ ns[k] \in Nat
    BY <1>2, <1>3
  <2>4. ns \in Seq(Nat)
    BY <2>1, <2>3, CountsAre
  <2>5. QED BY <2>2, <2>3, <2>4
<1>5. Total(ns) = 8 * Len(d)
  BY <1>4, SumOfEights
<1>6. NameLen(t.name) \in Nat
  BY DEF Entry
<1>7. InfoLen(t) = 8 + NameLen(t.name) + 4 + 8 * Len(d) + 4 + 8
  BY <1>1 DEF InfoLen
<1>8. InfoPut(t) = (8 + NameLen(t.name)) + 4 + Total(ns) + 4 + 8
  BY <1>1, <1>3 DEF InfoPut
<1>9. QED BY <1>2, <1>5, <1>6, <1>7, <1>8

\* What is reserved for the entries is what is put there.
LEMMA InfosAre ==
  ASSUME NEW n, NEW ts, IsList(ts, n), \A i \in 1..n : Entry(ts[i])
  PROVE  InfosLen(ts) = InfosPut(ts)[Len(ts)] /\ InfosLen(ts) \in Nat
<1>1. PICK ns : ns = [i \in DOMAIN ts |-> InfoPut(ts[i])]
  OBVIOUS
<1>2. DOMAIN ts = 1..n /\ n \in Nat /\ Len(ts) = n
  BY ListIs
<1>3. \A i \in 1..n : ns[i] = InfoPut(ts[i]) /\ InfoLen(ts[i]) = InfoPut(ts[i]) /\ ns[i] \in Nat
  BY <1>1, <1>2, InfoIs
<1>4. ns = [i \in DOMAIN ts |-> InfoLen(ts[i])]
  BY <1>1, <1>2, <1>3
<1>5. IsList(ns, n)
  BY <1>1, <1>2 DEF IsList
<1>6. Len(ns) = n /\ Total(ns) \in Nat
  BY <1>3, <1>5, CountsAre
<1>7. InfosLen(ts) = Total(ns)
  BY <1>4 DEF InfosLen
<1>8. InfosPut(ts)[Len(ts)] = Total(ns)
  BY <1>1, <1>2, <1>6 DEF InfosPut, Total
<1>9. QED BY <1>6, <1>7, <1>8

\* The data section begins where the writers say, behind the header.
LEMMA StartIs ==
  ASSUME NEW f, Header(f)
  PROVE  /\ HeaderEnd(f) \in Nat /\ DataStart(f) \in Nat /\ HeaderEnd(f) <= DataStart(f)
         /\ AlignUp(MetaEnd(f.meta, Scalar) + InfosLen(f.index)) = DataStart(f)
         /\ DataStart(f) <= AlignUp(DataStart(f))
<1>1. MetaEnd(f.meta, Scalar) \in Nat
  BY MetaEndNat DEF Header
<1>2. InfosLen(f.index) = InfosPut(f.index)[Len(f.index)] /\ InfosLen(f.index) \in Nat
  BY InfosAre DEF Header
<1>3. HeaderEnd(f) = MetaEnd(f.meta, Scalar) + InfosLen(f.index)
  BY <1>2 DEF HeaderEnd
<1>4. HeaderEnd(f) \in Nat
  BY <1>1, <1>2, <1>3
<1>5. AlignUp(HeaderEnd(f)) \in Nat /\ HeaderEnd(f) <= AlignUp(HeaderEnd(f))
  BY <1>4, AlignedIs
<1>6. AlignUp(HeaderEnd(f)) = DataStart(f)
  BY DEF DataStart
<1>7. DataStart(f) <= AlignUp(DataStart(f))
  BY <1>5, <1>6, AlignedIs
<1>8. QED BY <1>3, <1>4, <1>5, <1>6, <1>7

-----------------------------------------------------------------------------
\* Reads: payloads that share no byte are each read as they were written.
Apart2(w, v) == w.at + w.n <= v.at \/ v.at + v.n <= w.at
Spans(f) ==
  /\ \E n \in Nat : DOMAIN f.data = 1..n
  /\ \A k \in DOMAIN f.data : f.data[k].at \in Int /\ f.data[k].n \in Nat \ {0}
  /\ \A k, j \in DOMAIN f.data : f.data[k] = f.data[j] \/ Apart2(f.data[k], f.data[j])

\* A bounded set of numbers has a last one.
LEMMA LastOf ==
  ASSUME NEW n \in Nat, NEW T \in SUBSET (1..n), T # {}
  PROVE  \E m \in T : \A k \in T : k <= m
<1>1. PICK R : R = {n - k : k \in T}
  OBVIOUS
<1>2. R \in SUBSET Nat /\ R # {}
  <2>1. ASSUME NEW k \in T PROVE n - k \in Nat
    <3>1. k \in 1..n
      OBVIOUS
    <3>2. QED BY <3>1
  <2>2. QED BY <1>1, <2>1
<1>3. PICK r \in R : \A k \in R : r <= k
  BY <1>2, LeastNat, Zenon
<1>4. PICK m \in T : r = n - m
  BY <1>1, <1>3
<1>5. ASSUME NEW k \in T PROVE k <= m
  <2>1. r <= n - k
    BY <1>1, <1>3
  <2>2. QED BY <1>4, <2>1
<1>6. QED BY <1>5

\* A read of a payload's place gives that payload, if the file reaches so far.
LEMMA ReadsOwn ==
  ASSUME NEW f, NEW k \in DOMAIN f.data, Spans(f)
  PROVE  Reads(f, f.data[k].at, f.data[k].n) =
           IF f.data[k].at + f.data[k].n > f.len THEN PastEnd ELSE f.data[k].of
<1> DEFINE over == {j \in DOMAIN f.data : f.data[j].at < f.data[k].at + f.data[k].n
                                          /\ f.data[j].at + f.data[j].n > f.data[k].at}
<1>0. PICK n \in Nat : DOMAIN f.data = 1..n
  BY DEF Spans
<1>1. k \in over
  BY DEF Spans
<1>2. ASSUME NEW j \in over PROVE f.data[j] = f.data[k]
  <2>1. CASE Apart2(f.data[j], f.data[k])
    <3>1. f.data[j].at \in Int /\ f.data[k].at \in Int /\ f.data[j].n \in Nat /\ f.data[k].n \in Nat
      BY DEF Spans
    <3>2. f.data[j].at < f.data[k].at + f.data[k].n /\ f.data[j].at + f.data[j].n > f.data[k].at
      OBVIOUS
    <3>3. QED BY <2>1, <3>1, <3>2 DEF Apart2
  <2>2. CASE f.data[j] = f.data[k]
    BY <2>2
  <2>3. j \in DOMAIN f.data
    OBVIOUS
  <2>4. QED BY <2>1, <2>2, <2>3, Zenon DEF Spans
<1>3. \E l \in over : \A j \in over : j <= l
  <2>1. over \in SUBSET (1..n) /\ over # {}
    BY <1>0, <1>1
  <2> HIDE DEF over
  <2>2. QED BY <2>1, LastOf, Zenon
<1>4. PICK l \in over : l = CHOOSE m \in over : \A j \in over : j <= m
  BY <1>3, Zenon
<1>5. Reads(f, f.data[k].at, f.data[k].n) =
        IF f.data[k].at + f.data[k].n > f.len THEN PastEnd
        ELSE IF over = {} THEN Hole
        ELSE IF f.data[l].at = f.data[k].at /\ f.data[l].n = f.data[k].n THEN f.data[l].of ELSE Mixed
  BY <1>4 DEF Reads
<1>6. f.data[l] = f.data[k]
  BY <1>2
<1>7. QED BY <1>1, <1>5, <1>6, Zenon

-----------------------------------------------------------------------------
\* A file that another program wrote: whatever the order of its data, no two payloads
\* share a byte.
Info(t) ==
  /\ t = [name |-> t.name, dims |-> t.dims, ty |-> t.ty, offset |-> t.offset]
  /\ Entry(t) /\ t.offset \in Nat
Renamed(t) == NameLen(NewName(t.name)) \in Nat
KeysRenamed(m) == \A k \in DOMAIN NewKey(m.key) : NameLen(NewKey(m.key)[k]) \in Nat
Lying(f, n, o) ==
  \A a, b \in 1..n : a < b => f.index[o[a]].offset + Padded(f.index[o[a]]) <= f.index[o[b]].offset
PayloadsOf(f, n) ==
  f.data = [i \in 1..n |-> [at |-> DataStart(f) + f.index[i].offset, n |-> NBytes(f.index[i]), of |-> i]]

SourceMeta(meta) == \E k : IsList(meta, k) /\ \A i \in 1..k : Metadatum(meta[i]) /\ KeysRenamed(meta[i])
SourceIndex(ts, n) == IsList(ts, n) /\ \A i \in 1..n : Info(ts[i]) /\ Renamed(ts[i])
IsSource(f, n) ==
  /\ n \in Nat \ {0}
  /\ SourceMeta(f.meta) /\ SourceIndex(f.index, n)
  /\ \E o \in Orders(n) : Lying(f, n, o)
  /\ PayloadsOf(f, n)
  /\ f.len \in Int

\* An order has each place once.
LEMMA OrderIs ==
  ASSUME NEW n \in Nat, NEW o \in Orders(n)
  PROVE  /\ \A i \in 1..n : o[i] \in 1..n
         /\ \A k \in 1..n : \E i \in 1..n : o[i] = k
         /\ \A i, j \in 1..n : o[i] = o[j] => i = j
         /\ DOMAIN o = 1..n
<1>1. o \in [1..n -> 1..n] /\ \A k \in 1..n : \E i \in 1..n : \A j \in 1..n : o[j] = k <=> i = j
  BY DEF Orders
<1>2. ASSUME NEW k \in 1..n PROVE \E i \in 1..n : o[i] = k
  <2>1. PICK i \in 1..n : \A j \in 1..n : o[j] = k <=> i = j
    BY <1>1
  <2>2. QED BY <2>1
<1>3. ASSUME NEW i \in 1..n, NEW j \in 1..n, o[i] = o[j] PROVE i = j
  <2>1. o[i] \in 1..n
    BY <1>1
  <2>2. PICK l \in 1..n : \A q \in 1..n : o[q] = o[i] <=> l = q
    BY <1>1, <2>1
  <2>3. QED BY <1>3, <2>2
<1>4. (\A i \in 1..n : o[i] \in 1..n) /\ DOMAIN o = 1..n
  BY <1>1
<1>5. QED BY <1>2, <1>3, <1>4

\* The metadata of a source.
LEMMA MetasAre ==
  ASSUME NEW meta \in Metas
  PROVE  SourceMeta(meta)
<1>1. PICK K : meta \in Seq([key : K, value : Values])
  BY GgufAssumption
<1>2. PICK k : k = Len(meta)
  OBVIOUS
<1>3. k \in Nat /\ DOMAIN meta = 1..k /\ meta = [i \in 1..k |-> meta[i]]
  BY <1>1, <1>2
<1>4. IsList(meta, k)
  BY <1>3 DEF IsList
<1>5. ASSUME NEW i \in 1..k PROVE Metadatum(meta[i]) /\ KeysRenamed(meta[i])
  <2>1. meta[i] \in [key : K, value : Values]
    <3>1. PICK E : E = [key : K, value : Values]
      OBVIOUS
    <3>2. meta \in Seq(E) /\ i \in 1..Len(meta)
      BY <1>1, <1>2, <3>1
    <3>3. meta[i] \in E
      BY <3>2
    <3>4. QED BY <3>1, <3>3
  <2>2. NameLen(meta[i].key) \in Nat /\ KeysRenamed(meta[i])
    BY <1>3, StringsHaveLengths DEF KeysRenamed
  <2>3. QED BY <2>1, <2>2 DEF Metadatum
<1>6. QED BY <1>4, <1>5, Zenon DEF SourceMeta

\* The tensors of a source.
LEMMA ListsAre ==
  ASSUME NEW ts \in Lists
  PROVE  /\ Len(ts) \in Nat \ {0} /\ IsList(ts, Len(ts))
         /\ \A i \in 1..Len(ts) : Entry(ts[i]) /\ Renamed(ts[i])
<1>1. PICK k \in 1..MaxTensors : ts \in [1..k -> Tensors]
  BY DEF Lists
<1>2. k \in Nat \ {0} /\ IsList(ts, k)
  BY <1>1, GgufAssumption DEF IsList
<1>3. Len(ts) = k
  BY <1>2, ListIs
<1>4. ASSUME NEW i \in 1..k PROVE Entry(ts[i]) /\ Renamed(ts[i])
  <2>1. ts[i] \in Tensors
    BY <1>1
  <2>2. Sized(ts[i])
    BY <2>1, GgufAssumption DEF Sized
  <2>3. NameLen(ts[i].name) \in Nat /\ NameLen(NewName(ts[i].name)) \in Nat
    BY <2>1, StringsHaveLengths
  <2>4. QED BY <2>2, <2>3 DEF Entry, Renamed
<1>5. QED BY <1>2, <1>3, <1>4

\* Every file a source can be is laid out as IsSource says.
LEMMA SourceIs ==
  ASSUME NEW meta \in Metas, NEW ts \in Lists, NEW order \in Orders(Len(ts)), NEW whole \in BOOLEAN
  PROVE  IsSource(SourceFile(meta, ts, order, whole), Len(ts))
<1>1. PICK n : n = Len(ts)
  OBVIOUS
<1>2. /\ n \in Nat \ {0} /\ IsList(ts, n) /\ order \in Orders(n)
      /\ \A i \in 1..n : Entry(ts[i]) /\ Renamed(ts[i])
  BY <1>1, ListsAre
<1>3. /\ DOMAIN ts = 1..n /\ DOMAIN order = 1..n
      /\ \A i \in 1..n : order[i] \in 1..n
      /\ \A i \in 1..n : \E k \in 1..n : order[k] = i
      /\ \A i, j \in 1..n : order[i] = order[j] => i = j
  <2>1. DOMAIN ts = 1..n
    BY <1>2, ListIs
  <2>2. /\ \A i \in 1..n : order[i] \in 1..n
        /\ \A k \in 1..n : \E i \in 1..n : order[i] = k
        /\ \A i, j \in 1..n : order[i] = order[j] => i = j
        /\ DOMAIN order = 1..n
    BY <1>2, OrderIs
  <2>3. QED BY <2>1, <2>2
<1>4. PICK place : place = [i \in 1..n |-> CHOOSE k \in DOMAIN order : order[k] = i]
  OBVIOUS
<1>5. ASSUME NEW i \in 1..n PROVE place[i] \in 1..n /\ order[place[i]] = i
  <2>1. \E k \in DOMAIN order : order[k] = i
    BY <1>3
  <2>2. place[i] = CHOOSE k \in DOMAIN order : order[k] = i
    BY <1>4
  <2>3. QED BY <1>3, <2>1, <2>2, Zenon
<1>6. PICK lying : lying = [k \in DOMAIN order |-> ts[order[k]]]
  OBVIOUS
<1>7. IsList(lying, n) /\ \A k \in 1..n : lying[k] = ts[order[k]] /\ Sized(lying[k])
  BY <1>2, <1>3, <1>6 DEF IsList, Entry
<1>8. /\ Total(Blocks(lying)) \in Nat
      /\ \A i \in 1..n :
           /\ OffsetOf(lying, i) \in Nat
           /\ \A j \in 1..n : i < j => OffsetOf(lying, i) + Padded(lying[i]) <= OffsetOf(lying, j)
  BY <1>7, BlocksAre
<1>9. PICK f : f = SourceFile(meta, ts, order, whole)
  OBVIOUS
<1>10. PICK index : index = [i \in DOMAIN ts |->
                  [name |-> ts[i].name, dims |-> ts[i].dims, ty |-> ts[i].ty,
                   offset |-> OffsetOf(lying, CHOOSE k \in DOMAIN order : order[k] = i)]]
  OBVIOUS
<1>11. PICK start : start = DataStart([meta |-> meta, index |-> index])
  OBVIOUS
<1>12. f = [meta |-> meta, index |-> index,
            len |-> start + Total(Blocks(lying)) - (IF whole THEN 0 ELSE Align),
            data |-> [i \in DOMAIN ts |->
                        [at |-> start + index[i].offset, n |-> NBytes(ts[i]), of |-> i]]]
  BY <1>6, <1>9, <1>10, <1>11, Zenon DEF SourceFile
<1>13. f.meta = meta /\ f.index = index
       /\ f.len = start + Total(Blocks(lying)) - (IF whole THEN 0 ELSE Align)
       /\ f.data = [i \in 1..n |-> [at |-> start + index[i].offset, n |-> NBytes(ts[i]), of |-> i]]
  BY <1>3, <1>12
<1>14. ASSUME NEW i \in 1..n
       PROVE  /\ index[i] = [name |-> ts[i].name, dims |-> ts[i].dims, ty |-> ts[i].ty,
                             offset |-> OffsetOf(lying, place[i])]
              /\ index[i].name = ts[i].name /\ index[i].dims = ts[i].dims /\ index[i].ty = ts[i].ty
              /\ index[i].offset = OffsetOf(lying, place[i]) /\ index[i].offset \in Nat
  <2>1. place[i] = CHOOSE k \in DOMAIN order : order[k] = i
    BY <1>4
  <2>2. index[i] = [name |-> ts[i].name, dims |-> ts[i].dims, ty |-> ts[i].ty,
                    offset |-> OffsetOf(lying, place[i])]
    BY <1>3, <1>10, <2>1, Zenon
  <2>3. OffsetOf(lying, place[i]) \in Nat
    BY <1>5, <1>8
  <2>4. QED BY <2>2, <2>3
<1>15. \A i \in 1..n : Padded(index[i]) = Padded(ts[i]) /\ NBytes(index[i]) = NBytes(ts[i])
  BY <1>14 DEF Padded, NBytes
<1>16. SourceMeta(f.meta)
  BY <1>13, MetasAre
<1>17. SourceIndex(f.index, n)
  <2>1. IsList(index, n)
    BY <1>2, <1>3, <1>10 DEF IsList
  <2>2. ASSUME NEW i \in 1..n PROVE Info(index[i]) /\ Renamed(index[i])
    <3>1. Entry(ts[i]) /\ Renamed(ts[i])
      BY <1>2
    <3>2. Entry(index[i]) /\ Renamed(index[i])
      BY <1>14, <3>1 DEF Entry, Renamed, Sized
    <3>3. QED BY <1>14, <3>2 DEF Info
  <2>3. QED BY <1>13, <2>1, <2>2 DEF SourceIndex
<1>18. start = DataStart(f)
  BY <1>11, <1>13 DEF DataStart, HeaderEnd
<1>19. start \in Nat
  <2>1. Header(f)
    BY <1>16, <1>17 DEF Header, SourceMeta, SourceIndex, Info
  <2>2. QED BY <1>18, <2>1, StartIs
<1>20. Lying(f, n, order)
  <2>1. SUFFICES ASSUME NEW a \in 1..n, NEW b \in 1..n, a < b
                 PROVE  f.index[order[a]].offset + Padded(f.index[order[a]]) <= f.index[order[b]].offset
    BY DEF Lying
  <2>2. place[order[a]] = a /\ place[order[b]] = b /\ order[a] \in 1..n /\ order[b] \in 1..n
    <3>1. ASSUME NEW c \in 1..n PROVE order[c] \in 1..n /\ place[order[c]] = c
      <4>1. order[c] \in 1..n
        BY <1>3
      <4>2. place[order[c]] \in 1..n /\ order[place[order[c]]] = order[c]
        BY <1>5, <4>1
      <4>3. QED BY <1>3, <4>1, <4>2
    <3>2. QED BY <3>1
  <2>3. Padded(lying[a]) = Padded(index[order[a]])
    BY <1>7, <1>15, <2>2
  <2>4. index[order[a]].offset = OffsetOf(lying, a) /\ index[order[b]].offset = OffsetOf(lying, b)
    BY <1>14, <2>2
  <2>5. QED BY <1>8, <1>13, <2>1, <2>3, <2>4
<1>21. PayloadsOf(f, n)
  <2>1. \A i \in 1..n : NBytes(ts[i]) = NBytes(f.index[i])
    BY <1>13, <1>15
  <2>2. QED BY <1>13, <1>18, <2>1 DEF PayloadsOf
<1>22. f.len \in Int
  BY <1>8, <1>13, <1>19, GgufAssumption
<1>23. QED BY <1>1, <1>2, <1>9, <1>16, <1>17, <1>20, <1>21, <1>22 DEF IsSource

\* What GGUF::open makes of an index: the legacy ternary id is gone, the more is as it was.
LEMMA OpenedIs ==
  ASSUME NEW f, NEW n, IsList(f.index, n), \A i \in 1..n : Info(f.index[i])
  PROVE  /\ IsList(Opened(f), n) /\ Len(Opened(f)) = n /\ DOMAIN Opened(f) = 1..n
         /\ \A i \in 1..n :
              /\ Info(Opened(f)[i])
              /\ Opened(f)[i].name = f.index[i].name /\ Opened(f)[i].dims = f.index[i].dims
              /\ Opened(f)[i].ty = Normal(f.index[i].ty) /\ Opened(f)[i].offset = f.index[i].offset
              /\ NBytes(Opened(f)[i]) = NBytes(f.index[i])
              /\ Padded(Opened(f)[i]) = Padded(f.index[i])
<1>1. DOMAIN f.index = 1..n /\ n \in Nat
  BY ListIs
<1>2. IsList(Opened(f), n)
  BY <1>1 DEF IsList, Opened
<1>3. ASSUME NEW i \in 1..n
      PROVE  /\ Info(Opened(f)[i])
             /\ Opened(f)[i].name = f.index[i].name /\ Opened(f)[i].dims = f.index[i].dims
             /\ Opened(f)[i].ty = Normal(f.index[i].ty) /\ Opened(f)[i].offset = f.index[i].offset
             /\ NBytes(Opened(f)[i]) = NBytes(f.index[i])
             /\ Padded(Opened(f)[i]) = Padded(f.index[i])
  <2>1. PICK t : t = f.index[i]
    OBVIOUS
  <2>2. PICK u : u = Opened(f)[i]
    OBVIOUS
  <2>3. u = [t EXCEPT !.ty = Normal(t.ty)]
    BY <1>1, <2>1, <2>2 DEF Opened
  <2>4. t = [name |-> t.name, dims |-> t.dims, ty |-> t.ty, offset |-> t.offset] /\ Entry(t) /\ t.offset \in Nat
    BY <2>1 DEF Info
  <2>5. u = [name |-> t.name, dims |-> t.dims, ty |-> Normal(t.ty), offset |-> t.offset]
    BY <2>3, <2>4
  <2>6. u.name = t.name /\ u.dims = t.dims /\ u.ty = Normal(t.ty) /\ u.offset = t.offset
    BY <2>5
  <2>7. Normal(u.ty) = Normal(t.ty) /\ u.ty \in {0, 1, 3, 30, 34, 42, 142}
    BY <2>4, <2>6 DEF Normal, Entry, Sized
  <2>8. NBytes(u) = NBytes(t) /\ Padded(u) = Padded(t) /\ Sized(u)
    <3>1. Sized(t) /\ t.dims = u.dims
      BY <2>4, <2>6 DEF Entry
    <3>2. QED BY <2>7, <3>1, SameSize
  <2>9. Info(u)
    BY <2>4, <2>5, <2>6, <2>8 DEF Info, Entry
  <2>10. QED BY <2>1, <2>2, <2>6, <2>8, <2>9
<1>4. Len(Opened(f)) = n /\ DOMAIN Opened(f) = 1..n
  BY <1>2, ListIs
<1>5. QED BY <1>2, <1>3, <1>4

\* No two payloads of a source share a byte, and each is read as it lies.
LEMMA SourceHeader ==
  ASSUME NEW f, NEW n, IsSource(f, n)
  PROVE  /\ Header(f) /\ DataStart(f) \in Nat /\ HeaderEnd(f) \in Nat
         /\ IsList(f.index, n) /\ DOMAIN f.index = 1..n /\ Len(f.index) = n
         /\ \A i \in 1..n : Info(f.index[i]) /\ Renamed(f.index[i])
<1>1. SourceIndex(f.index, n) /\ SourceMeta(f.meta)
  BY DEF IsSource
<1>2. Header(f)
  BY <1>1 DEF Header, SourceMeta, SourceIndex, Info
<1>3. DataStart(f) \in Nat /\ HeaderEnd(f) \in Nat
  BY <1>2, StartIs
<1>4. IsList(f.index, n) /\ \A i \in 1..n : Info(f.index[i]) /\ Renamed(f.index[i])
  BY <1>1 DEF SourceIndex
<1>5. DOMAIN f.index = 1..n /\ Len(f.index) = n
  BY <1>4, ListIs
<1>6. QED BY <1>2, <1>3, <1>4, <1>5

\* Two tensors of a source lie one before the other.
LEMMA SourceApart ==
  ASSUME NEW f, NEW n, IsSource(f, n), NEW i \in 1..n, NEW j \in 1..n, i # j
  PROVE  \/ f.index[i].offset + Padded(f.index[i]) <= f.index[j].offset
         \/ f.index[j].offset + Padded(f.index[j]) <= f.index[i].offset
<1>1. PICK o \in Orders(n) : Lying(f, n, o)
  BY DEF IsSource
<1>2. n \in Nat
  BY DEF IsSource
<1>3. \A k \in 1..n : \E a \in 1..n : o[a] = k
  BY <1>2, OrderIs
<1>4. PICK a \in 1..n : o[a] = i
  BY <1>3
<1>5. PICK b \in 1..n : o[b] = j
  BY <1>3
<1>6. a < b \/ b < a
  BY <1>4, <1>5
<1>7. QED BY <1>1, <1>4, <1>5, <1>6 DEF Lying

\* Its payloads, where they lie.
LEMMA SourceSpans ==
  ASSUME NEW f, NEW n, IsSource(f, n)
  PROVE  /\ Spans(f) /\ DOMAIN f.data = 1..n
         /\ \A i \in 1..n : /\ f.data[i].at = DataStart(f) + f.index[i].offset
                            /\ f.data[i].n = NBytes(f.index[i]) /\ f.data[i].of = i
<1>1. DataStart(f) \in Nat /\ \A i \in 1..n : Info(f.index[i])
  BY SourceHeader
<1>2. DOMAIN f.data = 1..n /\ n \in Nat
      /\ \A i \in 1..n : /\ f.data[i].at = DataStart(f) + f.index[i].offset
                         /\ f.data[i].n = NBytes(f.index[i]) /\ f.data[i].of = i
  BY DEF IsSource, PayloadsOf
<1>3. ASSUME NEW i \in 1..n
      PROVE  /\ f.index[i].offset \in Nat /\ Padded(f.index[i]) \in Nat
             /\ NBytes(f.index[i]) \in Nat \ {0} /\ NBytes(f.index[i]) <= Padded(f.index[i])
  <2>1. Sized(f.index[i]) /\ f.index[i].offset \in Nat
    BY <1>1 DEF Info, Entry
  <2>2. QED BY <2>1, PaddedIs
<1>4. ASSUME NEW i \in 1..n, NEW j \in 1..n, i # j
      PROVE  Apart2(f.data[i], f.data[j])
  <2>1. \/ f.index[i].offset + Padded(f.index[i]) <= f.index[j].offset
        \/ f.index[j].offset + Padded(f.index[j]) <= f.index[i].offset
    BY <1>4, SourceApart
  <2>2. PICK s \in Nat : s = DataStart(f)
    BY <1>1
  <2>3. PICK x \in Nat, z \in Nat, u \in Nat, w \in Nat :
          /\ x = f.index[i].offset /\ z = f.index[j].offset
          /\ u = Padded(f.index[i]) /\ w = Padded(f.index[j])
    BY <1>3
  <2>4. PICK m \in Nat, k \in Nat : m = NBytes(f.index[i]) /\ k = NBytes(f.index[j]) /\ m <= u /\ k <= w
    BY <1>3, <2>3
  <2>5. f.data[i].at = s + x /\ f.data[i].n = m /\ f.data[j].at = s + z /\ f.data[j].n = k
    BY <1>2, <2>2, <2>3, <2>4
  <2>6. x + u <= z \/ z + w <= x
    BY <2>1, <2>3
  <2>7. (s + x) + m <= s + z \/ (s + z) + k <= s + x
    BY <2>4, <2>6
  <2>8. QED BY <2>5, <2>7 DEF Apart2
<1>5. ASSUME NEW i \in 1..n PROVE f.data[i].at \in Int /\ f.data[i].n \in Nat \ {0}
  <2>1. f.data[i].at = DataStart(f) + f.index[i].offset /\ f.data[i].n = NBytes(f.index[i])
    BY <1>2
  <2>2. QED BY <1>1, <1>3, <2>1
<1>6. Spans(f)
  <2>1. \A k, j \in DOMAIN f.data : f.data[k] = f.data[j] \/ Apart2(f.data[k], f.data[j])
    BY <1>2, <1>4
  <2>2. QED BY <1>2, <1>5, <2>1 DEF Spans
<1>7. QED BY <1>2, <1>6

\* Each is read where it lies.
LEMMA SourceReads ==
  ASSUME NEW f, NEW n, IsSource(f, n), NEW i \in 1..n
  PROVE  Reads(f, DataStart(f) + f.index[i].offset, NBytes(f.index[i])) =
           IF f.data[i].at + f.data[i].n > f.len THEN PastEnd ELSE i
<1>1. Spans(f) /\ DOMAIN f.data = 1..n
      /\ f.data[i].at = DataStart(f) + f.index[i].offset
      /\ f.data[i].n = NBytes(f.index[i]) /\ f.data[i].of = i
  BY SourceSpans
<1>3. Reads(f, f.data[i].at, f.data[i].n) = IF f.data[i].at + f.data[i].n > f.len THEN PastEnd ELSE f.data[i].of
  BY <1>1, ReadsOwn
<1>4. QED BY <1>1, <1>3

\* Sorted by where they lie, the tensors of a source follow one another.
LEMMA DataOrderIs ==
  ASSUME NEW n, IsSource(src, n)
  PROVE  /\ DataOrder \in Orders(n)
         /\ \A i, j \in 1..n : i < j => src.index[DataOrder[i]].offset < src.index[DataOrder[j]].offset
<1>0. n \in Nat /\ Len(src.index) = n /\ \A i \in 1..n : src.index[i].offset \in Nat
  <2>1. Len(src.index) = n /\ \A i \in 1..n : Info(src.index[i])
    BY SourceHeader
  <2>2. QED BY <2>1 DEF IsSource, Info
<1>1. PICK o \in Orders(n) : Lying(src, n, o)
  BY DEF IsSource
<1>2. \A i \in 1..n : o[i] \in 1..n
  BY <1>0, OrderIs
<1>3. ASSUME NEW i \in 1..n, NEW j \in 1..n, i <= j
      PROVE  src.index[o[i]].offset <= src.index[o[j]].offset
  <2>1. CASE i = j
    BY <1>0, <1>2, <2>1
  <2>2. CASE i # j
    <3>1. i < j
      BY <1>3, <2>2
    <3>2. src.index[o[i]].offset + Padded(src.index[o[i]]) <= src.index[o[j]].offset
      BY <1>1, <3>1 DEF Lying
    <3>3. Info(src.index[o[i]])
      BY <1>2, SourceHeader
    <3>4. Padded(src.index[o[i]]) \in Nat
      BY <3>3, PaddedIs DEF Info, Entry
    <3>5. QED BY <1>0, <1>2, <3>2, <3>4
  <2>3. QED BY <2>1, <2>2
<1>4. PICK d : d = DataOrder
  OBVIOUS
<1>5. d \in Orders(n) /\ \A i, j \in 1..n : i <= j => src.index[d[i]].offset <= src.index[d[j]].offset
  <2>1. DataOrder = CHOOSE p \in Orders(n) : \A i, j \in 1..n : i <= j => src.index[p[i]].offset <= src.index[p[j]].offset
    BY <1>0, Zenon DEF DataOrder
  <2>2. \A i, j \in 1..n : i <= j => src.index[o[i]].offset <= src.index[o[j]].offset
    BY <1>3
  <2>3. QED BY <1>4, <2>1, <2>2, Zenon
<1>6. ASSUME NEW i \in 1..n, NEW j \in 1..n, i < j
      PROVE  src.index[d[i]].offset < src.index[d[j]].offset
  <2>1. d[i] \in 1..n /\ d[j] \in 1..n /\ d[i] # d[j]
    <3>1. /\ \A k \in 1..n : d[k] \in 1..n
          /\ \A k, l \in 1..n : d[k] = d[l] => k = l
      BY <1>0, <1>5, OrderIs
    <3>2. i # j
      BY <1>6
    <3>3. QED BY <3>1, <3>2
  <2>2. \/ src.index[d[i]].offset + Padded(src.index[d[i]]) <= src.index[d[j]].offset
        \/ src.index[d[j]].offset + Padded(src.index[d[j]]) <= src.index[d[i]].offset
    BY <2>1, SourceApart
  <2>3. Info(src.index[d[i]]) /\ Info(src.index[d[j]])
    BY <2>1, SourceHeader
  <2>4. ASSUME NEW t, Info(t) PROVE Padded(t) \in Nat \ {0}
    <3>1. Sized(t)
      BY <2>4 DEF Info, Entry
    <3>2. QED BY <3>1, PaddedIs
  <2>5. src.index[d[i]].offset <= src.index[d[j]].offset
    BY <1>5, <1>6
  <2>6. Padded(src.index[d[i]]) \in Nat \ {0} /\ Padded(src.index[d[j]]) \in Nat \ {0}
    BY <2>3, <2>4
  <2>7. src.index[d[i]].offset \in Nat /\ src.index[d[j]].offset \in Nat
    BY <1>0, <2>1
  <2>8. QED BY <2>2, <2>5, <2>6, <2>7
<1>7. QED BY <1>4, <1>5, <1>6

-----------------------------------------------------------------------------
\* The invariant of a file that is read and one that is written: what the written file
\* has of the source's tensors, and which of their payloads.
Count == Len(src.index)

GgJob ==
  /\ job \in {"write", "convert", "retag"} /\ phase \in {"begin", "data", "done", "refused", "failed"}
  /\ IsSource(src, Count)
  /\ phase = "begin" => step = 0
  /\ phase \in {"begin", "refused"} => dst = NoFile
  /\ phase \in {"data", "done"} => dst # NoFile
  /\ phase = "done" => IF job = "retag" THEN dst.len = src.len ELSE step = Count

\* Tensor i of the written file is tensor k of the source.
Stands(i, k, name) ==
  /\ dst.index[i].name = name /\ dst.index[i].dims = src.index[k].dims
  /\ Normal(dst.index[i].ty) = Normal(src.index[k].ty)

GgHeader ==
  dst # NoFile =>
    /\ dst = [meta |-> dst.meta, index |-> dst.index, len |-> dst.len, data |-> dst.data]
    /\ Header(dst) /\ IsList(dst.index, Count) /\ \A i \in 1..Count : Info(dst.index[i])
    /\ dst.len \in Int

Chains == \A i \in 1..Count : dst.index[i].offset = OffsetOf(dst.index, i)
PlanIs ==
  /\ IsList(plan, Count)
  /\ \A i \in 1..Count : plan[i].of \in 1..Count
  /\ \A k \in 1..Count : \E i \in 1..Count : plan[i].of = k
PlanReads ==
  /\ \A i \in 1..Count : plan[i].from = DataStart(src) + src.index[plan[i].of].offset
  /\ \A i, j \in 1..Count : i < j => plan[i].from < plan[j].from
DataIsPlanned ==
  /\ step \in 0..Count /\ IsList(dst.data, step)
  /\ \A k \in 1..step :
       /\ dst.data[k] = [at |-> DataStart(dst) + dst.index[k].offset, n |-> NBytes(dst.index[k]),
                         of |-> plan[k].of]
       /\ dst.data[k].at + dst.data[k].n <= dst.len
  /\ step < Count => dst.len <= DataStart(dst) + OffsetOf(dst.index, step + 1)

PlanStands ==
  \A i \in 1..Count :
    LET name == src.index[plan[i].of].name IN
    Stands(i, plan[i].of, IF job = "convert" THEN NewName(name) ELSE name)

GgWritten ==
  dst # NoFile /\ job # "retag" =>
    PlanIs /\ Chains /\ DataIsPlanned /\ PlanStands /\ (job = "convert" => PlanReads)

GgCopied ==
  dst # NoFile /\ job = "retag" =>
    /\ DataStart(dst) = DataStart(src)
    /\ \A i \in 1..Count :
         /\ Stands(i, i, src.index[i].name)
         /\ dst.index[i].offset = src.index[i].offset /\ dst.index[i].ty # 42
    /\ \A i \in DOMAIN dst.meta : ~LegacyFileType(dst.meta[i])
    /\ \E m \in Nat : DOMAIN dst.data = 1..m
    /\ \A k \in DOMAIN dst.data : \E i \in Before(dst.len) : dst.data[k] = src.data[i]
    /\ \A i \in Before(dst.len) : \E k \in DOMAIN dst.data : dst.data[k] = src.data[i]

GgInv == GgJob /\ GgHeader /\ GgWritten /\ GgCopied

\* The invariant holds before a program starts.
LEMMA GgInit ==
  ASSUME GgufInit
  PROVE  GgInv
<1>1. PICK meta \in Metas, ts \in Lists, whole \in BOOLEAN : \E order \in Orders(Len(ts)) :
        src = SourceFile(meta, ts, order, whole)
  BY DEF GgufInit
<1>2. IsSource(src, Len(ts))
  BY <1>1, SourceIs
<1>3. Count = Len(ts)
  BY <1>2, SourceHeader DEF Count
<1>4. job \in {"write", "convert", "retag"} /\ phase = "begin" /\ step = 0 /\ dst = NoFile
  BY DEF GgufInit
<1>5. QED BY <1>2, <1>3, <1>4 DEF GgInv, GgJob, GgHeader, GgWritten, GgCopied

\* The state parts of the invariant depend on what they name only.
LEMMA CountStays ==
  ASSUME UNCHANGED src
  PROVE  Count' = Count
BY DEF Count

\* A step of the program that leaves the files alone.
LEMMA WrittenStays ==
  ASSUME GgInv, UNCHANGED <<job, src, plan, step, dst>>
  PROVE  GgHeader' /\ GgWritten' /\ GgCopied'
<1>1. Count' = Count
  BY CountStays
<1>2. GgHeader'
  BY <1>1 DEF GgInv, GgHeader
<1>3. GgWritten'
  BY <1>1 DEF GgInv, GgWritten, PlanIs, Chains, DataIsPlanned, PlanReads, PlanStands, Stands
<1>4. GgCopied'
  BY <1>1 DEF GgInv, GgCopied, Stands, Before
<1>5. QED BY <1>2, <1>3, <1>4

\* A writer ends behind its last payload.
LEMMA GgFinish ==
  ASSUME GgInv, Finish
  PROVE  GgInv'
<1>1. job \in {"write", "convert"} /\ phase = "data" /\ step = Len(plan)
      /\ phase' = "done" /\ UNCHANGED <<job, src, plan, step, dst>>
  BY DEF Finish
<1>2. dst # NoFile
  BY <1>1 DEF GgInv, GgJob
<1>3. step = Count
  <2>1. PlanIs
    BY <1>1, <1>2 DEF GgInv, GgWritten
  <2>2. QED BY <1>1, <2>1, ListIs DEF PlanIs
<1>4. Count' = Count
  BY <1>1, CountStays
<1>5. GgJob'
  BY <1>1, <1>2, <1>3, <1>4 DEF GgInv, GgJob
<1>6. QED BY <1>1, <1>5, WrittenStays DEF GgInv

\* A retag ends where its source ends.
LEMMA GgCopyEnds ==
  ASSUME GgInv, CopyEnds
  PROVE  GgInv'
<1>1. job = "retag" /\ phase = "data" /\ dst.len = src.len
      /\ phase' = "done" /\ UNCHANGED <<job, src, plan, step, dst>>
  BY DEF CopyEnds
<1>2. Count' = Count
  BY <1>1, CountStays
<1>3. GgJob'
  BY <1>1, <1>2 DEF GgInv, GgJob
<1>4. QED BY <1>1, <1>3, WrittenStays DEF GgInv

\* A failure leaves what is written.
LEMMA GgIoError ==
  ASSUME GgInv, IoError
  PROVE  GgInv'
<1>1. phase' = "failed" /\ UNCHANGED <<job, src, plan, step, dst>>
  BY DEF IoError
<1>2. Count' = Count
  BY <1>1, CountStays
<1>3. GgJob'
  BY <1>1, <1>2 DEF GgInv, GgJob
<1>4. QED BY <1>1, <1>3, WrittenStays DEF GgInv

-----------------------------------------------------------------------------
\* What both writers lay out: the tensors they were given, each at the sum of those
\* before it, behind the header.
Keyed(meta) == \E k : IsList(meta, k) /\ \A i \in 1..k : Metadatum(meta[i])
LaidOut(f, meta, ts, n) ==
  /\ f = [meta |-> f.meta, index |-> f.index, len |-> f.len, data |-> f.data]
  /\ f.meta = meta /\ f.data = <<>> /\ Header(f) /\ f.len = DataStart(f) /\ f.len \in Nat
  /\ IsList(f.index, n)
  /\ \A i \in 1..n :
       /\ Info(f.index[i]) /\ f.index[i].name = ts[i].name /\ f.index[i].dims = ts[i].dims
       /\ f.index[i].ty = ts[i].ty /\ f.index[i].offset = OffsetOf(f.index, i)
  /\ f # NoFile

\* A header that is laid out is one for the tensors it was given.
LEMMA LaidIs ==
  ASSUME NEW meta, NEW ts, NEW f, f = Laid(meta, ts), NEW n \in Nat \ {0}, IsList(ts, n),
         \A i \in 1..n : Entry(ts[i]), Keyed(meta)
  PROVE  LaidOut(f, meta, ts, n)
<1>1. PICK index : index = [i \in DOMAIN ts |->
                  [name |-> ts[i].name, dims |-> ts[i].dims, ty |-> ts[i].ty,
                   offset |-> OffsetOf(ts, i)]]
  OBVIOUS
<1>2. PICK start : start = AlignUp(MetaEnd(meta, Scalar) + InfosLen(ts))
  OBVIOUS
<1>3. f = [meta |-> meta, index |-> index, len |-> start, data |-> <<>>]
  BY <1>1, <1>2, Zenon DEF Laid
<1>4. f.meta = meta /\ f.index = index /\ f.len = start /\ f.data = <<>>
  BY <1>3
<1>5. DOMAIN ts = 1..n
  BY ListIs
<1>6. ASSUME NEW i \in 1..n
      PROVE  /\ index[i] = [name |-> ts[i].name, dims |-> ts[i].dims, ty |-> ts[i].ty, offset |-> OffsetOf(ts, i)]
             /\ index[i].name = ts[i].name /\ index[i].dims = ts[i].dims /\ index[i].ty = ts[i].ty
             /\ index[i].offset = OffsetOf(ts, i) /\ Padded(index[i]) = Padded(ts[i]) /\ Entry(index[i])
  <2>1. index[i] = [name |-> ts[i].name, dims |-> ts[i].dims, ty |-> ts[i].ty, offset |-> OffsetOf(ts, i)]
    BY <1>1, <1>5
  <2>2. /\ index[i].name = ts[i].name /\ index[i].dims = ts[i].dims /\ index[i].ty = ts[i].ty
        /\ index[i].offset = OffsetOf(ts, i)
    BY <2>1
  <2>3. Padded(index[i]) = Padded(ts[i])
    BY <2>2 DEF Padded, NBytes
  <2>4. Entry(index[i])
    BY <2>2 DEF Entry, Sized
  <2>5. QED BY <2>1, <2>2, <2>3, <2>4
<1>7. IsList(index, n) /\ DOMAIN index = DOMAIN ts
  BY <1>1, <1>5 DEF IsList
<1>8. Blocks(index) = Blocks(ts)
  BY <1>5, <1>6, <1>7, BlocksAlike
<1>9. \A i \in 1..n : OffsetOf(index, i) = OffsetOf(ts, i) /\ OffsetOf(ts, i) \in Nat
  <2>1. \A i \in 1..n : OffsetOf(index, i) = OffsetOf(ts, i)
    BY <1>8 DEF OffsetOf
  <2>2. \A i \in 1..n : OffsetOf(ts, i) \in Nat
    BY BlocksAre DEF Entry
  <2>3. QED BY <2>1, <2>2
<1>10. \A i \in 1..n : Info(index[i])
  BY <1>6, <1>9 DEF Info
<1>11. Header(f)
  BY <1>4, <1>6, <1>7 DEF Header, Keyed
<1>12. InfosLen(index) = InfosLen(ts)
  <2>1. \A i \in DOMAIN ts : InfoLen(index[i]) = InfoLen(ts[i])
    BY <1>5, <1>6 DEF InfoLen
  <2>2. QED BY <1>7, <2>1 DEF InfosLen
<1>13. start = DataStart(f) /\ start \in Nat
  BY <1>2, <1>4, <1>11, <1>12, StartIs
<1>14. f # NoFile
  <2>1. 1 \in DOMAIN f.index
    BY <1>4, <1>5, <1>7
  <2>2. NoFile.index = <<>>
    BY DEF NoFile
  <2>3. QED BY <2>1, <2>2
<1>15. \A i \in 1..n : f.index[i].offset = OffsetOf(f.index, i)
  BY <1>4, <1>6, <1>9
<1>16. QED BY <1>3, <1>4, <1>6, <1>7, <1>10, <1>11, <1>13, <1>14, <1>15 DEF LaidOut

\* The files a writer has laid out, and not begun to fill.
Takes(ts, items) ==
  /\ IsList(ts, Count) /\ \A i \in 1..Count : Entry(ts[i])
  /\ IsList(items, Count) /\ \A i \in 1..Count : items[i].of \in 1..Count
  /\ \A k \in 1..Count : \E i \in 1..Count : items[i].of = k
  /\ \A i \in 1..Count :
       LET k == items[i].of
           name == src.index[k].name
       IN  /\ ts[i].name = IF job = "convert" THEN NewName(name) ELSE name
           /\ ts[i].dims = src.index[k].dims /\ Normal(ts[i].ty) = Normal(src.index[k].ty)
  /\ job = "convert" =>
       /\ \A i \in 1..Count : items[i].from = DataStart(src) + src.index[items[i].of].offset
       /\ \A i, j \in 1..Count : i < j => items[i].from < items[j].from

\* A file that is created has its header and no payload.
LEMMA GgCreated ==
  ASSUME GgInv, phase = "begin", job \in {"write", "convert"}, UNCHANGED <<job, src, step>>,
         NEW meta, NEW ts, NEW items, Created(Laid(meta, ts), items), Keyed(meta), Takes(ts, items)
  PROVE  GgInv'
<1>0. Count' = Count /\ Count \in Nat \ {0} /\ IsSource(src, Count) /\ step = 0 /\ dst = NoFile
  BY CountStays DEF GgInv, GgJob, IsSource
<1>1. PICK f : f = Laid(meta, ts)
  OBVIOUS
<1>s. LaidOut(f, meta, ts, Count)
  BY <1>0, <1>1, LaidIs DEF Takes
<1>2. /\ f = [meta |-> f.meta, index |-> f.index, len |-> f.len, data |-> f.data]
      /\ f.meta = meta /\ f.data = <<>> /\ Header(f) /\ f.len = DataStart(f) /\ f.len \in Nat
      /\ IsList(f.index, Count)
      /\ \A i \in 1..Count :
           /\ Info(f.index[i]) /\ f.index[i].name = ts[i].name /\ f.index[i].dims = ts[i].dims
           /\ f.index[i].ty = ts[i].ty /\ f.index[i].offset = OffsetOf(f.index, i)
      /\ f # NoFile
  BY <1>s, Zenon DEF LaidOut
<1>3. CASE phase' = "failed" /\ UNCHANGED <<dst, plan>>
  BY <1>0, <1>3 DEF GgInv, GgJob, GgHeader, GgWritten, GgCopied
<1>4. CASE phase' = "data" /\ dst' = f /\ plan' = items
  <2>1. GgJob'
    BY <1>0, <1>2, <1>4 DEF GgInv, GgJob
  <2>2. GgHeader'
    BY <1>0, <1>2, <1>4 DEF GgHeader
  <2>3. PlanIs'
    BY <1>0, <1>4 DEF PlanIs, Takes
  <2>4. Chains'
    BY <1>0, <1>2, <1>4 DEF Chains
  <2>5. DataIsPlanned'
    <3>1. dst'.data = <<>> /\ dst'.len = DataStart(dst') /\ dst'.len \in Nat
      BY <1>2, <1>4
    <3>2. IsList(dst'.data, 0)
      BY <3>1 DEF IsList
    <3>3. step' = 0 /\ 0 \in 0..Count /\ 1..0 = {}
      BY <1>0
    <3>4. OffsetOf(dst'.index, 1) \in Nat
      <4>1. \A i \in 1..Count : Sized(f.index[i])
        BY <1>2 DEF Info, Entry
      <4>2. 1 \in 1..Count
        BY <1>0
      <4>3. \A i \in 1..Count : OffsetOf(f.index, i) \in Nat
        BY <1>2, <4>1, BlocksAre
      <4>4. QED BY <1>4, <4>2, <4>3
    <3>5. dst'.len <= DataStart(dst') + OffsetOf(dst'.index, step' + 1)
      BY <3>1, <3>3, <3>4
    <3>6. QED BY <1>0, <3>2, <3>3, <3>5 DEF DataIsPlanned
  <2>6. job' = "convert" => PlanReads'
    BY <1>0, <1>4 DEF PlanReads, Takes
  <2>7. PlanStands'
    BY <1>0, <1>2, <1>4 DEF PlanStands, Stands, Takes
  <2>8. GgWritten'
    BY <1>0, <1>4, <2>3, <2>4, <2>5, <2>6, <2>7 DEF GgWritten
  <2>9. GgCopied'
    BY DEF GgCopied
  <2>10. QED BY <2>1, <2>2, <2>8, <2>9 DEF GgInv
<1>5. QED BY <1>1, <1>3, <1>4, Zenon DEF Created

\* write_gguf begins with its caller's tensors.
LEMMA GgStartWrite ==
  ASSUME GgInv, StartWrite
  PROVE  GgInv'
<1>1. /\ job = "write" /\ phase = "begin" /\ UNCHANGED <<job, src, step>>
      /\ Created(Laid(src.meta, src.index), [i \in DOMAIN src.index |-> [from |-> 0, of |-> i]])
  BY DEF StartWrite
<1>2. IsSource(src, Count)
  BY DEF GgInv, GgJob
<1>3. /\ IsList(src.index, Count) /\ DOMAIN src.index = 1..Count
      /\ \A i \in 1..Count : Info(src.index[i])
  BY <1>2, SourceHeader
<1>4. PICK items : items = [i \in DOMAIN src.index |-> [from |-> 0, of |-> i]]
  OBVIOUS
<1>5. IsList(items, Count) /\ \A i \in 1..Count : items[i].of = i
  BY <1>2, <1>3, <1>4 DEF IsList, IsSource
<1>6. \E k : IsList(src.meta, k) /\ \A i \in 1..k : Metadatum(src.meta[i])
  BY <1>2 DEF IsSource, SourceMeta
<1>7. \A i \in 1..Count : Entry(src.index[i])
  BY <1>3 DEF Info
<1>8. Created(Laid(src.meta, src.index), items)
  BY <1>1, <1>4
<1>9. \A k \in 1..Count : items[k].of \in 1..Count /\ \E i \in 1..Count : items[i].of = k
  BY <1>5
<1>10. Takes(src.index, items)
  BY <1>1, <1>3, <1>5, <1>7, <1>9 DEF Takes
<1>11. QED BY <1>1, <1>6, <1>8, <1>10, GgCreated DEF Keyed

\* The metadata under their new names.
LEMMA NewKeyIs ==
  ASSUME NEW k
  PROVE  IsList(NewKey(k), 0) \/ IsList(NewKey(k), 1)
<1>1. NewKey(k) = <<>> \/ \E x : NewKey(k) = <<x>>
  BY DEF NewKey
<1>2. CASE NewKey(k) = <<>>
  BY <1>2 DEF IsList
<1>3. ASSUME NEW x, NewKey(k) = <<x>>
      PROVE  IsList(NewKey(k), 1)
  BY <1>3 DEF IsList
<1>4. QED BY <1>1, <1>2, <1>3

\* Renamed metadata are metadata.
LEMMA NewMetaIs ==
  ASSUME NEW meta, SourceMeta(meta)
  PROVE  Keyed(NewMeta(meta))
<1>1. PICK n : IsList(meta, n) /\ \A i \in 1..n : Metadatum(meta[i]) /\ KeysRenamed(meta[i])
  BY DEF SourceMeta
<1>2. DOMAIN meta = 1..n /\ n \in Nat
  BY <1>1, ListIs
<1>3. PICK ss : ss = [i \in DOMAIN meta |->
          [k \in DOMAIN NewKey(meta[i].key) |->
             [key |-> NewKey(meta[i].key)[k],
              value |-> IF IsArchitecture(meta[i]) THEN [meta[i].value EXCEPT !.name = "dflash"]
                        ELSE meta[i].value]]]
  OBVIOUS
<1>4. PICK S : S = UNION {{ss[i][j] : j \in DOMAIN ss[i]} : i \in 1..n}
  OBVIOUS
<1>5. ASSUME NEW i \in 1..n
      PROVE  /\ DOMAIN ss[i] = DOMAIN NewKey(meta[i].key)
             /\ \E k \in Nat : IsList(ss[i], k)
             /\ \A j \in DOMAIN ss[i] : Metadatum(ss[i][j])
  <2>1. ss[i] = [k \in DOMAIN NewKey(meta[i].key) |->
             [key |-> NewKey(meta[i].key)[k],
              value |-> IF IsArchitecture(meta[i]) THEN [meta[i].value EXCEPT !.name = "dflash"]
                        ELSE meta[i].value]]
    BY <1>2, <1>3
  <2>2. PICK k \in {0, 1} : IsList(NewKey(meta[i].key), k)
    BY NewKeyIs
  <2>3. DOMAIN NewKey(meta[i].key) = 1..k
    BY <2>2, ListIs
  <2>4. IsList(ss[i], k)
    BY <2>1, <2>3 DEF IsList
  <2>5. ASSUME NEW j \in DOMAIN ss[i] PROVE Metadatum(ss[i][j])
    <3>1. PICK v : v = IF IsArchitecture(meta[i]) THEN [meta[i].value EXCEPT !.name = "dflash"]
                       ELSE meta[i].value
      OBVIOUS
    <3>2. ss[i][j] = [key |-> NewKey(meta[i].key)[j], value |-> v]
      BY <2>1, <3>1
    <3>3. v \in Values
      <4>1. meta[i].value \in Values
        BY <1>1 DEF Metadatum
      <4>2. ASSUME NEW w \in Values PROVE [w EXCEPT !.name = "dflash"] \in Values
        <5>1. CASE w \in [t : DOMAIN Scalar, x : Int]
          <6>1. w = [t |-> w.t, x |-> w.x]
            BY <5>1
          <6>2. [w EXCEPT !.name = "dflash"] = w
            BY <6>1
          <6>3. QED BY <6>2
        <5>2. CASE w \in [t : {8}, len : Nat, name : {"dspark", "dflash", "another"}]
          <6>1. w = [t |-> w.t, len |-> w.len, name |-> w.name] /\ w.t \in {8} /\ w.len \in Nat
            BY <5>2
          <6>2. [w EXCEPT !.name = "dflash"] = [t |-> w.t, len |-> w.len, name |-> "dflash"]
            BY <6>1
          <6>3. [t |-> w.t, len |-> w.len, name |-> "dflash"] \in [t : {8}, len : Nat, name : {"dspark", "dflash", "another"}]
            BY <6>1
          <6>4. QED BY <6>2, <6>3 DEF Values
        <5>3. CASE w \in [t : {9}, e : DOMAIN Scalar \cup {8}, n : Nat, len : Nat]
          <6>1. w = [t |-> w.t, e |-> w.e, n |-> w.n, len |-> w.len]
            BY <5>3
          <6>2. [w EXCEPT !.name = "dflash"] = w
            BY <6>1
          <6>3. QED BY <6>2
        <5>4. QED BY <5>1, <5>2, <5>3 DEF Values
      <4>3. QED BY <3>1, <4>1, <4>2
    <3>4. NameLen(NewKey(meta[i].key)[j]) \in Nat
      BY <1>1, <2>1 DEF KeysRenamed
    <3>5. QED BY <3>2, <3>3, <3>4 DEF Metadatum
  <2>6. QED BY <2>1, <2>4, <2>5
<1>6. ss \in Seq(Seq(S)) /\ Len(ss) = n
  <2>1. IsList(ss, n)
    BY <1>2, <1>3 DEF IsList
  <2>2. ASSUME NEW i \in 1..n PROVE ss[i] \in Seq(S)
    <3>1. PICK k \in Nat : IsList(ss[i], k)
      BY <1>5
    <3>2. DOMAIN ss[i] = 1..k
      BY <3>1, ListIs
    <3>3. \A j \in 1..k : ss[i][j] \in S
      BY <1>4, <3>2
    <3>4. ss[i] \in [1..k -> S]
      BY <3>1, <3>3 DEF IsList
    <3>5. QED BY <3>4
  <2>3. ss \in [1..n -> Seq(S)]
    BY <2>1, <2>2 DEF IsList
  <2>4. QED BY <1>2, <2>3
<1>7. NewMeta(meta) = Flat(ss)
  BY <1>3 DEF NewMeta
<1>8. Flat(ss) \in Seq(S)
  <2>1. Len(ss) \in 0..Len(ss)
    BY <1>2, <1>6
  <2>2. \A i \in 0..Len(ss) : Together(ss)[i] \in Seq(S)
    BY <1>6, TogetherSeqs
  <2>3. QED BY <2>1, <2>2 DEF Flat
<1>9. IsList(Flat(ss), Len(Flat(ss)))
  BY <1>8 DEF IsList
<1>10. ASSUME NEW k \in 1..Len(Flat(ss)) PROVE Metadatum(Flat(ss)[k])
  <2>1. \E i \in 1..Len(ss) : \E j \in 1..Len(ss[i]) : Flat(ss)[k] = ss[i][j]
    BY <1>6, JoinedFrom, Zenon
  <2>2. PICK i \in 1..n : \E j \in 1..Len(ss[i]) : Flat(ss)[k] = ss[i][j]
    BY <1>6, <2>1
  <2>3. PICK j \in 1..Len(ss[i]) : Flat(ss)[k] = ss[i][j]
    BY <2>2
  <2>4. j \in DOMAIN ss[i]
    BY <1>5, ListIs
  <2>5. QED BY <1>5, <2>3, <2>4
<1>11. QED BY <1>7, <1>9, <1>10 DEF Keyed

\* The converter begins with the source's tensors in data order, renamed.
LEMMA GgStartConvert ==
  ASSUME GgInv, StartConvert
  PROVE  GgInv'
<1>0. PICK n : n = Count /\ n \in Nat \ {0} /\ IsSource(src, n)
  BY DEF GgInv, GgJob, IsSource
<1>1. job = "convert" /\ phase = "begin" /\ UNCHANGED <<job, src, step>>
  BY DEF StartConvert
<1>2. CASE phase' = "refused" /\ UNCHANGED <<dst, plan>>
  <2>1. Count' = Count /\ dst = NoFile
    BY <1>1, CountStays DEF GgInv, GgJob
  <2>2. QED BY <1>1, <1>2, <2>1 DEF GgInv, GgJob, GgHeader, GgWritten, GgCopied
<1>3. PICK o : o = DataOrder
  OBVIOUS
<1>4. o \in Orders(n) /\ \A i, j \in 1..n : i < j => src.index[o[i]].offset < src.index[o[j]].offset
  BY <1>0, <1>3, DataOrderIs
<1>5. /\ \A i \in 1..n : o[i] \in 1..n
      /\ \A k \in 1..n : \E i \in 1..n : o[i] = k
      /\ DOMAIN o = 1..n
  BY <1>0, <1>4, OrderIs
<1>6. PICK read : read = Opened(src)
  OBVIOUS
<1>7. PICK ts : ts = [i \in DOMAIN o |-> [read[o[i]] EXCEPT !.name = NewName(@)]]
  OBVIOUS
<1>8. PICK items : items = [i \in DOMAIN ts |-> [from |-> SourceAt(ts[i]), of |-> o[i]]]
  OBVIOUS
<1>9. DataStart(src) \in Nat /\ IsList(src.index, n) /\ \A i \in 1..n : Info(src.index[i]) /\ Renamed(src.index[i])
  BY <1>0, SourceHeader
<1>10. \A i \in 1..n :
         /\ Info(read[i])
         /\ read[i].name = src.index[i].name /\ read[i].dims = src.index[i].dims
         /\ read[i].ty = Normal(src.index[i].ty) /\ read[i].offset = src.index[i].offset
  BY <1>6, <1>9, OpenedIs
<1>11. DOMAIN ts = 1..n /\ IsList(ts, n)
  BY <1>0, <1>5, <1>7 DEF IsList
<1>12. ASSUME NEW i \in 1..n
       PROVE  /\ ts[i].name = NewName(src.index[o[i]].name) /\ ts[i].dims = src.index[o[i]].dims
              /\ Normal(ts[i].ty) = Normal(src.index[o[i]].ty) /\ ts[i].offset = src.index[o[i]].offset
              /\ Entry(ts[i])
  <2>1. PICK k \in 1..n : k = o[i]
    BY <1>5
  <2>2. PICK r : r = read[k]
    OBVIOUS
  <2>3. r = [name |-> r.name, dims |-> r.dims, ty |-> r.ty, offset |-> r.offset]
        /\ r.name = src.index[k].name /\ r.dims = src.index[k].dims
        /\ r.ty = Normal(src.index[k].ty) /\ r.offset = src.index[k].offset /\ Entry(r)
    BY <1>10, <2>2 DEF Info
  <2>4. PICK t : t = ts[i]
    OBVIOUS
  <2>5. t = [r EXCEPT !.name = NewName(r.name)]
    BY <1>5, <1>7, <2>1, <2>2, <2>4
  <2>6. t = [name |-> NewName(r.name), dims |-> r.dims, ty |-> r.ty, offset |-> r.offset]
    BY <2>3, <2>5
  <2>7. t.name = NewName(r.name) /\ t.dims = r.dims /\ t.ty = r.ty /\ t.offset = r.offset
    BY <2>6
  <2>8. Renamed(src.index[k])
    BY <1>9
  <2>9. Entry(t)
    BY <2>3, <2>7, <2>8 DEF Entry, Sized, Renamed
  <2>10. Normal(t.ty) = Normal(src.index[k].ty)
    BY <2>3, <2>7 DEF Normal
  <2>11. QED BY <2>1, <2>3, <2>4, <2>7, <2>9, <2>10
<1>13. IsList(items, n) /\ \A i \in 1..n : items[i].of = o[i] /\ items[i].from = DataStart(src) + src.index[o[i]].offset
  <2>1. IsList(items, n)
    BY <1>0, <1>8, <1>11 DEF IsList
  <2>2. ASSUME NEW i \in 1..n PROVE items[i].of = o[i] /\ items[i].from = DataStart(src) + src.index[o[i]].offset
    <3>1. items[i] = [from |-> SourceAt(ts[i]), of |-> o[i]]
      BY <1>8, <1>11
    <3>2. QED BY <1>12, <3>1 DEF SourceAt
  <2>3. QED BY <2>1, <2>2
<1>14. ASSUME NEW i \in 1..n, NEW j \in 1..n, i < j
       PROVE  items[i].from < items[j].from
  <2>1. src.index[o[i]].offset < src.index[o[j]].offset
    BY <1>4, <1>14
  <2>2. src.index[o[i]].offset \in Nat /\ src.index[o[j]].offset \in Nat
    BY <1>5, <1>9 DEF Info
  <2>3. QED BY <1>9, <1>13, <2>1, <2>2
<1>15. Takes(ts, items)
  <2>1. \A i \in 1..n : items[i].of \in 1..n
    BY <1>5, <1>13
  <2>2. \A k \in 1..n : \E i \in 1..n : items[i].of = k
    BY <1>5, <1>13
  <2>3. \A i \in 1..n : ts[i].name = NewName(src.index[items[i].of].name)
                        /\ ts[i].dims = src.index[items[i].of].dims
                        /\ Normal(ts[i].ty) = Normal(src.index[items[i].of].ty) /\ Entry(ts[i])
    BY <1>12, <1>13
  <2>4. \A i \in 1..n : items[i].from = DataStart(src) + src.index[items[i].of].offset
    BY <1>13
  <2>5. QED BY <1>0, <1>1, <1>11, <1>13, <1>14, <2>1, <2>2, <2>3, <2>4 DEF Takes
<1>16. CASE Created(Laid(NewMeta(src.meta), ts), items)
  <2>1. Keyed(NewMeta(src.meta))
    BY <1>0, NewMetaIs DEF IsSource
  <2>2. QED BY <1>1, <1>15, <1>16, <2>1, GgCreated
<1>17. QED BY <1>2, <1>3, <1>6, <1>7, <1>8, <1>16, Zenon DEF StartConvert

-----------------------------------------------------------------------------
\* One payload is written behind the others.
Longer(us, ts, k, e) ==
  IsList(us, k + 1) /\ us[k + 1] = e /\ \A i \in 1..k : us[i] = ts[i]

\* A list with one more element.
LEMMA ListAppended ==
  ASSUME NEW k, NEW ts, NEW e, NEW us, IsList(ts, k), us = Append(ts, e)
  PROVE  Longer(us, ts, k, e)
<1>1. PICK S : S = {ts[i] : i \in 1..k} \cup {e}
  OBVIOUS
<1>2. Len(ts) = k /\ k \in Nat /\ DOMAIN ts = 1..k
  BY ListIs
<1>3. ts \in Seq(S) /\ e \in S
  <2>1. ts \in [1..k -> S]
    BY <1>1 DEF IsList
  <2>2. QED BY <1>1, <1>2, <2>1
<1>5. us \in Seq(S) /\ Len(us) = k + 1 /\ us[k + 1] = e /\ \A i \in 1..k : us[i] = ts[i]
  BY <1>2, <1>3
<1>6. us = [i \in 1..(k + 1) |-> us[i]]
  <2>1. \A vs \in Seq(S) : vs = [i \in 1..Len(vs) |-> vs[i]]
    OBVIOUS
  <2>2. QED BY <1>5, <2>1
<1>7. IsList(us, k + 1)
  BY <1>2, <1>6 DEF IsList
<1>8. QED BY <1>5, <1>7 DEF Longer

\* Where the data begin depends on the header only.
LEMMA HeaderOnly ==
  ASSUME NEW f, NEW g, f.meta = g.meta, f.index = g.index
  PROVE  DataStart(f) = DataStart(g) /\ HeaderEnd(f) = HeaderEnd(g) /\ (Header(f) => Header(g))
BY DEF DataStart, HeaderEnd, Header

\* A payload is that of the tensor it stands for, or none.
LEMMA NextPayloadIs ==
  ASSUME GgInv, dst # NoFile, job \in {"write", "convert"}, step < Count, NEW more, PayloadOf(more) # PastEnd
  PROVE  PayloadOf(more) = plan[step + 1].of
<1>1. PICK i : i = step + 1
  OBVIOUS
<1>2. PlanIs /\ DataIsPlanned /\ PlanStands /\ (job = "convert" => PlanReads) /\ IsSource(src, Count)
  BY DEF GgInv, GgWritten, GgJob
<1>3. Count \in Nat
  BY <1>2 DEF IsSource
<1>4. i \in 1..Count
  BY <1>1, <1>2, <1>3 DEF DataIsPlanned
<1>5. CASE job = "write"
  BY <1>5 DEF PayloadOf
<1>6. CASE job = "convert"
  <2>1. PICK k \in 1..Count : k = plan[i].of
    BY <1>2, <1>4 DEF PlanIs
  <2>2. plan[i].from = DataStart(src) + src.index[k].offset
    BY <1>2, <1>4, <1>6, <2>1 DEF PlanReads
  <2>3. NBytes(dst.index[i]) = NBytes(src.index[k])
    <3>1. dst.index[i].dims = src.index[k].dims /\ Normal(dst.index[i].ty) = Normal(src.index[k].ty)
      BY <1>2, <1>4, <2>1 DEF PlanStands, Stands
    <3>2. Sized(dst.index[i])
      BY <1>4 DEF GgInv, GgHeader, Info, Entry
    <3>3. Sized(src.index[k])
      BY <1>2, <2>1, SourceHeader DEF Info, Entry
    <3>4. src.index[k].ty \in {0, 1, 3, 30, 34, 42, 142}
      BY <3>3 DEF Sized
    <3>5. QED BY <3>1, <3>2, <3>4, SameSize
  <2>4. PayloadOf(more) = Reads(src, DataStart(src) + src.index[k].offset, NBytes(src.index[k]))
    BY <1>1, <1>6, <2>2, <2>3 DEF PayloadOf
  <2>5. Reads(src, DataStart(src) + src.index[k].offset, NBytes(src.index[k])) \in {PastEnd, k}
    BY <1>2, SourceReads
  <2>6. QED BY <1>1, <2>1, <2>4, <2>5
<1>7. QED BY <1>5, <1>6

\* The next payload is written behind the others, or the writer fails.
LEMMA GgWriteNext ==
  ASSUME GgInv, NEW more \in {0, 1}, WriteNext(more)
  PROVE  GgInv'
<1>0. job \in {"write", "convert"} /\ phase = "data" /\ step < Len(plan) /\ UNCHANGED <<job, src, plan>>
  BY DEF WriteNext
<1>1. dst # NoFile /\ IsSource(src, Count)
  BY <1>0 DEF GgInv, GgJob
<1>2. PlanIs /\ Chains /\ DataIsPlanned /\ PlanStands /\ (job = "convert" => PlanReads)
  BY <1>0, <1>1 DEF GgInv, GgWritten
<1>3. PICK n \in Nat \ {0} : n = Count
  BY <1>1 DEF IsSource
<1>4. Count' = Count /\ Len(plan) = Count
  <2>1. Len(plan) = Count
    BY <1>2, ListIs DEF PlanIs
  <2>2. QED BY <1>0, <2>1, CountStays
<1>5. CASE phase' = "failed" /\ UNCHANGED <<step, dst>>
  <2>1. GgJob'
    BY <1>0, <1>1, <1>4, <1>5 DEF GgInv, GgJob
  <2>2. QED BY <1>0, <1>5, <2>1, WrittenStays DEF GgInv
<1>6. CASE PayloadOf(more) # PastEnd
  <2>1. PICK i : i = step + 1
    OBVIOUS
  <2>2. i \in 1..n /\ step \in Nat /\ step = i - 1
    BY <1>0, <1>2, <1>3, <1>4, <2>1 DEF DataIsPlanned
  <2>3. PICK t : t = dst.index[i]
    OBVIOUS
  <2>4. /\ dst = [meta |-> dst.meta, index |-> dst.index, len |-> dst.len, data |-> dst.data]
        /\ Header(dst) /\ IsList(dst.index, n) /\ \A j \in 1..n : Info(dst.index[j])
        /\ dst.len \in Int
    BY <1>1, <1>3 DEF GgInv, GgHeader
  <2>5. PICK start \in Nat : start = DataStart(dst) /\ start = AlignUp(MetaEnd(dst.meta, Scalar) + InfosLen(dst.index))
    BY <2>4, StartIs
  <2>6. PICK b \in Nat \ {0} : b = NBytes(t) /\ b <= Padded(t) /\ Padded(t) \in Nat
    <3>1. Sized(t)
      BY <2>2, <2>3, <2>4 DEF Info, Entry
    <3>2. QED BY <3>1, PaddedIs
  <2>7. PICK q \in Nat : q = t.offset /\ q = OffsetOf(dst.index, i)
    BY <1>2, <1>3, <2>2, <2>3, <2>4 DEF Chains, Info
  <2>8. dst.len <= start + q
    BY <1>0, <1>2, <1>4, <2>1, <2>5, <2>7 DEF DataIsPlanned
  <2>9. PICK e : e = [at |-> start + q, n |-> b, of |-> plan[i].of]
    OBVIOUS
  <2>10. PICK d : d = Append(dst.data, e)
    OBVIOUS
  <2>11. PICK l : l = start + q + b
    OBVIOUS
  <2>12. step' = i /\ phase' = phase
         /\ dst' = [meta |-> dst.meta, index |-> dst.index, len |-> l, data |-> d]
    <3>1. PayloadOf(more) = plan[i].of
      BY <1>0, <1>1, <1>4, <1>6, <2>1, NextPayloadIs
    <3>2. /\ step' = step + 1 /\ phase' = phase
          /\ dst' = [dst EXCEPT !.len = IF @ > start + q + b THEN @ ELSE start + q + b,
                                !.data = Append(@, [at |-> start + q, n |-> b, of |-> plan[i].of])]
      BY <1>6, <2>1, <2>3, <2>5, <2>6, <2>7, <3>1 DEF WriteNext
    <3>3. ~(dst.len > start + q + b)
      BY <2>4, <2>8
    <3>4. dst' = [dst EXCEPT !.len = l, !.data = d]
      BY <2>9, <2>10, <2>11, <3>2, <3>3
    <3>5. QED BY <2>1, <2>4, <3>2, <3>4
  <2>13. dst'.meta = dst.meta /\ dst'.index = dst.index /\ dst'.len = l /\ dst'.data = d
    BY <2>12
  <2>14. DataStart(dst') = start /\ Header(dst')
    BY <2>4, <2>5, <2>13, HeaderOnly
  <2>15. dst' # NoFile
    <3>1. DOMAIN dst'.index = 1..n
      BY <2>4, <2>13, ListIs
    <3>2. DOMAIN NoFile.index = {}
      BY DEF NoFile
    <3>3. 1 \in 1..n
      OBVIOUS
    <3>4. QED BY <3>1, <3>2, <3>3
  <2>16. GgJob'
    BY <1>0, <1>1, <1>4, <2>12, <2>15 DEF GgInv, GgJob
  <2>17. GgHeader'
    <3>1. dst' = [meta |-> dst'.meta, index |-> dst'.index, len |-> dst'.len, data |-> dst'.data]
      BY <2>12, <2>13
    <3>2. l \in Int
      BY <2>11
    <3>3. QED BY <1>3, <1>4, <2>4, <2>13, <2>14, <3>1, <3>2 DEF GgHeader
  <2>18. DataIsPlanned'
    <3>1. IsList(d, i) /\ d[i] = e /\ \A k \in 1..(i - 1) : d[k] = dst.data[k]
      <4>1. IsList(dst.data, step)
        BY <1>2 DEF DataIsPlanned
      <4>2. Longer(d, dst.data, step, e)
        BY <2>10, <4>1, ListAppended
      <4>3. IsList(d, i) /\ d[i] = e
        BY <2>1, <4>2 DEF Longer
      <4>4. \A k \in 1..(i - 1) : d[k] = dst.data[k]
        BY <2>2, <4>2 DEF Longer
      <4>5. QED BY <4>3, <4>4
    <3>2. ASSUME NEW k \in 1..i
          PROVE  /\ d[k] = [at |-> start + dst.index[k].offset, n |-> NBytes(dst.index[k]), of |-> plan[k].of]
                 /\ d[k].at + d[k].n <= l
      <4>1. CASE k = i
        <5>1. d[k] = [at |-> start + q, n |-> b, of |-> plan[i].of]
          BY <2>9, <3>1, <4>1
        <5>2. d[k].at + d[k].n = (start + q) + b
          BY <5>1
        <5>3. dst.index[k].offset = q /\ NBytes(dst.index[k]) = b
          BY <2>3, <2>6, <2>7, <4>1
        <5>4. d[k] = [at |-> start + dst.index[k].offset, n |-> NBytes(dst.index[k]), of |-> plan[k].of]
          BY <4>1, <5>1, <5>3
        <5>5. d[k].at + d[k].n <= l
          BY <2>11, <5>2
        <5>6. QED BY <5>4, <5>5
      <4>2. CASE k # i
        <5>1. k \in 1..step /\ d[k] = dst.data[k]
          BY <2>1, <2>2, <3>1, <4>2
        <5>2. dst.data[k] = [at |-> start + dst.index[k].offset, n |-> NBytes(dst.index[k]), of |-> plan[k].of]
              /\ dst.data[k].at + dst.data[k].n <= dst.len
          BY <1>2, <2>5, <5>1 DEF DataIsPlanned
        <5>3. k \in 1..n /\ Info(dst.index[k])
          BY <2>2, <2>4
        <5>4. dst.index[k].offset \in Nat /\ NBytes(dst.index[k]) \in Nat
          BY <5>3, PaddedIs DEF Info, Entry
        <5>5. dst.data[k].at \in Int /\ dst.data[k].n \in Int
          BY <5>2, <5>4
        <5>6. QED BY <2>4, <2>8, <2>11, <5>1, <5>2, <5>5
      <4>3. QED BY <4>1, <4>2
    <3>3. ASSUME i < n PROVE l <= start + OffsetOf(dst.index, i + 1)
      <4>1. \A j \in 1..n : Sized(dst.index[j])
        BY <2>4 DEF Info, Entry
      <4>2. i + 1 \in 1..n /\ i < i + 1
        BY <2>2, <3>3
      <4>3. OffsetOf(dst.index, i) + Padded(dst.index[i]) <= OffsetOf(dst.index, i + 1)
            /\ OffsetOf(dst.index, i + 1) \in Nat
        BY <2>2, <2>4, <4>1, <4>2, BlocksAre
      <4>4. QED BY <2>3, <2>6, <2>7, <2>11, <4>3
    <3>4. i \in 0..n
      BY <2>2
    <3>5. QED BY <1>0, <1>3, <1>4, <2>12, <2>13, <2>14, <3>1, <3>2, <3>3, <3>4 DEF DataIsPlanned
  <2>19. PlanIs' /\ Chains' /\ PlanStands' /\ (job' = "convert" => PlanReads')
    BY <1>0, <1>2, <1>4, <2>13 DEF PlanIs, Chains, PlanStands, Stands, PlanReads
  <2>20. GgWritten'
    BY <2>18, <2>19 DEF GgWritten
  <2>21. GgCopied'
    BY <1>0 DEF GgCopied
  <2>22. QED BY <2>16, <2>17, <2>20, <2>21 DEF GgInv
<1>7. QED BY <1>5, <1>6 DEF WriteNext

-----------------------------------------------------------------------------
\* Retagging leaves every width in the header as it was.
Patched(m) == IF LegacyFileType(m) THEN [m EXCEPT !.value.x = 128] ELSE m

\* A patched value is as wide as it was.
LEMMA PatchedIs ==
  ASSUME NEW m, Metadatum(m)
  PROVE  /\ Metadatum(Patched(m)) /\ Patched(m).key = m.key
         /\ Width(Patched(m).value, Scalar) = Width(m.value, Scalar)
         /\ ~LegacyFileType(Patched(m))
<1>1. CASE ~LegacyFileType(m)
  BY <1>1 DEF Patched
<1>2. CASE LegacyFileType(m)
  <2>1. m.value.t \in {4, 5, 10, 11} /\ m = [key |-> m.key, value |-> m.value] /\ m.value \in Values
    BY <1>2 DEF LegacyFileType, Metadatum
  <2>2. m.value \in [t : DOMAIN Scalar, x : Int]
    BY <2>1 DEF Values
  <2>3. PICK v : v = m.value
    OBVIOUS
  <2>4. v = [t |-> v.t, x |-> v.x] /\ v.t \in DOMAIN Scalar /\ v.t \in {4, 5, 10, 11}
    BY <2>1, <2>2, <2>3
  <2>5. PICK u : u = [t |-> v.t, x |-> 128]
    OBVIOUS
  <2>6. u.t = v.t /\ u.x = 128 /\ u \in Values
    BY <2>4, <2>5 DEF Values
  <2>7. Patched(m) = [key |-> m.key, value |-> u]
    <3>1. Patched(m) = [m EXCEPT !.value = [m.value EXCEPT !.x = 128]]
      BY <1>2 DEF Patched
    <3>2. [v EXCEPT !.x = 128] = u
      BY <2>4, <2>5
    <3>3. QED BY <2>1, <2>3, <3>1, <3>2
  <2>8. PICK p : p = Patched(m)
    OBVIOUS
  <2>9. p.key = m.key /\ p.value = u /\ p = [key |-> p.key, value |-> p.value]
    BY <2>7, <2>8
  <2>10. Metadatum(p)
    BY <2>6, <2>9 DEF Metadatum
  <2>11. Width(u, Scalar) = Width(v, Scalar)
    BY <2>4, <2>6 DEF Width
  <2>12. ~LegacyFileType(p)
    BY <2>6, <2>9 DEF LegacyFileType
  <2>13. QED BY <2>3, <2>8, <2>9, <2>10, <2>11, <2>12
<1>3. QED BY <1>1, <1>2

\* Metadata of the same widths end at the same place.
LEMMA SameMetaEnd ==
  ASSUME NEW meta, NEW patched, DOMAIN patched = DOMAIN meta,
         \A i \in DOMAIN meta : patched[i].key = meta[i].key
                                /\ Width(patched[i].value, Scalar) = Width(meta[i].value, Scalar)
  PROVE  MetaEnd(patched, Scalar) = MetaEnd(meta, Scalar)
BY DEF MetaEnd

\* Entries of the same names and shapes take the same bytes.
LEMMA SameInfosPut ==
  ASSUME NEW f, NEW g, DOMAIN f = DOMAIN g,
         \A i \in DOMAIN f : f[i].name = g[i].name /\ f[i].dims = g[i].dims
  PROVE  InfosPut(f) = InfosPut(g)
<1>1. \A i \in DOMAIN f : InfoPut(f[i]) = InfoPut(g[i])
  BY DEF InfoPut
<1>2. QED BY <1>1 DEF InfosPut

\* So the data begin at the same place.
LEMMA SameStart ==
  ASSUME NEW f, NEW g, NEW n, IsList(f.index, n), IsList(g.index, n),
         MetaEnd(f.meta, Scalar) = MetaEnd(g.meta, Scalar),
         \A i \in 1..n : f.index[i].name = g.index[i].name /\ f.index[i].dims = g.index[i].dims
  PROVE  DataStart(f) = DataStart(g)
<1>1. DOMAIN f.index = 1..n /\ DOMAIN g.index = 1..n /\ Len(f.index) = n /\ Len(g.index) = n
  BY ListIs
<1>2. InfosPut(f.index) = InfosPut(g.index)
  BY <1>1, SameInfosPut
<1>3. QED BY <1>1, <1>2 DEF DataStart, HeaderEnd

\* What a retag begins with: the header, patched, and nothing of the data section.
PatchedFile ==
  [meta |-> [i \in DOMAIN src.meta |-> Patched(src.meta[i])],
   index |-> Opened(src), len |-> HeaderEnd(src), data |-> <<>>]

\* The written header is the patched one.
LEMMA RetagPatches ==
  ASSUME StartRetag, NEW n, IsSource(src, n)
  PROVE  dst' = PatchedFile
<1>1. DOMAIN src.index = 1..n /\ \A i \in 1..n : Info(src.index[i])
  BY SourceHeader
<1>2. PICK index : index = [i \in DOMAIN src.index |->
                             IF src.index[i].ty = 42 THEN [src.index[i] EXCEPT !.ty = 142] ELSE src.index[i]]
  OBVIOUS
<1>3. PICK meta : meta = [i \in DOMAIN src.meta |->
                             IF LegacyFileType(src.meta[i])
                             THEN [src.meta[i] EXCEPT !.value.x = 128] ELSE src.meta[i]]
  OBVIOUS
<1>4. dst' = [meta |-> meta, index |-> index, len |-> HeaderEnd(src), data |-> <<>>]
  BY <1>2, <1>3 DEF StartRetag, SkipScalar
<1>5. index = Opened(src)
  <2>1. ASSUME NEW i \in 1..n
        PROVE  (IF src.index[i].ty = 42 THEN [src.index[i] EXCEPT !.ty = 142] ELSE src.index[i])
               = [src.index[i] EXCEPT !.ty = Normal(@)]
    <3>1. PICK t : t = src.index[i]
      OBVIOUS
    <3>2. t = [name |-> t.name, dims |-> t.dims, ty |-> t.ty, offset |-> t.offset]
      BY <1>1, <3>1 DEF Info
    <3>3. CASE t.ty = 42
      BY <3>1, <3>3 DEF Normal
    <3>4. CASE t.ty # 42
      <4>1. [t EXCEPT !.ty = t.ty] = t
        BY <3>2
      <4>2. QED BY <3>1, <3>4, <4>1 DEF Normal
    <3>5. QED BY <3>3, <3>4
  <2>2. QED BY <1>1, <1>2, <2>1 DEF Opened
<1>6. meta = [i \in DOMAIN src.meta |-> Patched(src.meta[i])]
  BY <1>3 DEF Patched
<1>7. QED BY <1>4, <1>5, <1>6 DEF PatchedFile

\* The patched header is as long as the source's and has no legacy id.
LEMMA PatchedFileIs ==
  ASSUME NEW n, IsSource(src, n), NEW f, f = PatchedFile
  PROVE  /\ f = [meta |-> f.meta, index |-> f.index, len |-> f.len, data |-> f.data]
         /\ f.index = Opened(src) /\ f.data = <<>> /\ f.len = HeaderEnd(src)
         /\ Header(f) /\ DataStart(f) = DataStart(src)
         /\ \A i \in DOMAIN f.meta : ~LegacyFileType(f.meta[i])
<1>1. PICK meta : meta = [i \in DOMAIN src.meta |-> Patched(src.meta[i])]
  OBVIOUS
<1>2. f = [meta |-> meta, index |-> Opened(src), len |-> HeaderEnd(src), data |-> <<>>]
  BY <1>1 DEF PatchedFile
<1>3. f.meta = meta /\ f.index = Opened(src) /\ f.len = HeaderEnd(src) /\ f.data = <<>>
      /\ f = [meta |-> f.meta, index |-> f.index, len |-> f.len, data |-> f.data]
  BY <1>2
<1>4. PICK k : IsList(src.meta, k) /\ \A i \in 1..k : Metadatum(src.meta[i])
  BY DEF IsSource, SourceMeta
<1>5. DOMAIN src.meta = 1..k /\ k \in Nat
  BY <1>4, ListIs
<1>6. DOMAIN meta = 1..k /\ IsList(meta, k)
  BY <1>1, <1>5 DEF IsList
<1>7. ASSUME NEW i \in 1..k
      PROVE  /\ Metadatum(meta[i]) /\ meta[i].key = src.meta[i].key
             /\ Width(meta[i].value, Scalar) = Width(src.meta[i].value, Scalar)
             /\ ~LegacyFileType(meta[i])
  <2>1. meta[i] = Patched(src.meta[i])
    BY <1>1, <1>5
  <2>2. Metadatum(src.meta[i])
    BY <1>4
  <2>3. QED BY <2>1, <2>2, PatchedIs
<1>8. MetaEnd(meta, Scalar) = MetaEnd(src.meta, Scalar)
  BY <1>5, <1>6, <1>7, SameMetaEnd
<1>9. /\ IsList(src.index, n) /\ \A i \in 1..n : Info(src.index[i])
  BY SourceHeader
<1>10. /\ IsList(f.index, n)
       /\ \A i \in 1..n : /\ Info(f.index[i]) /\ f.index[i].name = src.index[i].name
                          /\ f.index[i].dims = src.index[i].dims
  <2>1. PICK new : new = Opened(src)
    OBVIOUS
  <2>2. /\ IsList(new, n)
        /\ \A i \in 1..n : /\ Info(new[i]) /\ new[i].name = src.index[i].name
                           /\ new[i].dims = src.index[i].dims
    BY <1>9, <2>1, OpenedIs
  <2>3. QED BY <1>3, <2>1, <2>2
<1>11. Header(f)
  BY <1>3, <1>6, <1>7, <1>10 DEF Header, Info
<1>12. DataStart(f) = DataStart(src)
  BY <1>3, <1>8, <1>9, <1>10, SameStart
<1>13. QED BY <1>3, <1>6, <1>7, <1>11, <1>12

\* Nothing of the data section lies before its beginning.
LEMMA NothingBefore ==
  ASSUME NEW n, IsSource(src, n)
  PROVE  Before(HeaderEnd(src)) = {}
<1>1. /\ Header(src) /\ DataStart(src) \in Nat /\ HeaderEnd(src) \in Nat
      /\ \A i \in 1..n : Info(src.index[i])
  BY SourceHeader
<1>2. HeaderEnd(src) <= DataStart(src)
  BY <1>1, StartIs
<1>3. DOMAIN src.data = 1..n
      /\ \A i \in 1..n : src.data[i].at = DataStart(src) + src.index[i].offset
                         /\ src.data[i].n = NBytes(src.index[i])
  BY SourceSpans
<1>4. ASSUME NEW i \in 1..n PROVE ~(src.data[i].at + src.data[i].n <= HeaderEnd(src))
  <2>1. src.index[i].offset \in Nat /\ NBytes(src.index[i]) \in Nat \ {0}
    BY <1>1, PaddedIs DEF Info, Entry
  <2>2. PICK s \in Nat, h \in Nat, x \in Nat, b \in Nat \ {0} :
          s = DataStart(src) /\ h = HeaderEnd(src) /\ x = src.index[i].offset /\ b = NBytes(src.index[i])
    BY <1>1, <2>1
  <2>3. ~((s + x) + b <= h)
    BY <1>2, <2>2
  <2>4. src.data[i].at = s + x /\ src.data[i].n = b
    BY <1>3, <2>2
  <2>5. QED BY <2>2, <2>3, <2>4
<1>5. QED BY <1>3, <1>4 DEF Before

\* A retag begins with the patched header and no payload.
LEMMA GgStartRetag ==
  ASSUME GgInv, StartRetag
  PROVE  GgInv'
<1>1. job = "retag" /\ phase = "begin" /\ phase' = "data" /\ UNCHANGED <<job, src, plan, step>>
  BY DEF StartRetag
<1>2. PICK n \in Nat \ {0} : n = Count /\ IsSource(src, n)
  BY DEF GgInv, GgJob, IsSource
<1>3. Count' = n
  BY <1>1, <1>2, CountStays
<1>4. PICK f : f = PatchedFile
  OBVIOUS
<1>5. dst' = f
  BY <1>2, <1>4, RetagPatches
<1>6. /\ f = [meta |-> f.meta, index |-> f.index, len |-> f.len, data |-> f.data]
      /\ f.index = Opened(src) /\ f.data = <<>> /\ f.len = HeaderEnd(src)
      /\ Header(f) /\ DataStart(f) = DataStart(src)
      /\ \A i \in DOMAIN f.meta : ~LegacyFileType(f.meta[i])
  BY <1>2, <1>4, PatchedFileIs
<1>7. /\ IsList(src.index, n) /\ HeaderEnd(src) \in Nat /\ \A i \in 1..n : Info(src.index[i])
  BY <1>2, SourceHeader
<1>8. /\ IsList(f.index, n) /\ DOMAIN f.index = 1..n
      /\ \A i \in 1..n :
           /\ Info(f.index[i])
           /\ f.index[i].name = src.index[i].name /\ f.index[i].dims = src.index[i].dims
           /\ f.index[i].ty = Normal(src.index[i].ty) /\ f.index[i].offset = src.index[i].offset
  BY <1>6, <1>7, OpenedIs
<1>9. \A i \in 1..n : f.index[i].ty # 42 /\ Normal(f.index[i].ty) = Normal(src.index[i].ty)
  BY <1>8 DEF Normal
<1>10. f # NoFile
  <2>1. DOMAIN NoFile.index = {}
    BY DEF NoFile
  <2>2. QED BY <1>2, <1>8, <2>1
<1>11. GgJob'
  BY <1>1, <1>2, <1>3, <1>5, <1>10 DEF GgInv, GgJob
<1>12. GgHeader'
  BY <1>3, <1>5, <1>6, <1>7, <1>8 DEF GgHeader
<1>13. GgWritten'
  BY <1>1 DEF GgWritten
<1>14. GgCopied'
  <2>1. Before(f.len)' = {}
    <3>1. Before(HeaderEnd(src)) = {}
      BY <1>2, NothingBefore
    <3>2. QED BY <1>1, <1>6, <3>1 DEF Before
  <2>2. DOMAIN f.data = 1..0 /\ 1..0 = {}
    BY <1>6
  <2>3. Before(dst.len)' = {}
    BY <1>5, <2>1 DEF Before
  <2>4. (\E m \in Nat : DOMAIN dst'.data = 1..m) /\ DOMAIN dst'.data = {}
    BY <1>5, <2>2
  <2>5. ASSUME NEW i \in 1..n
        PROVE  /\ Stands(i, i, src.index[i].name)'
               /\ dst'.index[i].offset = src'.index[i].offset /\ dst'.index[i].ty # 42
    BY <1>1, <1>5, <1>8, <1>9 DEF Stands
  <2>6. DataStart(dst') = DataStart(src') /\ \A i \in DOMAIN dst'.meta : ~LegacyFileType(dst'.meta[i])
    BY <1>1, <1>5, <1>6
  <2>7. QED BY <1>3, <2>3, <2>4, <2>5, <2>6 DEF GgCopied
<1>15. QED BY <1>11, <1>12, <1>13, <1>14 DEF GgInv

-----------------------------------------------------------------------------
\* A chunk brings the payloads that end in it.
LEMMA GgCopyChunk ==
  ASSUME GgInv, CopyChunk
  PROVE  GgInv'
<1>1. PICK end : end = end /\ job = "retag" /\ phase = "data" /\ UNCHANGED <<job, phase, src, plan>>
                 /\ end \in {dst.len + Align, src.len}
                 /\ dst' = [dst EXCEPT !.len = end, !.data = Those(src.data, Before(end))]
                 /\ step' = step + 1
  BY DEF CopyChunk
<1>2. PICK n \in Nat \ {0} : n = Count /\ IsSource(src, n)
  BY DEF GgInv, GgJob, IsSource
<1>3. Count' = n
  BY <1>1, <1>2, CountStays
<1>4. dst # NoFile
  BY <1>1 DEF GgInv, GgJob
<1>5. /\ dst = [meta |-> dst.meta, index |-> dst.index, len |-> dst.len, data |-> dst.data]
      /\ Header(dst) /\ IsList(dst.index, n) /\ \A i \in 1..n : Info(dst.index[i])
      /\ dst.len \in Int
  BY <1>2, <1>4 DEF GgInv, GgHeader
<1>6. end \in Int
  BY <1>1, <1>2, <1>5, GgufAssumption DEF IsSource
<1>7. PICK d : d = Those(src.data, Before(end))
  OBVIOUS
<1>8. PICK f : f = [meta |-> dst.meta, index |-> dst.index, len |-> end, data |-> d]
  OBVIOUS
<1>9. dst' = f
  <2>1. dst' = [dst EXCEPT !.len = end, !.data = d]
    BY <1>1, <1>7
  <2>2. dst = [meta |-> dst.meta, index |-> dst.index, len |-> dst.len, data |-> dst.data]
    BY <1>5
  <2>3. dst' = [meta |-> dst.meta, index |-> dst.index, len |-> end, data |-> d]
    BY <2>1, <2>2
  <2>4. QED BY <1>8, <2>3
<1>10. f.meta = dst.meta /\ f.index = dst.index /\ f.len = end /\ f.data = d
       /\ f = [meta |-> f.meta, index |-> f.index, len |-> f.len, data |-> f.data]
  BY <1>8
<1>11. Header(f) /\ DataStart(f) = DataStart(dst)
  BY <1>5, <1>10, HeaderOnly
<1>12. f # NoFile
  <2>1. DOMAIN NoFile.index = {}
    BY DEF NoFile
  <2>2. DOMAIN f.index = 1..n
    BY <1>5, <1>10, ListIs
  <2>3. QED BY <2>1, <2>2
<1>13. PICK X : src.data \in Seq(X)
  <2>1. DOMAIN src.data = 1..n /\ src.data = [i \in 1..n |-> src.data[i]]
    BY <1>2 DEF IsSource, PayloadsOf
  <2>2. PICK X : X = {src.data[i] : i \in 1..n}
    OBVIOUS
  <2>3. src.data \in [1..n -> X]
    BY <2>1, <2>2
  <2>4. src.data \in Seq(X)
    BY <2>3
  <2>5. QED BY <2>4
<1>14. /\ d \in Seq(X)
       /\ OnlyThose(d, src.data, Before(end))
       /\ AllThose(d, src.data, Before(end))
  <2>1. /\ Those(src.data, Before(end)) \in Seq(X)
        /\ OnlyThose(Those(src.data, Before(end)), src.data, Before(end))
        /\ AllThose(Those(src.data, Before(end)), src.data, Before(end))
    BY <1>13, ThoseAre, Zenon
  <2>2. QED BY <1>7, <2>1
<1>15. \E m \in Nat : DOMAIN d = 1..m
  BY <1>14
<1>16. DOMAIN d = 1..Len(d) /\ DOMAIN src.data = 1..Len(src.data)
  BY <1>13, <1>14
<1>17. /\ \A k \in DOMAIN d : \E i \in Before(end) : d[k] = src.data[i]
       /\ \A i \in Before(end) : \E k \in DOMAIN d : d[k] = src.data[i]
  BY <1>14, <1>16 DEF OnlyThose, AllThose, Before
<1>18. GgJob'
  BY <1>1, <1>2, <1>3, <1>9, <1>12 DEF GgInv, GgJob
<1>19. GgHeader'
  BY <1>3, <1>5, <1>6, <1>9, <1>10, <1>11 DEF GgHeader
<1>20. GgWritten'
  BY <1>1 DEF GgWritten
<1>21. GgCopied'
  <2>1. Before(dst.len)' = Before(end)
    BY <1>1, <1>9, <1>10 DEF Before
  <2>2. /\ DataStart(dst) = DataStart(src)
        /\ \A i \in 1..n :
             /\ Stands(i, i, src.index[i].name)
             /\ dst.index[i].offset = src.index[i].offset /\ dst.index[i].ty # 42
        /\ \A i \in DOMAIN dst.meta : ~LegacyFileType(dst.meta[i])
    BY <1>1, <1>2, <1>4 DEF GgInv, GgCopied
  <2>3. ASSUME NEW i \in 1..n PROVE Stands(i, i, src.index[i].name)'
    BY <1>1, <1>9, <1>10, <2>2 DEF Stands
  <2>4. \A i \in 1..n : dst'.index[i].offset = src'.index[i].offset /\ dst'.index[i].ty # 42
    BY <1>1, <1>9, <1>10, <2>2
  <2>5. \A i \in DOMAIN dst'.meta : ~LegacyFileType(dst'.meta[i])
    BY <1>9, <1>10, <2>2
  <2>6. DataStart(dst') = DataStart(src')
    BY <1>1, <1>9, <1>11, <2>2
  <2>7. \E m \in Nat : DOMAIN dst'.data = 1..m
    BY <1>9, <1>10, <1>15
  <2>8. /\ \A k \in DOMAIN dst'.data : \E i \in Before(dst.len)' : dst'.data[k] = src'.data[i]
        /\ \A i \in Before(dst.len)' : \E k \in DOMAIN dst'.data : dst'.data[k] = src'.data[i]
    <3>1. dst'.data = d /\ src' = src
      BY <1>1, <1>9, <1>10
    <3>2. \A k \in DOMAIN dst'.data : \E i \in Before(dst.len)' : dst'.data[k] = src'.data[i]
      BY <1>17, <2>1, <3>1
    <3>3. \A i \in Before(dst.len)' : \E k \in DOMAIN dst'.data : dst'.data[k] = src'.data[i]
      BY <1>17, <2>1, <3>1
    <3>4. QED BY <3>2, <3>3
  <2>9. QED BY <1>3, <2>3, <2>4, <2>5, <2>6, <2>7, <2>8 DEF GgCopied
<1>22. QED BY <1>18, <1>19, <1>20, <1>21 DEF GgInv

\* Every step keeps the invariant.
LEMMA GgStep ==
  ASSUME GgInv, GgufNext
  PROVE  GgInv'
<1>1. ASSUME NEW more \in {0, 1}, WriteNext(more) PROVE GgInv'
  BY <1>1, GgWriteNext
<1>2. QED BY <1>1, GgStartWrite, GgStartConvert, GgFinish, GgStartRetag, GgCopyChunk, GgCopyEnds, GgIoError
             DEF GgufNext

\* So does a step of something else.
LEMMA GgStutter ==
  ASSUME GgInv, UNCHANGED ggufVars
  PROVE  GgInv'
<1>1. UNCHANGED <<job, phase, src, plan, step, dst>>
  BY DEF ggufVars
<1>2. Count' = Count
  BY <1>1, CountStays
<1>3. GgJob'
  BY <1>1, <1>2 DEF GgInv, GgJob
<1>4. QED BY <1>1, <1>3, WrittenStays DEF GgInv

\* Whatever one of the three programs writes, it is a header for the source's tensors
\* and payloads of theirs where the header says.
THEOREM FileInvariant == GgufSpec => []GgInv
<1>1. GgufInit => GgInv
  BY GgInit
<1>2. GgInv /\ [GgufNext]_ggufVars => GgInv'
  BY GgStep, GgStutter
<1>3. QED BY <1>1, <1>2, PTL DEF GgufSpec

-----------------------------------------------------------------------------
\* What is read back of the written file's tensors.
LEMMA SizesAre ==
  ASSUME NEW n, NEW ts, IsList(ts, n), \A i \in 1..n : Info(ts[i])
  PROVE  \A i \in 1..n : /\ Sized(ts[i]) /\ ts[i].offset \in Nat
                         /\ NBytes(ts[i]) \in Nat \ {0} /\ Padded(ts[i]) \in Nat
                         /\ NBytes(ts[i]) <= Padded(ts[i])
BY PaddedIs DEF Info, Entry

\* What a writer has written shares no byte.
LEMMA WrittenSpans ==
  ASSUME GgInv, dst # NoFile, job # "retag"
  PROVE  /\ Spans(dst) /\ DOMAIN dst.data = 1..step
         /\ \A k \in 1..step :
              /\ dst.data[k].at = DataStart(dst) + dst.index[k].offset
              /\ dst.data[k].n = NBytes(dst.index[k]) /\ dst.data[k].of = plan[k].of
              /\ ~(dst.data[k].at + dst.data[k].n > dst.len)
<1>1. Chains /\ DataIsPlanned
  BY DEF GgInv, GgWritten
<1>2. PICK n \in Nat : n = Count
  BY DEF GgInv, GgJob, IsSource
<1>3. Header(dst) /\ IsList(dst.index, n) /\ \A i \in 1..n : Info(dst.index[i])
  BY <1>2 DEF GgInv, GgHeader
<1>4. DataStart(dst) \in Nat
  BY <1>3, StartIs
<1>5. \A i \in 1..n : /\ Sized(dst.index[i]) /\ dst.index[i].offset \in Nat
                      /\ NBytes(dst.index[i]) \in Nat \ {0} /\ Padded(dst.index[i]) \in Nat
                      /\ NBytes(dst.index[i]) <= Padded(dst.index[i])
  <2>1. PICK ts : ts = dst.index
    OBVIOUS
  <2>2. QED BY <1>3, <2>1, SizesAre
<1>6. step \in 0..n /\ DOMAIN dst.data = 1..step
  BY <1>1, <1>2, ListIs DEF DataIsPlanned
<1>7. \A k \in 1..step :
        /\ dst.data[k].at = DataStart(dst) + dst.index[k].offset
        /\ dst.data[k].n = NBytes(dst.index[k]) /\ dst.data[k].of = plan[k].of
        /\ dst.data[k].at + dst.data[k].n <= dst.len
  <2>1. ASSUME NEW k \in 1..step
        PROVE  /\ dst.data[k].at = DataStart(dst) + dst.index[k].offset
               /\ dst.data[k].n = NBytes(dst.index[k]) /\ dst.data[k].of = plan[k].of
               /\ dst.data[k].at + dst.data[k].n <= dst.len
    <3>1. dst.data[k] = [at |-> DataStart(dst) + dst.index[k].offset, n |-> NBytes(dst.index[k]),
                         of |-> plan[k].of]
          /\ dst.data[k].at + dst.data[k].n <= dst.len
      BY <1>1 DEF DataIsPlanned
    <3>2. QED BY <3>1
  <2>2. QED BY <2>1
<1>8. \A k \in 1..step : k \in 1..n
  BY <1>2, <1>6
<1>9. ASSUME NEW k \in 1..step, NEW j \in 1..step, k < j
      PROVE  dst.data[k].at + dst.data[k].n <= dst.data[j].at
  <2>1. OffsetOf(dst.index, k) + Padded(dst.index[k]) <= OffsetOf(dst.index, j)
    BY <1>3, <1>5, <1>8, <1>9, BlocksAre
  <2>2. dst.index[k].offset = OffsetOf(dst.index, k) /\ dst.index[j].offset = OffsetOf(dst.index, j)
    BY <1>1, <1>2, <1>8 DEF Chains
  <2>3. PICK s \in Nat, x \in Nat, z \in Nat, b \in Nat, p \in Nat :
          /\ s = DataStart(dst) /\ x = dst.index[k].offset /\ z = dst.index[j].offset
          /\ b = NBytes(dst.index[k]) /\ p = Padded(dst.index[k]) /\ b <= p
    BY <1>4, <1>5, <1>8
  <2>4. (s + x) + b <= s + z
    BY <2>1, <2>2, <2>3
  <2>5. dst.data[k].at = s + x /\ dst.data[k].n = b /\ dst.data[j].at = s + z
    BY <1>7, <2>3
  <2>6. QED BY <2>4, <2>5
<1>10. \A k \in 1..step : dst.data[k].at \in Int /\ dst.data[k].n \in Nat \ {0}
  <2>1. ASSUME NEW k \in 1..step PROVE dst.data[k].at \in Int /\ dst.data[k].n \in Nat \ {0}
    <3>1. dst.index[k].offset \in Nat /\ NBytes(dst.index[k]) \in Nat \ {0}
      BY <1>5, <1>8
    <3>2. dst.data[k].at = DataStart(dst) + dst.index[k].offset /\ dst.data[k].n = NBytes(dst.index[k])
      BY <1>7
    <3>3. QED BY <1>4, <3>1, <3>2
  <2>2. QED BY <2>1
<1>11. \A k, j \in 1..step : dst.data[k] = dst.data[j] \/ Apart2(dst.data[k], dst.data[j])
  <2>1. ASSUME NEW k \in 1..step, NEW j \in 1..step
        PROVE  dst.data[k] = dst.data[j] \/ Apart2(dst.data[k], dst.data[j])
    <3>1. k = j \/ k < j \/ j < k
      BY <1>6
    <3>2. QED BY <1>9, <3>1 DEF Apart2
  <2>2. QED BY <2>1
<1>12. Spans(dst)
  <2>1. \E m \in Nat : DOMAIN dst.data = 1..m
    BY <1>6
  <2>2. /\ \A k \in DOMAIN dst.data : dst.data[k].at \in Int /\ dst.data[k].n \in Nat \ {0}
        /\ \A k, j \in DOMAIN dst.data : dst.data[k] = dst.data[j] \/ Apart2(dst.data[k], dst.data[j])
    BY <1>6, <1>10, <1>11
  <2>3. QED BY <2>1, <2>2 DEF Spans
<1>13. \A k \in 1..step : ~(dst.data[k].at + dst.data[k].n > dst.len)
  <2>1. dst.len \in Int
    BY DEF GgInv, GgHeader
  <2>2. QED BY <1>7, <1>10, <2>1
<1>14. QED BY <1>6, <1>7, <1>12, <1>13

\* What GGUF::open makes of the written file's index.
OpenedAs(f, new, n) ==
  /\ Len(new) = n /\ DOMAIN new = 1..n
  /\ \A i \in 1..n :
       /\ new[i].name = f.index[i].name /\ new[i].dims = f.index[i].dims
       /\ new[i].ty = Normal(f.index[i].ty)
       /\ Payload(f, new[i]) = Reads(f, DataStart(f) + f.index[i].offset, NBytes(f.index[i]))

\* An index that is opened.
LEMMA OpenedFile ==
  ASSUME NEW f, NEW n, IsList(f.index, n), \A i \in 1..n : Info(f.index[i])
  PROVE  OpenedAs(f, Opened(f), n)
<1>1. PICK new : new = Opened(f)
  OBVIOUS
<1>2. /\ Len(new) = n /\ DOMAIN new = 1..n
      /\ \A i \in 1..n :
           /\ new[i].name = f.index[i].name /\ new[i].dims = f.index[i].dims
           /\ new[i].ty = Normal(f.index[i].ty) /\ new[i].offset = f.index[i].offset
           /\ NBytes(new[i]) = NBytes(f.index[i])
  BY <1>1, OpenedIs
<1>3. \A i \in 1..n : Payload(f, new[i]) = Reads(f, DataStart(f) + f.index[i].offset, NBytes(f.index[i]))
  BY <1>2 DEF Payload
<1>4. QED BY <1>1, <1>2, <1>3 DEF OpenedAs

\* Both files' indexes.
LEMMA OpenedFiles ==
  ASSUME GgInv, dst # NoFile
  PROVE  OpenedAs(dst, Opened(dst), Count) /\ OpenedAs(src, Opened(src), Count)
<1>1. IsSource(src, Count) /\ IsList(dst.index, Count) /\ \A i \in 1..Count : Info(dst.index[i])
  BY DEF GgInv, GgJob, GgHeader
<1>2. IsList(src.index, Count) /\ \A i \in 1..Count : Info(src.index[i])
  BY <1>1, SourceHeader
<1>3. QED BY <1>1, <1>2, OpenedFile

\* What a writer has written is read back.
LEMMA WrittenReads ==
  ASSUME GgInv, dst # NoFile, job # "retag", NEW i \in 1..step
  PROVE  Payload(dst, Opened(dst)[i]) = plan[i].of
<1>1. /\ Spans(dst) /\ DOMAIN dst.data = 1..step
      /\ \A k \in 1..step :
           /\ dst.data[k].at = DataStart(dst) + dst.index[k].offset
           /\ dst.data[k].n = NBytes(dst.index[k]) /\ dst.data[k].of = plan[k].of
           /\ ~(dst.data[k].at + dst.data[k].n > dst.len)
  BY WrittenSpans
<1>2. Reads(dst, dst.data[i].at, dst.data[i].n) =
        IF dst.data[i].at + dst.data[i].n > dst.len THEN PastEnd ELSE dst.data[i].of
  BY <1>1, ReadsOwn
<1>3. Reads(dst, dst.data[i].at, dst.data[i].n) = plan[i].of
  BY <1>1, <1>2
<1>4. i \in 1..Count
  <2>1. step \in 0..Count /\ Count \in Nat
    BY DEF GgInv, GgJob, GgWritten, DataIsPlanned, IsSource
  <2>2. QED BY <2>1
<1>5. OpenedAs(dst, Opened(dst), Count)
  BY OpenedFiles
<1>6. Payload(dst, Opened(dst)[i]) = Reads(dst, DataStart(dst) + dst.index[i].offset, NBytes(dst.index[i]))
  BY <1>4, <1>5 DEF OpenedAs
<1>7. QED BY <1>1, <1>3, <1>6

\* A copied payload is read as in the source, if it has been copied.
LEMMA CopiedSpans ==
  ASSUME GgInv, dst # NoFile, job = "retag"
  PROVE  Spans(dst)
<1>1. IsSource(src, Count) /\ GgCopied
  BY DEF GgInv, GgJob
<1>2. Spans(src)
  BY <1>1, SourceSpans
<1>3. \A k \in DOMAIN dst.data : \E i \in DOMAIN src.data : dst.data[k] = src.data[i]
  BY <1>1 DEF GgCopied, Before
<1>4. \E m \in Nat : DOMAIN dst.data = 1..m
  BY <1>1 DEF GgCopied
<1>5. \A k \in DOMAIN dst.data : dst.data[k].at \in Int /\ dst.data[k].n \in Nat \ {0}
  BY <1>2, <1>3 DEF Spans
<1>6. ASSUME NEW k \in DOMAIN dst.data, NEW j \in DOMAIN dst.data
      PROVE  dst.data[k] = dst.data[j] \/ Apart2(dst.data[k], dst.data[j])
  <2>1. PICK a \in DOMAIN src.data : dst.data[k] = src.data[a]
    BY <1>3
  <2>2. PICK b \in DOMAIN src.data : dst.data[j] = src.data[b]
    BY <1>3
  <2>3. src.data[a] = src.data[b] \/ Apart2(src.data[a], src.data[b])
    BY <1>2 DEF Spans
  <2>4. QED BY <2>1, <2>2, <2>3
<1>7. QED BY <1>4, <1>5, <1>6 DEF Spans

\* What a retag has copied is read as in the source.
LEMMA CopiedReads ==
  ASSUME GgInv, dst # NoFile, job = "retag", NEW i \in 1..Count
  PROVE  /\ Payload(dst, Opened(dst)[i]) =
              IF src.data[i].at + src.data[i].n > dst.len THEN PastEnd ELSE i
         /\ Payload(src, Opened(src)[i]) =
              IF src.data[i].at + src.data[i].n > src.len THEN PastEnd ELSE i
<1>1. IsSource(src, Count) /\ GgCopied /\ Stands(i, i, src.index[i].name)
  BY DEF GgInv, GgJob, GgCopied
<1>2. Spans(dst)
  BY CopiedSpans
<1>3. /\ DOMAIN src.data = 1..Count
      /\ src.data[i].at = DataStart(src) + src.index[i].offset
      /\ src.data[i].n = NBytes(src.index[i]) /\ src.data[i].of = i
  BY <1>1, SourceSpans
<1>4. DataStart(dst) = DataStart(src) /\ dst.index[i].offset = src.index[i].offset
  BY <1>1 DEF GgCopied
<1>5. NBytes(dst.index[i]) = NBytes(src.index[i])
  <2>1. Sized(dst.index[i])
    BY DEF GgInv, GgHeader, Info, Entry
  <2>2. src.index[i].ty \in {0, 1, 3, 30, 34, 42, 142}
    BY <1>1, SourceHeader DEF Info, Entry, Sized
  <2>3. QED BY <1>1, <2>1, <2>2, SameSize DEF Stands
<1>6. Payload(dst, Opened(dst)[i]) = Reads(dst, src.data[i].at, src.data[i].n)
  <2>1. OpenedAs(dst, Opened(dst), Count)
    BY OpenedFiles
  <2>2. Payload(dst, Opened(dst)[i]) = Reads(dst, DataStart(dst) + dst.index[i].offset, NBytes(dst.index[i]))
    BY <2>1 DEF OpenedAs
  <2>3. QED BY <1>3, <1>4, <1>5, <2>2
<1>7. Payload(src, Opened(src)[i]) = IF src.data[i].at + src.data[i].n > src.len THEN PastEnd ELSE i
  <2>1. OpenedAs(src, Opened(src), Count)
    BY OpenedFiles
  <2>2. Payload(src, Opened(src)[i]) = Reads(src, DataStart(src) + src.index[i].offset, NBytes(src.index[i]))
    BY <2>1 DEF OpenedAs
  <2>3. QED BY <1>1, <2>2, SourceReads
<1>8. CASE src.data[i].at + src.data[i].n > dst.len
  <2>1. Reads(dst, src.data[i].at, src.data[i].n) = PastEnd
    BY <1>8 DEF Reads
  <2>2. QED BY <1>6, <1>7, <1>8, <2>1
<1>9. CASE ~(src.data[i].at + src.data[i].n > dst.len)
  <2>1. i \in Before(dst.len)
    <3>1. src.data[i].at \in Int /\ src.data[i].n \in Int /\ dst.len \in Int
      <4>1. Spans(src)
        BY <1>1, SourceSpans
      <4>2. src.data[i].at \in Int /\ src.data[i].n \in Int
        BY <1>3, <4>1 DEF Spans
      <4>3. dst.len \in Int
        BY DEF GgInv, GgHeader
      <4>4. QED BY <4>2, <4>3
    <3>2. QED BY <1>3, <1>9, <3>1 DEF Before
  <2>2. PICK k \in DOMAIN dst.data : dst.data[k] = src.data[i]
    BY <1>1, <2>1 DEF GgCopied
  <2>3. Reads(dst, dst.data[k].at, dst.data[k].n) =
          IF dst.data[k].at + dst.data[k].n > dst.len THEN PastEnd ELSE dst.data[k].of
    BY <1>2, ReadsOwn
  <2>4. QED BY <1>3, <1>6, <1>7, <1>9, <2>2, <2>3
<1>10. QED BY <1>8, <1>9

\* A program that ends well leaves every tensor of the source.
LEMMA ReadsBackHolds ==
  ASSUME GgInv
  PROVE  ReadsBack
<1>1. SUFFICES ASSUME phase = "done"
      PROVE  LET old == Opened(src)
                 new == Opened(dst)
             IN  /\ {Wanted(i) : i \in DOMAIN new} = DOMAIN old /\ Len(new) = Len(old)
                 /\ \A i \in DOMAIN new :
                      LET o == old[Wanted(i)] IN
                      /\ new[i].name = IF job = "convert" THEN NewName(o.name) ELSE o.name
                      /\ new[i].dims = o.dims /\ new[i].ty = o.ty
                      /\ job # "retag" => Payload(dst, new[i]) = Wanted(i)
                      /\ job = "retag" => Payload(dst, new[i]) = Payload(src, o)
  BY DEF ReadsBack
<1>2. dst # NoFile /\ (IF job = "retag" THEN dst.len = src.len ELSE step = Count)
  BY <1>1 DEF GgInv, GgJob
<1>3. PICK n \in Nat : n = Count
  BY DEF GgInv, GgJob, IsSource
<1>4. PICK old : old = Opened(src)
  OBVIOUS
<1>5. PICK new : new = Opened(dst)
  OBVIOUS
<1>6. OpenedAs(dst, new, n) /\ OpenedAs(src, old, n)
  BY <1>2, <1>3, <1>4, <1>5, OpenedFiles
<1>7. Len(new) = n /\ Len(old) = n /\ DOMAIN new = 1..n /\ DOMAIN old = 1..n
  BY <1>6 DEF OpenedAs
<1>8. ASSUME NEW i \in 1..n, NEW k \in 1..n, NEW name, Stands(i, k, name)
      PROVE  new[i].name = name /\ new[i].dims = old[k].dims /\ new[i].ty = old[k].ty
  BY <1>6, <1>8 DEF OpenedAs, Stands
<1>9. CASE job = "retag"
  <2>1. \A i \in 1..n : Wanted(i) = i
    BY <1>9 DEF Wanted
  <2>2. {Wanted(i) : i \in 1..n} = 1..n
    BY <2>1
  <2>3. ASSUME NEW i \in 1..n
        PROVE  /\ new[i].name = old[i].name /\ new[i].dims = old[i].dims /\ new[i].ty = old[i].ty
               /\ Payload(dst, new[i]) = Payload(src, old[i])
    <3>1. Stands(i, i, src.index[i].name)
      BY <1>2, <1>3, <1>9 DEF GgInv, GgCopied
    <3>2. old[i].name = src.index[i].name
      BY <1>6 DEF OpenedAs
    <3>3. Payload(dst, new[i]) = Payload(src, old[i])
      BY <1>2, <1>3, <1>4, <1>5, <1>9, CopiedReads
    <3>4. QED BY <1>8, <3>1, <3>2, <3>3
  <2>4. QED BY <1>4, <1>5, <1>7, <1>9, <2>1, <2>2, <2>3
<1>10. CASE job # "retag"
  <2>1. PlanIs /\ PlanStands
    BY <1>2, <1>10 DEF GgInv, GgWritten
  <2>2. \A i \in 1..n : Wanted(i) = plan[i].of /\ Wanted(i) \in 1..n
    BY <1>3, <1>10, <2>1 DEF Wanted, PlanIs
  <2>3. {Wanted(i) : i \in 1..n} = 1..n
    <3>1. \A k \in 1..n : \E i \in 1..n : plan[i].of = k
      BY <1>3, <2>1 DEF PlanIs
    <3>2. QED BY <2>2, <3>1
  <2>4. ASSUME NEW i \in 1..n
        PROVE  /\ new[i].name = IF job = "convert" THEN NewName(old[Wanted(i)].name) ELSE old[Wanted(i)].name
               /\ new[i].dims = old[Wanted(i)].dims /\ new[i].ty = old[Wanted(i)].ty
               /\ Payload(dst, new[i]) = Wanted(i)
    <3>1. PICK k \in 1..n : k = Wanted(i) /\ k = plan[i].of
      BY <2>2
    <3>2. PICK name : name = IF job = "convert" THEN NewName(src.index[k].name) ELSE src.index[k].name
      OBVIOUS
    <3>3. Stands(i, k, name)
      BY <1>3, <2>1, <3>1, <3>2 DEF PlanStands
    <3>4. old[k].name = src.index[k].name
      BY <1>6 DEF OpenedAs
    <3>5. Payload(dst, new[i]) = k
      BY <1>2, <1>3, <1>5, <1>10, <3>1, WrittenReads
    <3>6. new[i].name = name /\ new[i].dims = old[k].dims /\ new[i].ty = old[k].ty
      BY <1>8, <3>3
    <3>7. QED BY <3>1, <3>2, <3>4, <3>5, <3>6
  <2>5. QED BY <1>4, <1>5, <1>7, <1>10, <2>3, <2>4
<1>11. QED BY <1>9, <1>10

\* Both writers keep the order of the data.
LEMMA InDataOrderHolds ==
  ASSUME GgInv
  PROVE  InDataOrder
<1>1. SUFFICES ASSUME dst # NoFile, job # "retag"
      PROVE  /\ Chained(dst)
             /\ job = "convert" => \A i, j \in DOMAIN plan : i < j => plan[i].from < plan[j].from
  BY DEF InDataOrder
<1>2. Chains /\ PlanIs /\ (job = "convert" => PlanReads) /\ IsList(dst.index, Count)
  BY <1>1 DEF GgInv, GgWritten, GgHeader
<1>3. DOMAIN dst.index = 1..Count /\ DOMAIN plan = 1..Count
  BY <1>2, ListIs DEF PlanIs
<1>4. Chained(dst)
  BY <1>2, <1>3 DEF Chained, Chains
<1>5. job = "convert" => \A i, j \in DOMAIN plan : i < j => plan[i].from < plan[j].from
  BY <1>2, <1>3 DEF PlanReads
<1>6. QED BY <1>4, <1>5

\* A retag leaves no legacy id.
LEMMA RetagCompleteHolds ==
  ASSUME GgInv
  PROVE  RetagComplete
<1>1. SUFFICES ASSUME phase = "done", job = "retag"
      PROVE  /\ \A i \in DOMAIN dst.index : dst.index[i].ty # 42
             /\ \A i \in DOMAIN dst.meta : ~LegacyFileType(dst.meta[i])
  BY DEF RetagComplete
<1>2. dst # NoFile
  BY <1>1 DEF GgInv, GgJob
<1>3. DOMAIN dst.index = 1..Count
  BY <1>2, ListIs DEF GgInv, GgHeader
<1>4. QED BY <1>1, <1>2, <1>3 DEF GgInv, GgCopied

\* A file that check_layout accepts has every payload.
LEMMA AcceptedHolds ==
  ASSUME GgInv
  PROVE  AcceptedIsComplete
<1>1. SUFFICES ASSUME dst # NoFile, CheckLayout(dst), NEW i \in DOMAIN dst.index
      PROVE  Payload(dst, Opened(dst)[i]) = Wanted(i)
  BY DEF AcceptedIsComplete
<1>2. PICK n \in Nat : n = Count
  BY DEF GgInv, GgJob, IsSource
<1>3. Header(dst) /\ IsList(dst.index, n) /\ (\A j \in 1..n : Info(dst.index[j])) /\ dst.len \in Int
  BY <1>1, <1>2 DEF GgInv, GgHeader
<1>4. i \in 1..n
  BY <1>1, <1>3, ListIs
<1>5. \A j \in 1..n : /\ Sized(dst.index[j]) /\ dst.index[j].offset \in Nat
                      /\ NBytes(dst.index[j]) \in Nat \ {0} /\ Padded(dst.index[j]) \in Nat
                      /\ NBytes(dst.index[j]) <= Padded(dst.index[j])
  <2>1. PICK ts : ts = dst.index
    OBVIOUS
  <2>2. QED BY <1>3, <2>1, SizesAre
<1>6. PICK s \in Nat, whole \in Nat :
        s = DataStart(dst) /\ whole = Total(Blocks(dst.index)) /\ s + whole <= dst.len
  <2>1. DataStart(dst) \in Nat /\ DataStart(dst) <= AlignUp(DataStart(dst))
    BY <1>3, StartIs
  <2>2. AlignUp(DataStart(dst)) \in Nat
    BY <2>1, AlignedIs
  <2>3. Total(Blocks(dst.index)) \in Nat
    BY <1>3, <1>5, BlocksAre
  <2>4. AlignUp(DataStart(dst)) + Total(Blocks(dst.index)) <= dst.len
    BY <1>1 DEF CheckLayout, Fits
  <2>5. DataStart(dst) + Total(Blocks(dst.index)) <= dst.len
    BY <1>3, <2>1, <2>2, <2>3, <2>4
  <2>6. QED BY <2>1, <2>3, <2>5
<1>7. \A j \in 1..n : /\ OffsetOf(dst.index, j) \in Nat
                      /\ OffsetOf(dst.index, j) + NBytes(dst.index[j]) <= whole
                      /\ OffsetOf(dst.index, j) < whole
  <2>1. \A j \in 1..n : OffsetOf(dst.index, j) \in Nat
                        /\ OffsetOf(dst.index, j) + Padded(dst.index[j]) <= Total(Blocks(dst.index))
    BY <1>3, <1>5, BlocksAre
  <2>2. QED BY <1>5, <1>6, <2>1
<1>8. CASE job = "retag"
  <2>1. Stands(i, i, src.index[i].name) /\ DataStart(dst) = DataStart(src) /\ dst.index[i].offset = src.index[i].offset
    BY <1>1, <1>2, <1>4, <1>8 DEF GgInv, GgCopied
  <2>2. IsSource(src, n)
    BY <1>2 DEF GgInv, GgJob
  <2>3. NBytes(dst.index[i]) = NBytes(src.index[i])
    <3>1. src.index[i].ty \in {0, 1, 3, 30, 34, 42, 142}
      BY <1>4, <2>2, SourceHeader DEF Info, Entry, Sized
    <3>2. QED BY <1>4, <1>5, <2>1, <3>1, SameSize DEF Stands
  <2>4. src.data[i].at = DataStart(src) + src.index[i].offset /\ src.data[i].n = NBytes(src.index[i])
    BY <1>4, <2>2, SourceSpans
  <2>5. dst.index[i].offset = OffsetOf(dst.index, i)
    BY <1>1 DEF CheckLayout, Chained
  <2>6. PICK q \in Nat, b \in Nat : q = OffsetOf(dst.index, i) /\ b = NBytes(dst.index[i]) /\ q + b <= whole
    BY <1>4, <1>5, <1>7
  <2>7. ~((s + q) + b > dst.len)
    BY <1>3, <1>6, <2>6
  <2>8. src.data[i].at = s + q /\ src.data[i].n = b
    BY <1>6, <2>1, <2>3, <2>4, <2>5, <2>6
  <2>9. ~(src.data[i].at + src.data[i].n > dst.len)
    BY <2>7, <2>8
  <2>10. Payload(dst, Opened(dst)[i]) = IF src.data[i].at + src.data[i].n > dst.len THEN PastEnd ELSE i
    BY <1>1, <1>2, <1>4, <1>8, CopiedReads
  <2>11. QED BY <1>8, <2>9, <2>10 DEF Wanted
<1>9. CASE job # "retag"
  <2>1. DataIsPlanned
    BY <1>1, <1>9 DEF GgInv, GgWritten
  <2>2. step \in 0..n /\ (step < n => dst.len <= s + OffsetOf(dst.index, step + 1))
    BY <1>2, <1>6, <2>1 DEF DataIsPlanned
  <2>3. step = n
    <3>1. SUFFICES ASSUME step < n PROVE FALSE
      BY <2>2
    <3>2. step + 1 \in 1..n
      BY <2>2, <3>1
    <3>3. PICK q \in Nat : q = OffsetOf(dst.index, step + 1) /\ q < whole
      BY <1>7, <3>2
    <3>4. dst.len <= s + q
      BY <2>2, <3>1, <3>3
    <3>5. QED BY <1>3, <1>6, <3>3, <3>4
  <2>4. i \in 1..step
    BY <1>4, <2>3
  <2>5. QED BY <1>1, <1>9, <2>4, WrittenReads DEF Wanted
<1>10. QED BY <1>8, <1>9

\* A program that ends well leaves a file that reads back every tensor of the source,
\* in data order, with no legacy id left.
THEOREM FilesAreCopied == GgufSpec => []CopiesTheTensors
<1>1. GgInv => CopiesTheTensors
  BY ReadsBackHolds, InDataOrderHolds, RetagCompleteHolds DEF CopiesTheTensors
<1>2. QED BY <1>1, FileInvariant, PTL

\* What check_layout accepts has every payload, although a writer may have ended anywhere.
THEOREM AcceptedFilesAreComplete == GgufSpec => []AcceptedIsComplete
<1>1. GgInv => AcceptedIsComplete
  BY AcceptedHolds
<1>2. QED BY <1>1, FileInvariant, PTL

-----------------------------------------------------------------------------
\* KvPack: rows of any length, of one to eight bits.

-----------------------------------------------------------------------------
\* The bit stream that a row is: bit j of index i is bit i * w + j of it, and a byte
\* holds eight of them.  Every layout packs this stream.
Bit(n, w, v, p) == \E i \in 0..(n - 1) : \E j \in v[i] : i * w + j = p
Written(n, w, v, b) == {k \in 0..7 : Bit(n, w, v, 8 * b + k)}
Row(n, w, v) == n \in Nat /\ w \in 1..8 /\ \A i \in 0..(n - 1) : v[i] \subseteq 0..(w - 1)

\* Two indices have no bit in common.
LEMMA Apart ==
  ASSUME NEW w \in 1..8, NEW i \in Nat, NEW k \in Nat, i < k
  PROVE  i * w + w <= k * w
<1>1. PICK d \in Nat : k = i + 1 + d
  <2>1. k - i - 1 \in Nat /\ k = i + 1 + (k - i - 1)
    OBVIOUS
  <2>2. QED BY <2>1
<1>2. k * w = i * w + w + d * w
  BY <1>1
<1>3. d * w \in Nat /\ i * w \in Nat
  OBVIOUS
<1>4. QED BY <1>2, <1>3

\* Where a bit is, is where its index is.
LEMMA BitOfIndex ==
  ASSUME NEW n, NEW w, NEW v, Row(n, w, v), NEW i \in 0..(n - 1), NEW j \in 0..(w - 1)
  PROVE  Bit(n, w, v, i * w + j) <=> j \in v[i]
<1>0. n \in Nat /\ w \in 1..8 /\ \A k \in 0..(n - 1) : v[k] \subseteq 0..(w - 1)
  BY DEF Row
<1>1. ASSUME j \in v[i] PROVE Bit(n, w, v, i * w + j)
  BY <1>1 DEF Bit
<1>2. ASSUME Bit(n, w, v, i * w + j) PROVE j \in v[i]
  <2>1. PICK k \in 0..(n - 1) : \E l \in v[k] : k * w + l = i * w + j
    BY <1>2 DEF Bit
  <2>2. PICK l \in v[k] : k * w + l = i * w + j
    BY <2>1
  <2>3. l \in 0..(w - 1) /\ k \in Nat /\ i \in Nat
    BY <1>0
  <2>4. PICK a \in Nat : a = i * w
    BY <1>0, <2>3
  <2>5. PICK b \in Nat : b = k * w
    BY <1>0, <2>3
  <2>6. b + l = a + j
    BY <2>2, <2>4, <2>5
  <2>7. ~(k < i)
    <3>1. k < i => b + w <= a
      BY <1>0, <2>3, <2>4, <2>5, Apart
    <3>2. QED BY <1>0, <2>3, <2>6, <3>1
  <2>8. ~(i < k)
    <3>1. i < k => a + w <= b
      BY <1>0, <2>3, <2>4, <2>5, Apart
    <3>2. QED BY <1>0, <2>3, <2>6, <3>1
  <2>9. k = i
    BY <2>3, <2>7, <2>8
  <2>10. l = j
    <3>1. a = b
      BY <2>4, <2>5, <2>9
    <3>2. QED BY <1>0, <2>3, <2>6, <3>1
  <2>11. QED BY <2>2, <2>9, <2>10
<1>3. QED BY <1>1, <1>2

\* Behind the last index there is none.
LEMMA BitBelow ==
  ASSUME NEW n, NEW w, NEW v, Row(n, w, v), NEW p \in Int, Bit(n, w, v, p)
  PROVE  0 <= p /\ p < n * w
<1>0. n \in Nat /\ w \in 1..8 /\ \A k \in 0..(n - 1) : v[k] \subseteq 0..(w - 1)
  BY DEF Row
<1>1. PICK k \in 0..(n - 1) : \E l \in v[k] : k * w + l = p
  BY DEF Bit
<1>2. PICK l \in v[k] : k * w + l = p
  BY <1>1
<1>3. l \in 0..(w - 1) /\ k \in Nat /\ k < n
  BY <1>0
<1>4. k * w + w <= n * w
  BY <1>0, <1>3, Apart
<1>5. k * w \in Nat /\ n * w \in Nat
  BY <1>0, <1>3
<1>6. QED BY <1>0, <1>2, <1>3, <1>4, <1>5

\* The bits that index u adds.
Adds(w, v, u, b) == {k \in 0..7 : \E j \in v[u] : u * w + j = 8 * b + k}

\* One more index adds its own bits.
LEMMA WrittenNext ==
  ASSUME NEW n \in Nat, NEW w, NEW v, NEW b
  PROVE  Written(n + 1, w, v, b) = Written(n, w, v, b) \cup Adds(w, v, n, b)
<1>1. \A i : i \in 0..(n + 1 - 1) <=> i \in 0..(n - 1) \/ i = n
  OBVIOUS
<1>2. \A p : Bit(n + 1, w, v, p) <=> Bit(n, w, v, p) \/ \E j \in v[n] : n * w + j = p
  <2> TAKE p
  <2> DEFINE Q(i) == \E j \in v[i] : i * w + j = p
  <2>1. (\E i \in 0..(n + 1 - 1) : Q(i)) <=> (\E i \in 0..(n - 1) : Q(i)) \/ Q(n)
    <3> HIDE DEF Q
    <3>1. QED BY <1>1, Zenon
  <2>2. QED BY <2>1 DEF Bit
<1>3. QED BY <1>2, Zenon DEF Written, Adds

\* It ends in the byte it begins in, or in the next.
LEMMA AddsAre ==
  ASSUME NEW w \in 1..8, NEW v, NEW u, v[u] \subseteq 0..(w - 1),
         NEW B \in Nat, NEW o \in 0..7, u * w = 8 * B + o
  PROVE  /\ Adds(w, v, u, B) = Shl8(v[u], o)
         /\ Adds(w, v, u, B + 1) = Shr(v[u], 8 - o)
         /\ o + w <= 8 => Shr(v[u], 8 - o) = {}
         /\ \A b \in Nat : b # B /\ b # B + 1 => Adds(w, v, u, b) = {}
<1> DEFINE s == v[u]
<1>0. s \subseteq 0..(w - 1) /\ \A b : Adds(w, v, u, b) = {k \in 0..7 : \E j \in s : 8 * B + o + j = 8 * b + k}
  BY DEF Adds
<1> HIDE DEF s
<1>1. Adds(w, v, u, B) = Shl8(s, o)
  BY <1>0 DEF Shl8, Shl, Low
<1>2. Adds(w, v, u, B + 1) = Shr(s, 8 - o)
  BY <1>0 DEF Shr
<1>3. o + w <= 8 => Shr(s, 8 - o) = {}
  BY <1>0 DEF Shr
<1>4. \A b \in Nat : b # B /\ b # B + 1 => Adds(w, v, u, b) = {}
  BY <1>0
<1>5. QED BY <1>1, <1>2, <1>3, <1>4 DEF s

\* Shifted and cut sets of bits.
LEMMA Shifted ==
  ASSUME NEW s \in SUBSET Int, NEW k \in Nat, NEW x \in Int
  PROVE  /\ x \in Shr(s, k) <=> x >= 0 /\ x + k \in s
         /\ x \in Shl(s, k) <=> x - k \in s
<1>1. x \in Shr(s, k) <=> x >= 0 /\ x + k \in s
  BY DEF Shr
<1>2. x \in Shl(s, k) <=> x - k \in s
  BY DEF Shl
<1>3. QED BY <1>1, <1>2

\* Shifting positions gives positions.
LEMMA ShiftedInt ==
  ASSUME NEW s \in SUBSET Int, NEW k \in Nat
  PROVE  Shr(s, k) \in SUBSET Int /\ Shl(s, k) \in SUBSET Int /\ \A m : Low(s, m) \in SUBSET Int
<1>1. Shr(s, k) \in SUBSET Int
  BY DEF Shr
<1>2. Shl(s, k) \in SUBSET Int
  BY DEF Shl
<1>3. \A m : Low(s, m) \in SUBSET Int
  BY DEF Low
<1>4. QED BY <1>1, <1>2, <1>3

\* A group's number is its 24 bits of the stream.
LEMMA GroupIs ==
  ASSUME Row(len, 3, idx), NEW g \in Nat, g < len \div 8
  PROVE  /\ GroupBits(g) \in SUBSET Int
         /\ \A x \in Int : x \in GroupBits(g) <=> x \in 0..23 /\ Bit(len, 3, idx, 24 * g + x)
<1>0. len \in Nat /\ \A i \in 0..(len - 1) : idx[i] \subseteq 0..2
  BY DEF Row
<1>1. PICK n \in Nat : n = len
  BY <1>0
<1>2. PICK v : v = idx
  OBVIOUS
<1>3. \A k \in 0..7 : g * 8 + k \in 0..(n - 1)
  BY <1>0, <1>1
<1>4. ASSUME NEW k \in 0..7
      PROVE  /\ v[g * 8 + k] \subseteq 0..2
             /\ Shl(Low(v[g * 8 + k], 3), 3 * k) = {j + 3 * k : j \in v[g * 8 + k]}
  <2>1. v[g * 8 + k] \subseteq 0..2
    BY <1>0, <1>1, <1>2, <1>3
  <2>2. Low(v[g * 8 + k], 3) = v[g * 8 + k]
    BY <2>1 DEF Low
  <2>3. QED BY <2>1, <2>2, Zenon DEF Shl
<1>5. GroupBits(g) = UNION {Shl(Low(v[g * 8 + k], 3), 3 * k) : k \in 0..7}
  BY <1>2 DEF GroupBits
<1>6. ASSUME NEW x PROVE x \in GroupBits(g) <=> \E k \in 0..7 : \E j \in v[g * 8 + k] : x = j + 3 * k
  <2>1. x \in GroupBits(g) <=> \E k \in 0..7 : x \in Shl(Low(v[g * 8 + k], 3), 3 * k)
    BY <1>5, Zenon
  <2>2. \A k \in 0..7 : x \in Shl(Low(v[g * 8 + k], 3), 3 * k) <=> \E j \in v[g * 8 + k] : x = j + 3 * k
    BY <1>4, Zenon
  <2>3. QED BY <2>1, <2>2, Zenon
<1>7. GroupBits(g) \in SUBSET Int
  <2>1. SUFFICES ASSUME NEW x \in GroupBits(g) PROVE x \in Int
    OBVIOUS
  <2>2. PICK k \in 0..7 : \E j \in v[g * 8 + k] : x = j + 3 * k
    BY <1>6
  <2>3. PICK j \in v[g * 8 + k] : x = j + 3 * k
    BY <2>2
  <2>4. j \in 0..2
    BY <1>4
  <2>5. QED BY <2>3, <2>4
<1>8. ASSUME NEW x \in Int, x \in GroupBits(g)
      PROVE  x \in 0..23 /\ Bit(n, 3, v, 24 * g + x)
  <2>1. PICK k \in 0..7 : \E j \in v[g * 8 + k] : x = j + 3 * k
    BY <1>6, <1>8
  <2>2. PICK j \in v[g * 8 + k] : x = j + 3 * k
    BY <2>1
  <2>3. j \in 0..2
    BY <1>4
  <2>4. (g * 8 + k) * 3 + j = 24 * g + x
    BY <2>2, <2>3
  <2>5. QED BY <1>3, <2>2, <2>3, <2>4 DEF Bit
<1>9. ASSUME NEW x \in 0..23, Bit(n, 3, v, 24 * g + x)
      PROVE  x \in GroupBits(g)
  <2>1. PICK k \in 0..7, j \in 0..2 : x = 3 * k + j
    <3>1. x \div 3 \in Int /\ x % 3 \in 0..2 /\ x = 3 * (x \div 3) + (x % 3)
      OBVIOUS
    <3>2. PICK q \in Int, r \in 0..2 : x = 3 * q + r
      BY <3>1
    <3>3. q \in 0..7
      BY <3>2
    <3>4. QED BY <3>2, <3>3
  <2>2. (g * 8 + k) * 3 + j = 24 * g + x
    BY <2>1
  <2>3. Bit(n, 3, v, (g * 8 + k) * 3 + j)
    BY <1>9, <2>2
  <2>4. j \in v[g * 8 + k]
    <3>1. Row(n, 3, v) /\ 3 \in 1..8
      BY <1>1, <1>2
    <3>2. j \in 0..(3 - 1)
      OBVIOUS
    <3>3. g * 8 + k \in 0..(n - 1)
      BY <1>3
    <3>4. Bit(n, 3, v, (g * 8 + k) * 3 + j) <=> j \in v[g * 8 + k]
      BY <3>1, <3>2, <3>3, BitOfIndex
    <3>5. QED BY <2>3, <3>4, Zenon
  <2>5. x = j + 3 * k
    BY <2>1
  <2>6. QED BY <1>6, <2>4, <2>5, Zenon
<1>10. QED BY <1>1, <1>2, <1>7, <1>8, <1>9

\* A byte of a plane is its eight bits of the stream.
LEMMA PlaneIs ==
  ASSUME Row(len, bits, idx), bits \in {1, 2, 4}, NEW b \in Nat
  PROVE  PlaneByte(b) = Written(len, bits, idx, b)
<1>0. len \in Nat /\ \A i \in 0..(len - 1) : idx[i] \subseteq 0..(bits - 1)
  BY DEF Row
<1>1. PICK n \in Nat : n = len
  BY <1>0
<1>2. PICK v : v = idx
  OBVIOUS
<1>w. PICK w \in {1, 2, 4} : w = bits
  OBVIOUS
<1>p. PICK p \in {2, 4, 8} : p = PerByte /\ p * w = 8
  BY <1>w DEF PerByte
<1>r. Row(n, w, v) /\ w \in 1..8
  BY <1>1, <1>2, <1>w
<1> DEFINE M == {m \in 0..(p - 1) : b * p + m < n}
<1>4. ASSUME NEW k \in M
      PROVE  /\ b * p + k \in 0..(n - 1)
             /\ v[b * p + k] \subseteq 0..(w - 1)
             /\ Shl(Low(v[b * p + k], w), w * k) = {j + w * k : j \in v[b * p + k]}
  <2>0. b * p + k \in 0..(n - 1)
    <3>1. b * p \in Nat
      OBVIOUS
    <3>2. QED BY <3>1
  <2>1. v[b * p + k] \subseteq 0..(w - 1)
    BY <1>0, <1>1, <1>2, <1>w, <2>0
  <2>2. Low(v[b * p + k], w) = v[b * p + k]
    BY <2>1 DEF Low
  <2>3. QED BY <2>0, <2>1, <2>2, Zenon DEF Shl
<1>5. PlaneByte(b) = UNION {Shl(Low(v[b * p + k], w), w * k) : k \in M}
  BY <1>1, <1>2, <1>w, <1>p, Zenon DEF PlaneByte
<1>6. ASSUME NEW x PROVE x \in PlaneByte(b) <=> \E k \in M : \E j \in v[b * p + k] : x = j + w * k
  <2> HIDE DEF M
  <2>1. x \in PlaneByte(b) <=> \E k \in M : x \in Shl(Low(v[b * p + k], w), w * k)
    BY <1>5, Zenon
  <2>2. \A k \in M : x \in Shl(Low(v[b * p + k], w), w * k) <=> \E j \in v[b * p + k] : x = j + w * k
    BY <1>4, Zenon
  <2>3. QED BY <2>1, <2>2, Zenon
<1>7. \A k \in Int, j \in Int : (b * p + k) * w + j = 8 * b + (j + w * k)
  <2>1. CASE w = 1
    BY <2>1, <1>p
  <2>2. CASE w = 2
    BY <2>2, <1>p
  <2>3. CASE w = 4
    BY <2>3, <1>p
  <2>4. QED BY <2>1, <2>2, <2>3
<1>8. ASSUME NEW x, x \in PlaneByte(b)
      PROVE  x \in 0..7 /\ Bit(n, w, v, 8 * b + x)
  <2>1. PICK k \in M : \E j \in v[b * p + k] : x = j + w * k
    BY <1>6, <1>8, Zenon
  <2>2. PICK j \in v[b * p + k] : x = j + w * k
    BY <2>1
  <2>3. j \in 0..(w - 1) /\ k \in 0..(p - 1) /\ b * p + k \in 0..(n - 1)
    BY <1>4
  <2>4. (b * p + k) * w + j = 8 * b + x
    BY <1>7, <2>2, <2>3
  <2>5. x \in 0..7
    <3>1. CASE w = 1
      <4>1. p = 8 /\ x = j + 1 * k
        BY <3>1, <1>p, <2>2
      <4>2. j \in 0..0 /\ k \in 0..7
        BY <3>1, <2>3, <4>1
      <4>3. QED BY <4>1, <4>2
    <3>2. CASE w = 2
      <4>1. p = 4 /\ x = j + 2 * k
        BY <3>2, <1>p, <2>2
      <4>2. j \in 0..1 /\ k \in 0..3
        BY <3>2, <2>3, <4>1
      <4>3. QED BY <4>1, <4>2
    <3>3. CASE w = 4
      <4>1. p = 2 /\ x = j + 4 * k
        BY <3>3, <1>p, <2>2
      <4>2. j \in 0..3 /\ k \in 0..1
        BY <3>3, <2>3, <4>1
      <4>3. QED BY <4>1, <4>2
    <3>4. QED BY <3>1, <3>2, <3>3
  <2>6. Bit(n, w, v, 8 * b + x)
    BY <2>2, <2>3, <2>4, Zenon DEF Bit
  <2>7. QED BY <2>5, <2>6
<1>9. ASSUME NEW x \in 0..7, Bit(n, w, v, 8 * b + x)
      PROVE  x \in PlaneByte(b)
  <2>1. PICK k \in 0..(p - 1) : \E j \in 0..(w - 1) : x = j + w * k
    <3>1. CASE w = 1
      <4>1. x \in 0..(p - 1) /\ 0 \in 0..(w - 1) /\ x = 0 + w * x
        BY <3>1, <1>p
      <4>2. QED BY <4>1
    <3>2. CASE w = 2
      <4>1. x \div 2 \in 0..(p - 1) /\ x % 2 \in 0..(w - 1) /\ x = (x % 2) + w * (x \div 2)
        BY <3>2, <1>p
      <4>2. QED BY <4>1
    <3>3. CASE w = 4
      <4>1. x \div 4 \in 0..(p - 1) /\ x % 4 \in 0..(w - 1) /\ x = (x % 4) + w * (x \div 4)
        BY <3>3, <1>p
      <4>2. QED BY <4>1
    <3>4. QED BY <3>1, <3>2, <3>3
  <2>2. PICK j \in 0..(w - 1) : x = j + w * k
    BY <2>1
  <2>3. (b * p + k) * w + j = 8 * b + x
    BY <1>7, <2>2
  <2>4. Bit(n, w, v, (b * p + k) * w + j)
    BY <1>9, <2>3
  <2>5. b * p + k \in Nat
    OBVIOUS
  <2>6. b * p + k < n
    <3>1. PICK q \in Nat : q = b * p + k
      BY <2>5
    <3>2. q * w + j \in Int /\ q * w \in Nat
      OBVIOUS
    <3>3. q * w + j < n * w
      BY <1>r, <2>4, <3>1, <3>2, BitBelow
    <3>4. n <= q => n * w <= q * w
      <4>1. CASE n = q
        BY <4>1
      <4>2. CASE n < q
        <5>1. n * w + w <= q * w
          BY <4>2, <1>r, Apart
        <5>2. n * w \in Nat
          OBVIOUS
        <5>3. QED BY <5>1, <5>2, <3>2
      <4>3. QED BY <4>1, <4>2
    <3>5. n * w \in Nat
      OBVIOUS
    <3>6. QED BY <3>1, <3>2, <3>3, <3>4, <3>5
  <2>7. k \in M
    BY <2>6
  <2>8. j \in v[b * p + k]
    <3>1. b * p + k \in 0..(n - 1)
      BY <2>5, <2>6
    <3>2. QED BY <1>r, <2>4, <3>1, BitOfIndex, Zenon
  <2>9. QED BY <1>6, <2>2, <2>7, <2>8
<1>10. \A x : x \in PlaneByte(b) <=> x \in 0..7 /\ Bit(n, w, v, 8 * b + x)
  BY <1>8, <1>9, Zenon
<1>11. QED BY <1>1, <1>2, <1>w, <1>10, Zenon DEF Written

\* An index taken out of the byte it begins in and, where it straddles, the next: by
\* the host, and by the device, whose word may or may not hold that next byte.
InBytes(w, o, s, A, B) ==
  /\ w \in 1..8 /\ o \in 0..7 /\ s \in SUBSET (0..(w - 1))
  /\ A \in SUBSET (0..7) /\ B \in SUBSET (0..7)
  /\ \A x \in 0..(w - 1) : x + o <= 7 => (x + o \in A <=> x \in s)
  /\ \A x \in 0..(w - 1) : x + o >= 8 => (x + o - 8 \in B <=> x \in s)

\* An index that lies in one byte is read from it.
LEMMA ReadHere ==
  ASSUME NEW w, NEW o, NEW s, NEW A, NEW B, InBytes(w, o, s, A, B), o + w <= 8
  PROVE  /\ Low(Shr(A, o), w) = s
         /\ Low(Shr(A, o) \cup Shl(B, 8 - o), w) = s
<1>0. /\ w \in 1..8 /\ o \in 0..7 /\ s \in SUBSET (0..(w - 1)) /\ A \in SUBSET (0..7)
      /\ \A x \in 0..(w - 1) : x + o <= 7 => (x + o \in A <=> x \in s)
  BY DEF InBytes
<1>a. Low(Shr(A, o), w) \subseteq s
  BY <1>0 DEF Low, Shr
<1>b. ASSUME NEW x \in s PROVE x \in Low(Shr(A, o), w)
  <2>1. x \in 0..(w - 1) /\ x + o \in A /\ x + o >= o /\ x = (x + o) - o
    BY <1>0
  <2>2. x \in Shr(A, o)
    BY <1>0, <2>1 DEF Shr
  <2>3. QED BY <1>0, <2>1, <2>2 DEF Low
<1>1. Low(Shr(A, o), w) = s
  BY <1>a, <1>b
<1>2. Low(Shr(A, o) \cup Shl(B, 8 - o), w) = Low(Shr(A, o), w)
  BY DEF InBytes, Low, Shr, Shl
<1>3. QED BY <1>1, <1>2

\* One that goes on in the next byte is read from both.
LEMMA ReadBoth ==
  ASSUME NEW w, NEW o, NEW s, NEW A, NEW B, InBytes(w, o, s, A, B), o + w > 8
  PROVE  /\ Low(Shr(A, o) \cup Shl(B, 8 - o), w) = s
         /\ Low(Shr(A, o) \cup Shl(B, 8 - o), w) \cup Shl(Low(B, o + w - 8), 8 - o) = s
         /\ Low(Shr(A, o), w) \cup Shl(Low(B, o + w - 8), 8 - o) = s
<1>0. /\ w \in 1..8 /\ o \in 0..7 /\ s \in SUBSET (0..(w - 1))
      /\ A \in SUBSET (0..7) /\ B \in SUBSET (0..7)
      /\ \A x \in 0..(w - 1) : x + o <= 7 => (x + o \in A <=> x \in s)
      /\ \A x \in 0..(w - 1) : x + o >= 8 => (x + o - 8 \in B <=> x \in s)
  BY DEF InBytes
<1>a. Low(Shr(A, o), w) = {x \in s : x + o <= 7}
  <2>1. Low(Shr(A, o), w) \subseteq {x \in s : x + o <= 7}
    BY <1>0 DEF Low, Shr
  <2>2. ASSUME NEW x \in s, x + o <= 7 PROVE x \in Low(Shr(A, o), w)
    <3>1. x \in 0..(w - 1) /\ x + o \in A /\ x + o >= o /\ x = (x + o) - o
      BY <1>0, <2>2
    <3>2. x \in Shr(A, o)
      BY <1>0, <3>1 DEF Shr
    <3>3. QED BY <1>0, <3>1, <3>2 DEF Low
  <2>3. QED BY <2>1, <2>2
<1>b. Shl(Low(B, o + w - 8), 8 - o) = {x \in s : x + o >= 8}
  <2>1. Shl(Low(B, o + w - 8), 8 - o) \subseteq {x \in s : x + o >= 8}
    BY <1>0 DEF Low, Shl
  <2>2. ASSUME NEW x \in s, x + o >= 8 PROVE x \in Shl(Low(B, o + w - 8), 8 - o)
    <3>1. x + o - 8 \in B /\ x + o - 8 < o + w - 8 /\ x = (x + o - 8) + (8 - o)
      BY <1>0, <2>2
    <3>2. QED BY <3>1 DEF Low, Shl
  <2>3. QED BY <2>1, <2>2
<1>c. Low(Shl(B, 8 - o), w) = Shl(Low(B, o + w - 8), 8 - o)
  <2>1. Low(Shl(B, 8 - o), w) \subseteq Shl(Low(B, o + w - 8), 8 - o)
    BY <1>0 DEF Low, Shl
  <2>2. Shl(Low(B, o + w - 8), 8 - o) \subseteq Low(Shl(B, 8 - o), w)
    BY <1>0 DEF Low, Shl
  <2>3. QED BY <2>1, <2>2
<1>d. Low(Shr(A, o) \cup Shl(B, 8 - o), w) = Low(Shr(A, o), w) \cup Low(Shl(B, 8 - o), w)
  BY DEF Low
<1>e. s = {x \in s : x + o <= 7} \cup {x \in s : x + o >= 8}
  <2>1. \A x \in s : x + o <= 7 \/ x + o >= 8
    BY <1>0
  <2>2. QED BY <2>1, Zenon
<1>1. Low(Shr(A, o) \cup Shl(B, 8 - o), w) = s
  BY <1>a, <1>b, <1>c, <1>d, <1>e, Zenon
<1>2. Low(Shr(A, o), w) \cup Shl(Low(B, o + w - 8), 8 - o) = s
  BY <1>a, <1>b, <1>e, Zenon
<1>3. s \cup Shl(Low(B, o + w - 8), 8 - o) = s
  BY <1>b
<1>4. QED BY <1>1, <1>2, <1>3

\* Three bytes of a group as one number, and an index out of it.
InGroup(k, s, A, B, C) ==
  /\ k \in 0..7 /\ s \in SUBSET (0..2)
  /\ A \in SUBSET (0..7) /\ B \in SUBSET (0..7) /\ C \in SUBSET (0..7)
  /\ \A j \in 0..2 :
       /\ 3 * k + j < 8 => (3 * k + j \in A <=> j \in s)
       /\ 8 <= 3 * k + j /\ 3 * k + j < 16 => (3 * k + j - 8 \in B <=> j \in s)
       /\ 16 <= 3 * k + j => (3 * k + j - 16 \in C <=> j \in s)

\* Three bytes hold eight indices of three bits.
LEMMA ReadGroup ==
  ASSUME NEW k, NEW s, NEW A, NEW B, NEW C, InGroup(k, s, A, B, C)
  PROVE  Low(Shr(A \cup Shl(B, 8) \cup Shl(C, 16), 3 * k), 3) = s
<1>0. /\ k \in 0..7 /\ s \in SUBSET (0..2)
      /\ A \in SUBSET (0..7) /\ B \in SUBSET (0..7) /\ C \in SUBSET (0..7)
      /\ \A j \in 0..2 :
           /\ 3 * k + j < 8 => (3 * k + j \in A <=> j \in s)
           /\ 8 <= 3 * k + j /\ 3 * k + j < 16 => (3 * k + j - 8 \in B <=> j \in s)
           /\ 16 <= 3 * k + j => (3 * k + j - 16 \in C <=> j \in s)
  BY DEF InGroup
<1> DEFINE N == A \cup Shl(B, 8) \cup Shl(C, 16)
<1>1. \A x \in Int : x \in Shl(B, 8) <=> x - 8 \in B
  BY <1>0 DEF Shl
<1>2. \A x \in Int : x \in Shl(C, 16) <=> x - 16 \in C
  BY <1>0 DEF Shl
<1>3. Shl(B, 8) \in SUBSET Int /\ Shl(C, 16) \in SUBSET Int
  BY <1>0 DEF Shl
<1>4. N \in SUBSET Int /\ \A x \in Int : x \in N <=> x \in A \/ x - 8 \in B \/ x - 16 \in C
  <2>1. N \in SUBSET Int
    <3>1. A \in SUBSET Int
      BY <1>0
    <3>2. QED BY <1>3, <3>1, Zenon
  <2>2. ASSUME NEW x \in Int PROVE x \in N <=> x \in A \/ x - 8 \in B \/ x - 16 \in C
    BY <1>1, <1>2, Zenon
  <2>3. QED BY <2>1, <2>2
<1> HIDE DEF N
<1>5. \A j \in 0..2 : 3 * k + j \in N <=> j \in s
  <2> TAKE j \in 0..2
  <2>1. CASE 3 * k + j < 8
    BY <1>0, <1>4, <2>1
  <2>2. CASE 8 <= 3 * k + j /\ 3 * k + j < 16
    BY <1>0, <1>4, <2>2
  <2>3. CASE 16 <= 3 * k + j
    BY <1>0, <1>4, <2>3
  <2>4. k \in Int /\ j \in Int
    BY <1>0
  <2>5. QED BY <2>1, <2>2, <2>3, <2>4
<1>6. \A j : j \in Low(Shr(N, 3 * k), 3) <=> j \in 0..2 /\ 3 * k + j \in N
  BY <1>0, <1>4 DEF Low, Shr
<1>7. Low(Shr(N, 3 * k), 3) = s
  BY <1>0, <1>5, <1>6
<1>8. QED BY <1>7 DEF N

\* A row that has every bit of its stream.
Bytes == PackedBytes \in Nat /\ 8 * PackedBytes >= len * bits /\ 8 * PackedBytes < len * bits + 8
Whole ==
  /\ Row(len, bits, idx) /\ len > 0
  /\ \A b \in 0..(PackedBytes - 1) : packed[b] = Written(len, bits, idx, b)
  /\ packed[PackedBytes] = Old

\* The bytes of a row hold its bits, and no byte more than them.
LEMMA BytesHold ==
  ASSUME len \in Nat, bits \in 1..8
  PROVE  Bytes
<1>1. PICK q \in Nat : q = len * bits
  OBVIOUS
<1>2. PackedBytes = (q + 7) \div 8
  BY <1>1 DEF PackedBytes, CeilDiv
<1>3. QED BY <1>1, <1>2 DEF Bytes

\* Where an index is in a whole row.
LEMMA IndexIn ==
  ASSUME Whole, NEW i \in Coords, NEW B \in Nat, NEW o \in 0..7, i * bits = 8 * B + o
  PROVE  /\ B < PackedBytes
         /\ InBytes(bits, o, idx[i], packed[B], packed[B + 1])
         /\ o + bits > 8 => B + 1 < PackedBytes
<1>0. len \in Nat /\ bits \in 1..8 /\ i \in 0..(len - 1) /\ i \in Nat /\ i < len /\ Row(len, bits, idx)
  BY DEF Whole, Row, Coords
<1>1. PackedBytes \in Nat /\ 8 * PackedBytes >= len * bits
  BY <1>0, BytesHold DEF Bytes
<1>2. i * bits + bits <= len * bits
  BY <1>0, Apart
<1>3. len * bits \in Nat
  BY <1>0
<1>4. B < PackedBytes
  BY <1>0, <1>1, <1>2, <1>3
<1>5. o + bits > 8 => B + 1 < PackedBytes
  BY <1>0, <1>1, <1>2, <1>3
<1>6. packed[B] = Written(len, bits, idx, B)
  BY <1>1, <1>4 DEF Whole
<1>7. packed[B + 1] \in SUBSET (0..7)
        /\ (B + 1 < PackedBytes => packed[B + 1] = Written(len, bits, idx, B + 1))
  <2>1. CASE B + 1 < PackedBytes
    <3>1. packed[B + 1] = Written(len, bits, idx, B + 1)
      BY <1>1, <2>1 DEF Whole
    <3>2. QED BY <3>1 DEF Written
  <2>2. CASE ~(B + 1 < PackedBytes)
    <3>1. B + 1 = PackedBytes
      BY <1>1, <1>4, <2>2
    <3>2. QED BY <3>1, <2>2 DEF Whole, Old
  <2>3. QED BY <2>1, <2>2
<1>8. \A x \in 0..(bits - 1) : Bit(len, bits, idx, 8 * B + (x + o)) <=> x \in idx[i]
  <2> TAKE x \in 0..(bits - 1)
  <2>1. Bit(len, bits, idx, i * bits + x) <=> x \in idx[i]
    BY <1>0, BitOfIndex
  <2>2. i * bits + x = 8 * B + (x + o)
    BY <1>0
  <2>3. QED BY <2>1, <2>2
<1>9. \A x \in 0..(bits - 1) : x + o <= 7 => (x + o \in packed[B] <=> x \in idx[i])
  <2> SUFFICES ASSUME NEW x \in 0..(bits - 1), x + o <= 7
               PROVE  x + o \in packed[B] <=> x \in idx[i]
    OBVIOUS
  <2>1. x + o \in 0..7
    BY <1>0
  <2>2. x + o \in packed[B] <=> Bit(len, bits, idx, 8 * B + (x + o))
    BY <1>6, <2>1, Zenon DEF Written
  <2>3. QED BY <1>8, <2>2, Zenon
<1>10. \A x \in 0..(bits - 1) : x + o >= 8 => (x + o - 8 \in packed[B + 1] <=> x \in idx[i])
  <2> SUFFICES ASSUME NEW x \in 0..(bits - 1), x + o >= 8
               PROVE  x + o - 8 \in packed[B + 1] <=> x \in idx[i]
    OBVIOUS
  <2>1. x + o - 8 \in 0..7 /\ o + bits > 8
    BY <1>0
  <2>2. packed[B + 1] = Written(len, bits, idx, B + 1)
    BY <1>5, <1>7, <2>1
  <2>3. x + o - 8 \in packed[B + 1] <=> Bit(len, bits, idx, 8 * (B + 1) + (x + o - 8))
    BY <2>1, <2>2, Zenon DEF Written
  <2>4. 8 * (B + 1) + (x + o - 8) = 8 * B + (x + o)
    BY <1>0
  <2>5. QED BY <1>8, <2>3, <2>4, Zenon
<1>11. packed[B] \in SUBSET (0..7) /\ idx[i] \in SUBSET (0..(bits - 1))
  BY <1>0, <1>6 DEF Row, Written
<1>12. InBytes(bits, o, idx[i], packed[B], packed[B + 1])
  BY <1>0, <1>7, <1>9, <1>10, <1>11, Zenon DEF InBytes
<1>13. QED BY <1>4, <1>5, <1>12

\* An index of a group, in its three bytes.
LEMMA GroupIn ==
  ASSUME Whole, bits = 3, len % 8 = 0, NEW i \in Coords
  PROVE  Low(Shr(Group(i \div 8), 3 * (i % 8)), 3) = idx[i]
<1>0. len \in Nat /\ i \in 0..(len - 1) /\ i \in Nat /\ i < len /\ Row(len, 3, idx)
  BY DEF Whole, Row, Coords
<1>1. PICK g \in Nat, k \in 0..7 : g = i \div 8 /\ k = i % 8 /\ i = 8 * g + k /\ 8 * g + 8 <= len
  BY <1>0
<1>2. PackedBytes \in Nat /\ 8 * PackedBytes >= 3 * len
  BY <1>0, BytesHold DEF Bytes
<1>3. /\ 3 * g \in 0..(PackedBytes - 1) /\ 3 * g + 1 \in 0..(PackedBytes - 1)
      /\ 3 * g + 2 \in 0..(PackedBytes - 1)
  BY <1>0, <1>1, <1>2
<1>4. /\ packed[3 * g] = Written(len, 3, idx, 3 * g)
      /\ packed[3 * g + 1] = Written(len, 3, idx, 3 * g + 1)
      /\ packed[3 * g + 2] = Written(len, 3, idx, 3 * g + 2)
  BY <1>3 DEF Whole
<1>5. \A j \in 0..2 : Bit(len, 3, idx, i * 3 + j) <=> j \in idx[i]
  <2>1. 0..2 = 0..(3 - 1) /\ 3 \in 1..8
    OBVIOUS
  <2>2. QED BY <1>0, <2>1, BitOfIndex, Zenon
<1>6. ASSUME NEW j \in 0..2
      PROVE  /\ 3 * k + j < 8 => (3 * k + j \in packed[3 * g] <=> j \in idx[i])
             /\ 8 <= 3 * k + j /\ 3 * k + j < 16 =>
                  (3 * k + j - 8 \in packed[3 * g + 1] <=> j \in idx[i])
             /\ 16 <= 3 * k + j => (3 * k + j - 16 \in packed[3 * g + 2] <=> j \in idx[i])
  <2>1. PICK x \in 0..23 : x = 3 * k + j
    OBVIOUS
  <2>2. i * 3 + j = 24 * g + x
    BY <1>1, <2>1
  <2>3. Bit(len, 3, idx, 24 * g + x) <=> j \in idx[i]
    BY <1>5, <2>2
  <2>4. ASSUME x < 8 PROVE x \in packed[3 * g] <=> j \in idx[i]
    <3>1. x \in 0..7 /\ 8 * (3 * g) + x = 24 * g + x
      BY <2>4
    <3>2. x \in packed[3 * g] <=> Bit(len, 3, idx, 8 * (3 * g) + x)
      BY <1>4, <3>1, Zenon DEF Written
    <3>3. QED BY <2>3, <3>1, <3>2, Zenon
  <2>5. ASSUME 8 <= x, x < 16 PROVE x - 8 \in packed[3 * g + 1] <=> j \in idx[i]
    <3>1. x - 8 \in 0..7 /\ 8 * (3 * g + 1) + (x - 8) = 24 * g + x
      BY <2>5
    <3>2. x - 8 \in packed[3 * g + 1] <=> Bit(len, 3, idx, 8 * (3 * g + 1) + (x - 8))
      BY <1>4, <3>1, Zenon DEF Written
    <3>3. QED BY <2>3, <3>1, <3>2, Zenon
  <2>6. ASSUME 16 <= x PROVE x - 16 \in packed[3 * g + 2] <=> j \in idx[i]
    <3>1. x - 16 \in 0..7 /\ 8 * (3 * g + 2) + (x - 16) = 24 * g + x
      BY <2>6
    <3>2. x - 16 \in packed[3 * g + 2] <=> Bit(len, 3, idx, 8 * (3 * g + 2) + (x - 16))
      BY <1>4, <3>1, Zenon DEF Written
    <3>3. QED BY <2>3, <3>1, <3>2, Zenon
  <2>7. /\ x < 8 => (x \in packed[3 * g] <=> j \in idx[i])
        /\ 8 <= x /\ x < 16 => (x - 8 \in packed[3 * g + 1] <=> j \in idx[i])
        /\ 16 <= x => (x - 16 \in packed[3 * g + 2] <=> j \in idx[i])
    BY <2>4, <2>5, <2>6, Zenon
  <2>8. QED BY <2>1, <2>7
<1>7. /\ packed[3 * g] \in SUBSET (0..7) /\ packed[3 * g + 1] \in SUBSET (0..7)
      /\ packed[3 * g + 2] \in SUBSET (0..7) /\ idx[i] \in SUBSET (0..2)
  <2>1. idx[i] \in SUBSET (0..2)
    BY <1>0 DEF Row
  <2>2. QED BY <1>4, <2>1 DEF Written
<1>8. Group(g) = packed[3 * g] \cup Shl(packed[3 * g + 1], 8) \cup Shl(packed[3 * g + 2], 16)
  BY DEF Group, ByteAt
<1>9. Low(Shr(Group(g), 3 * k), 3) = idx[i]
  <2>1. InGroup(k, idx[i], packed[3 * g], packed[3 * g + 1], packed[3 * g + 2])
    BY <1>1, <1>6, <1>7 DEF InGroup
  <2>2. Low(Shr(packed[3 * g] \cup Shl(packed[3 * g + 1], 8) \cup Shl(packed[3 * g + 2], 16), 3 * k), 3)
        = idx[i]
    BY <2>1, ReadGroup
  <2>3. QED BY <1>8, <2>2
<1>10. QED BY <1>1, <1>9

\* An index of a whole row lies where its first bit is.
LEMMA Split8 ==
  ASSUME NEW q \in Nat
  PROVE  q \div 8 \in Nat /\ q % 8 \in 0..7 /\ q = 8 * (q \div 8) + (q % 8)
OBVIOUS

\* Both ways through a stream find it.
LEMMA StreamReads ==
  ASSUME Whole, NEW i \in Coords
  PROVE  FromStream(i) = idx[i]
<1>0. len \in Nat /\ bits \in 1..8 /\ i \in Nat
  BY DEF Whole, Row, Coords
<1>1. PICK B \in Nat, o \in 0..7 : B = (i * bits) \div 8 /\ o = (i * bits) % 8 /\ i * bits = 8 * B + o
  <2>1. i * bits \in Nat
    BY <1>0
  <2>2. QED BY <2>1, Split8
<1>2. InBytes(bits, o, idx[i], packed[B], packed[B + 1])
  BY <1>1, IndexIn
<1>3. FromStream(i) =
        Low(IF o + bits > 8 THEN Shr(packed[B], o) \cup Shl(packed[B + 1], 8 - o)
            ELSE Shr(packed[B], o), bits)
  BY <1>1, Zenon DEF FromStream, ByteAt
<1>4. CASE o + bits > 8
  BY <1>2, <1>3, <1>4, ReadBoth
<1>5. CASE ~(o + bits > 8)
  <2>1. o + bits <= 8
    BY <1>0, <1>5
  <2>2. Low(Shr(packed[B], o), bits) = idx[i]
    BY <1>2, <2>1, ReadHere, Zenon
  <2>3. QED BY <1>3, <1>5, <2>2, Zenon
<1>6. QED BY <1>4, <1>5

\* A field of a plane never straddles.
LEMMA PlaneReads ==
  ASSUME Whole, NEW w \in {1, 2, 4}, bits = w, NEW p \in {2, 4, 8}, p * w = 8, NEW i \in Coords
  PROVE  /\ Low(Shr(ByteAt(i \div p), w * (i % p)), w) = idx[i]
         /\ Low(InWord(i \div p, w * (i % p)), w) = idx[i]
<1>0. len \in Nat /\ i \in Nat
  BY DEF Whole, Row, Coords
<1>1. PICK B \in Nat, m \in 0..(p - 1) : B = i \div p /\ m = i % p /\ i = p * B + m
  <2>1. CASE p = 2
    BY <2>1, <1>0
  <2>2. CASE p = 4
    BY <2>2, <1>0
  <2>3. CASE p = 8
    BY <2>3, <1>0
  <2>4. QED BY <2>1, <2>2, <2>3
<1>2. PICK o \in 0..7 : o = w * m /\ o + w <= 8 /\ i * w = 8 * B + o
  <2>1. CASE w = 1
    BY <2>1, <1>1
  <2>2. CASE w = 2
    BY <2>2, <1>1
  <2>3. CASE w = 4
    BY <2>3, <1>1
  <2>4. QED BY <2>1, <2>2, <2>3
<1>3. InBytes(w, o, idx[i], packed[B], packed[B + 1])
  BY <1>2, IndexIn
<1>4. /\ Low(Shr(packed[B], o), w) = idx[i]
      /\ Low(Shr(packed[B], o) \cup Shl(packed[B + 1], 8 - o), w) = idx[i]
  BY <1>2, <1>3, ReadHere
<1>5. InWord(B, o) = Shr(packed[B], o) \cup (IF B % 4 < 3 THEN Shl(packed[B + 1], 8 - o) ELSE {})
  BY DEF InWord, ByteAt
<1>6. Low(InWord(B, o), w) = idx[i]
  <2>1. CASE B % 4 < 3
    BY <1>4, <1>5, <2>1, Zenon
  <2>2. CASE ~(B % 4 < 3)
    <3>1. InWord(B, o) = Shr(packed[B], o)
      BY <1>5, <2>2
    <3>2. QED BY <1>4, <3>1
  <2>3. QED BY <2>1, <2>2
<1>7. QED BY <1>1, <1>2, <1>4, <1>6, Zenon DEF ByteAt

\* The host reads a whole row as it was.
LEMMA HostReads ==
  ASSUME Whole, NEW i \in Coords
  PROVE  Unpacked(i) = idx[i]
<1>0. len \in Nat /\ bits \in 1..8
  BY DEF Whole, Row
<1>1. CASE bits = 3 /\ len % 8 = 0
  <2>1. Unpacked(i) = Low(Shr(Group(i \div 8), 3 * (i % 8)), 3)
    BY <1>1 DEF Unpacked, Layout
  <2>2. QED BY <1>1, <2>1, GroupIn
<1>2. CASE bits \in {1, 2, 4}
  <2>1. Unpacked(i) = Low(Shr(ByteAt(i \div PerByte), bits * (i % PerByte)), bits)
    BY <1>2 DEF Unpacked, Layout
  <2>2. PICK p \in {2, 4, 8} : p = PerByte /\ p * bits = 8
    BY <1>2 DEF PerByte
  <2>3. QED BY <1>2, <2>1, <2>2, PlaneReads
<1>3. CASE ~(bits = 3 /\ len % 8 = 0) /\ bits \notin {1, 2, 4}
  <2>1. Unpacked(i) = FromStream(i)
    BY <1>3 DEF Unpacked, Layout
  <2>2. QED BY <2>1, StreamReads
<1>4. QED BY <1>1, <1>2, <1>3

\* And so does the device.
LEMMA DeviceReads ==
  ASSUME Whole, len % 8 = 0, NEW i \in Coords
  PROVE  Device(i) = idx[i]
<1>0. len \in Nat /\ bits \in 1..8 /\ i \in Nat
  BY DEF Whole, Row, Coords
<1>1. CASE bits = 3
  <2>1. Device(i) = Low(Shr(Group(i \div 8), 3 * (i % 8)), 3)
    BY <1>1 DEF Device
  <2>2. QED BY <1>1, <2>1, GroupIn
<1>2. CASE bits = 2
  <2>1. Device(i) = Low(InWord(i \div 4, 2 * (i % 4)), 2)
    BY <1>2 DEF Device
  <2>2. QED BY <1>2, <2>1, PlaneReads
<1>3. CASE bits = 4
  <2>1. Device(i) = Low(InWord(i \div 2, 4 * (i % 2)), 4)
    BY <1>3 DEF Device
  <2>2. QED BY <1>3, <2>1, PlaneReads
<1>4. CASE bits \notin {2, 3, 4}
  <2>1. PICK B \in Nat, o \in 0..7 : B = (i * bits) \div 8 /\ o = (i * bits) % 8 /\ i * bits = 8 * B + o
    <3>1. i * bits \in Nat
      BY <1>0
    <3>2. QED BY <3>1, Split8
  <2>2. InBytes(bits, o, idx[i], packed[B], packed[B + 1])
    BY <2>1, IndexIn
  <2>3. Device(i) = IF o + bits > 8
                    THEN Low(InWord(B, o), bits) \cup Shl(Low(packed[B + 1], o + bits - 8), 8 - o)
                    ELSE Low(InWord(B, o), bits)
    BY <1>4, <2>1, Zenon DEF Device, ByteAt
  <2>4. InWord(B, o) = Shr(packed[B], o) \cup (IF B % 4 < 3 THEN Shl(packed[B + 1], 8 - o) ELSE {})
    BY DEF InWord, ByteAt
  <2>5. CASE o + bits > 8
    <3>1. /\ Low(Shr(packed[B], o) \cup Shl(packed[B + 1], 8 - o), bits)
             \cup Shl(Low(packed[B + 1], o + bits - 8), 8 - o) = idx[i]
          /\ Low(Shr(packed[B], o), bits) \cup Shl(Low(packed[B + 1], o + bits - 8), 8 - o) = idx[i]
      BY <2>2, <2>5, ReadBoth, Zenon
    <3>2. InWord(B, o) = Shr(packed[B], o) \cup Shl(packed[B + 1], 8 - o) \/ InWord(B, o) = Shr(packed[B], o)
      BY <2>4
    <3>3. QED BY <2>3, <2>5, <3>1, <3>2, Zenon
  <2>6. CASE ~(o + bits > 8)
    <3>1. o + bits <= 8
      BY <1>0, <2>6
    <3>2. /\ Low(Shr(packed[B], o), bits) = idx[i]
          /\ Low(Shr(packed[B], o) \cup Shl(packed[B + 1], 8 - o), bits) = idx[i]
      BY <2>2, <3>1, ReadHere, Zenon
    <3>3. InWord(B, o) = Shr(packed[B], o) \cup Shl(packed[B + 1], 8 - o) \/ InWord(B, o) = Shr(packed[B], o)
      BY <2>4
    <3>4. QED BY <2>3, <2>6, <3>2, <3>3, Zenon
  <2>7. QED BY <2>5, <2>6
<1>5. QED BY <1>1, <1>2, <1>3, <1>4

-----------------------------------------------------------------------------
\* Packed so far: index by index, group by group, plane by plane; on the device lane
\* by lane, or index by index.
Slots == 0..(PackedBytes - 1)
HasAll(b) == packed[b] = Written(len, bits, idx, b)
HasSoFar == unit \in 0..len /\ \A b \in Slots : packed[b] = Written(unit, bits, idx, b)

KvShape ==
  /\ kvAt \in {"store", "lanes", "stored"}
  /\ Row(len, bits, idx) /\ len > 0 /\ unit \in Nat
  /\ packed = [b \in 0..PackedBytes |-> packed[b]]
  /\ packed[PackedBytes] = Old
KvStore ==
  /\ Layout = "stream" => HasSoFar /\ touched = {b \in Slots : 8 * b < unit * bits}
  /\ Layout = "groups" => /\ unit <= len \div 8 /\ \A b \in 0..(3 * unit - 1) : HasAll(b)
                          /\ touched = 0..(3 * unit - 1)
  /\ Layout = "planes" => /\ unit <= CeilDiv(len, PerByte) /\ \A b \in 0..(unit - 1) : HasAll(b)
                          /\ touched = 0..(unit - 1)
KvLanes ==
  /\ len % 8 = 0 /\ touched = {}
  /\ IF ByLanes
     THEN lanes \subseteq Slots /\ \A b \in Slots : IF b \in lanes THEN packed[b] = {} ELSE HasAll(b)
     ELSE lanes = {} /\ HasSoFar
KvStored == touched = Slots /\ \A b \in Slots : HasAll(b)
KvIInv ==
  /\ KvShape
  /\ kvAt = "store" => KvStore
  /\ kvAt = "lanes" => KvLanes
  /\ kvAt = "stored" => KvStored

\* The layout is a matter of the length and the width.
LEMMA SameLayout ==
  ASSUME UNCHANGED <<len, bits>>
  PROVE  /\ PackedBytes' = PackedBytes /\ Layout' = Layout /\ PerByte' = PerByte
         /\ Slots' = Slots /\ ByLanes' = ByLanes /\ LaneBytes' = LaneBytes /\ Coords' = Coords
BY DEF PackedBytes, CeilDiv, Layout, PerByte, Slots, ByLanes, LaneBytes, Coords

\* The layouts, and the three there are.
LEMMA LayoutIs ==
  ASSUME bits \in 1..8
  PROVE  /\ Layout = "groups" <=> bits = 3 /\ len % 8 = 0
         /\ Layout = "planes" <=> bits \in {1, 2, 4}
         /\ Layout = "stream" <=> ~(bits = 3 /\ len % 8 = 0) /\ bits \notin {1, 2, 4}
BY DEF Layout

\* No bits before the first index.
LEMMA WrittenNone ==
  ASSUME NEW w, NEW v, NEW b
  PROVE  Written(0, w, v, b) = {}
<1>1. 0..(0 - 1) = {}
  OBVIOUS
<1>2. QED BY <1>1, Zenon DEF Written, Bit

\* The lanes' bytes are the row's.
LEMMA LanesCover ==
  ASSUME len \in Nat, len % 8 = 0, bits \in {2, 3, 4}
  PROVE  LaneBytes = Slots
<1>1. CASE bits = 2
  BY <1>1 DEF LaneBytes, Slots, ByLanes, PackedBytes, CeilDiv, PerByte
<1>2. CASE bits = 3
  BY <1>2 DEF LaneBytes, Slots, ByLanes, PackedBytes, CeilDiv, PerByte
<1>3. CASE bits = 4
  BY <1>3 DEF LaneBytes, Slots, ByLanes, PackedBytes, CeilDiv, PerByte
<1>4. QED BY <1>1, <1>2, <1>3

\* A buffer before anything is packed, and the rows there are to pack.
LEMMA PackStart == KvInit => KvIInv
<1> SUFFICES ASSUME KvInit PROVE KvIInv
  OBVIOUS
<1>1. /\ len \in Nat \ {0} /\ bits \in 1..8
      /\ len \in Lengths \cup {r[1] : r \in DeviceRows}
      /\ kvAt \in {"store", "lanes"}
      /\ kvAt = "lanes" => len % 8 = 0
  BY KvPackAssumption DEF KvInit
<1>2. Row(len, bits, idx)
  <2>1. PICK p \in Patterns : idx = [i \in Coords |-> Low(p[i], bits)]
    BY DEF KvInit
  <2>2. \A i \in 0..(len - 1) : p[i] \subseteq 0..7
    BY <1>1, KvPackAssumption
  <2>3. \A i \in 0..(len - 1) : idx[i] \subseteq 0..(bits - 1)
    <3> TAKE i \in 0..(len - 1)
    <3>1. idx[i] = Low(p[i], bits)
      BY <2>1 DEF Coords
    <3>2. p[i] \subseteq 0..7
      BY <2>2
    <3>3. QED BY <1>1, <3>1, <3>2 DEF Low
  <2>4. QED BY <1>1, <2>3 DEF Row
<1>3. PackedBytes \in Nat
  BY <1>1, BytesHold DEF Bytes
<1>4. /\ unit = 0 /\ touched = {}
      /\ \/ packed = Cleared /\ kvAt = "store"
         \/ packed = ClearedWords /\ lanes = LaneBytes /\ kvAt = "lanes"
  BY DEF KvInit
<1>5. KvShape
  <2>1. packed = [b \in 0..PackedBytes |-> packed[b]] /\ packed[PackedBytes] = Old
    BY <1>3, <1>4 DEF Cleared, ClearedWords
  <2>2. QED BY <1>1, <1>2, <1>4, <2>1 DEF KvShape
<1>6. ASSUME kvAt = "store" PROVE KvStore
  <2>1. packed = Cleared
    BY <1>4, <1>6
  <2>2. Layout # "groups" => \A b \in Slots : packed[b] = {}
    BY <1>3, <2>1 DEF Slots, Cleared
  <2>3. Layout = "stream" => HasSoFar
    BY <1>1, <1>4, <2>2, WrittenNone DEF HasSoFar
  <2>4. {b \in Slots : 8 * b < unit * bits} = {}
    BY <1>1, <1>3, <1>4 DEF Slots
  <2>5. 0..(3 * unit - 1) = {} /\ 0..(unit - 1) = {}
    BY <1>4
  <2>6. unit <= len \div 8
    BY <1>1, <1>4
  <2>7. Layout = "planes" => unit <= CeilDiv(len, PerByte)
    <3> SUFFICES ASSUME Layout = "planes" PROVE unit <= CeilDiv(len, PerByte)
      OBVIOUS
    <3>1. bits \in {1, 2, 4}
      BY <1>1, LayoutIs
    <3>2. PerByte \in {2, 4, 8}
      BY <3>1 DEF PerByte
    <3>3. QED BY <1>1, <1>4, <3>2 DEF CeilDiv
  <2>8. QED BY <1>4, <2>3, <2>4, <2>5, <2>6, <2>7 DEF KvStore
<1>7. ASSUME kvAt = "lanes" PROVE KvLanes
  <2>1. packed = ClearedWords /\ lanes = LaneBytes
    BY <1>4, <1>7
  <2>2. \A b \in Slots : packed[b] = {}
    BY <1>3, <2>1 DEF Slots, ClearedWords
  <2>3. CASE ByLanes
    <3>1. lanes = Slots
      BY <1>1, <1>7, <2>1, <2>3, LanesCover DEF ByLanes
    <3>2. QED BY <1>1, <1>4, <1>7, <2>2, <2>3, <3>1 DEF KvLanes
  <2>4. CASE ~ByLanes
    <3>1. lanes = {}
      BY <2>1, <2>4 DEF LaneBytes
    <3>2. HasSoFar
      BY <1>1, <1>4, <2>2, WrittenNone DEF HasSoFar
    <3>3. QED BY <1>1, <1>4, <1>7, <2>4, <3>1, <3>2 DEF KvLanes
  <2>5. QED BY <2>3, <2>4
<1>8. QED BY <1>1, <1>5, <1>6, <1>7 DEF KvIInv

\* An index more of a stream, by either writer: the bytes it adds to are the one it
\* begins in and the next one.
LEMMA StreamStep ==
  ASSUME KvShape, HasSoFar, unit < len, UNCHANGED <<len, bits, idx>>, unit' = unit + 1,
         NEW B \in Nat, NEW o \in 0..7, unit * bits = 8 * B + o,
         packed'[B] = packed[B] \cup Shl8(idx[unit], o),
         B + 1 <= PackedBytes => packed'[B + 1] = packed[B + 1] \cup Shr(idx[unit], 8 - o),
         \A b \in (0..PackedBytes) \ {B, B + 1} : packed'[b] = packed[b]
  PROVE  /\ HasSoFar' /\ packed'[PackedBytes] = Old
         /\ B < PackedBytes /\ (o + bits > 8 => B + 1 < PackedBytes)
<1>0. /\ len \in Nat /\ bits \in 1..8 /\ unit \in Nat /\ unit \in 0..(len - 1)
      /\ PackedBytes \in Nat /\ 8 * PackedBytes >= len * bits
      /\ idx[unit] \subseteq 0..(bits - 1)
  <2>1. len \in Nat /\ bits \in 1..8 /\ unit \in Nat /\ unit \in 0..(len - 1)
    BY DEF KvShape, Row
  <2>2. PackedBytes \in Nat /\ 8 * PackedBytes >= len * bits
    BY <2>1, BytesHold DEF Bytes
  <2>3. QED BY <2>1, <2>2 DEF KvShape, Row
<1>1. unit * bits + bits <= len * bits /\ len * bits \in Nat
  BY <1>0, Apart
<1>2. B < PackedBytes /\ (o + bits > 8 => B + 1 < PackedBytes)
  BY <1>0, <1>1
<1>3. /\ Adds(bits, idx, unit, B) = Shl8(idx[unit], o)
      /\ Adds(bits, idx, unit, B + 1) = Shr(idx[unit], 8 - o)
      /\ o + bits <= 8 => Shr(idx[unit], 8 - o) = {}
      /\ \A b \in Nat : b # B /\ b # B + 1 => Adds(bits, idx, unit, b) = {}
  <2>1. PICK v : v = idx
    OBVIOUS
  <2>2. PICK u \in Nat : u = unit
    BY <1>0
  <2>3. PICK w \in 1..8 : w = bits
    BY <1>0
  <2>4. v[u] \subseteq 0..(w - 1) /\ u * w = 8 * B + o
    BY <1>0, <2>1, <2>2, <2>3
  <2>5. /\ Adds(w, v, u, B) = Shl8(v[u], o)
        /\ Adds(w, v, u, B + 1) = Shr(v[u], 8 - o)
        /\ o + w <= 8 => Shr(v[u], 8 - o) = {}
        /\ \A b \in Nat : b # B /\ b # B + 1 => Adds(w, v, u, b) = {}
    BY <2>4, AddsAre
  <2>6. QED BY <2>1, <2>2, <2>3, <2>5
<1>4. \A b \in Slots : packed'[b] = Written(unit, bits, idx, b) \cup Adds(bits, idx, unit, b)
  <2> TAKE b \in Slots
  <2>0. b \in Nat /\ b < PackedBytes /\ packed[b] = Written(unit, bits, idx, b)
    BY <1>0 DEF HasSoFar, Slots
  <2>1. CASE b = B
    BY <1>3, <2>0, <2>1, Zenon
  <2>2. CASE b = B + 1
    <3>1. B + 1 <= PackedBytes
      BY <2>0, <2>2, <1>0
    <3>2. QED BY <1>3, <2>0, <2>2, <3>1, Zenon
  <2>3. CASE b # B /\ b # B + 1
    <3>1. packed'[b] = packed[b]
      BY <1>0, <2>0, <2>3
    <3>2. Adds(bits, idx, unit, b) = {}
      BY <1>3, <2>0, <2>3
    <3>3. QED BY <2>0, <3>1, <3>2
  <2>4. QED BY <2>1, <2>2, <2>3
<1>5. \A b \in Slots : packed'[b] = Written(unit + 1, bits, idx, b)
  <2> TAKE b \in Slots
  <2>1. Written(unit + 1, bits, idx, b) = Written(unit, bits, idx, b) \cup Adds(bits, idx, unit, b)
    BY <1>0, WrittenNext
  <2>2. QED BY <1>4, <2>1, Zenon
<1>6. HasSoFar'
  <2>1. Slots' = Slots /\ unit' \in 0..len' /\ bits' = bits /\ idx' = idx
    BY <1>0, SameLayout
  <2>2. QED BY <1>5, <2>1 DEF HasSoFar
<1>7. packed'[PackedBytes] = Old
  <2>1. CASE PackedBytes = B + 1
    <3>1. o + bits <= 8 /\ B + 1 <= PackedBytes
      BY <1>0, <1>2, <2>1
    <3>2. packed'[B + 1] = packed[B + 1]
      BY <1>3, <3>1
    <3>3. QED BY <2>1, <3>2 DEF KvShape
  <2>2. CASE PackedBytes # B + 1
    BY <1>0, <1>2, <2>2 DEF KvShape
  <2>3. QED BY <2>1, <2>2
<1>8. QED BY <1>2, <1>6, <1>7

\* What does not straddle leaves nothing to the next byte.
LEMMA NothingOver ==
  ASSUME NEW s, NEW w \in 1..8, s \subseteq 0..(w - 1), NEW o \in 0..7, o + w <= 8
  PROVE  Shr(s, 8 - o) = {}
BY DEF Shr

\* A byte put into a row.
IsRow(f, n) == f = [b \in 0..n |-> f[b]]
Puts(f, n, B, s, g) == IsRow(g, n) /\ g[B] = s /\ \A b \in (0..n) \ {B} : g[b] = f[b]

\* An assignment to one byte leaves the others alone.
LEMMA PutByte ==
  ASSUME NEW f, NEW n \in Nat, IsRow(f, n), NEW B \in 0..n, NEW s, NEW g, g = [f EXCEPT ![B] = s]
  PROVE  Puts(f, n, B, s, g)
<1>1. DOMAIN f = 0..n
  BY DEF IsRow
<1>2. g = [b \in 0..n |-> IF b = B THEN s ELSE f[b]]
  BY <1>1
<1>3. QED BY <1>2 DEF Puts, IsRow

\* What the packing keeps of the row itself.
LEMMA ShapeKept ==
  ASSUME KvShape, UNCHANGED <<len, bits, idx>>, kvAt' \in {"store", "lanes", "stored"}, unit' \in Nat,
         packed' = [b \in 0..PackedBytes |-> packed'[b]], packed'[PackedBytes] = Old
  PROVE  KvShape'
<1>1. PackedBytes' = PackedBytes
  BY SameLayout DEF KvShape
<1>2. Row(len, bits, idx)' /\ len' > 0
  BY DEF KvShape
<1>3. packed' = [b \in 0..PackedBytes' |-> packed'[b]] /\ packed'[PackedBytes'] = Old
  BY <1>1
<1>4. QED BY <1>2, <1>3 DEF KvShape, Old

\* An index of a stream, by the host.
LEMMA PackOneStep ==
  ASSUME KvIInv, PackOne
  PROVE  KvIInv'
<1>0. /\ KvShape /\ KvStore /\ HasSoFar /\ kvAt = "store" /\ Layout = "stream" /\ unit < len
      /\ touched = {b \in Slots : 8 * b < unit * bits}
      /\ UNCHANGED <<kvAt, len, bits, idx, lanes>> /\ unit' = unit + 1
      /\ len \in Nat /\ bits \in 1..8 /\ unit \in Nat /\ PackedBytes \in Nat
  <2>1. KvShape /\ KvStore /\ kvAt = "store" /\ Layout = "stream" /\ unit < len
        /\ UNCHANGED <<kvAt, len, bits, idx, lanes>> /\ unit' = unit + 1
    BY DEF KvIInv, PackOne
  <2>2. len \in Nat /\ bits \in 1..8 /\ unit \in Nat
    BY <2>1 DEF KvShape, Row
  <2>3. PackedBytes \in Nat
    BY <2>2, BytesHold DEF Bytes
  <2>4. QED BY <2>1, <2>2, <2>3 DEF KvStore
<1>1. PICK B \in Nat, o \in 0..7 : B = (unit * bits) \div 8 /\ o = (unit * bits) % 8 /\ unit * bits = 8 * B + o
  <2>1. unit * bits \in Nat
    BY <1>0
  <2>2. QED BY <2>1, Split8
<1>2. PICK one : one = [packed EXCEPT ![B] = @ \cup Shl8(idx[unit], o)]
  OBVIOUS
<1>3. IF o + bits > 8
      THEN /\ packed' = [one EXCEPT ![B + 1] = @ \cup Shr(idx[unit], 8 - o)]
           /\ touched' = touched \cup {B, B + 1}
      ELSE packed' = one /\ touched' = touched \cup {B}
  BY <1>1, <1>2, Zenon DEF PackOne, Straddles
<1>4. packed = [b \in 0..PackedBytes |-> packed[b]]
  BY <1>0 DEF KvShape
<1>b. B < PackedBytes /\ (o + bits > 8 => B + 1 < PackedBytes)
  <2>1. unit * bits + bits <= len * bits /\ len * bits \in Nat
    BY <1>0, Apart
  <2>2. 8 * PackedBytes >= len * bits
    BY <1>0, BytesHold DEF Bytes
  <2>3. QED BY <1>0, <1>1, <2>1, <2>2
<1>s. idx[unit] \subseteq 0..(bits - 1)
  BY <1>0 DEF KvShape, Row
<1>5. /\ packed' = [b \in 0..PackedBytes |-> packed'[b]]
      /\ packed'[B] = packed[B] \cup Shl8(idx[unit], o)
      /\ B + 1 <= PackedBytes => packed'[B + 1] = packed[B + 1] \cup Shr(idx[unit], 8 - o)
      /\ \A b \in (0..PackedBytes) \ {B, B + 1} : packed'[b] = packed[b]
  <2>0. /\ IsRow(one, PackedBytes) /\ one[B] = packed[B] \cup Shl8(idx[unit], o)
        /\ \A b \in (0..PackedBytes) \ {B} : one[b] = packed[b]
    <3>1. IsRow(packed, PackedBytes)
      BY <1>4, Zenon DEF IsRow
    <3>2. B \in 0..PackedBytes
      BY <1>0, <1>b
    <3>3. Puts(packed, PackedBytes, B, packed[B] \cup Shl8(idx[unit], o), one)
      BY <1>0, <1>2, <3>1, <3>2, PutByte
    <3>4. QED BY <3>3 DEF Puts
  <2>1. CASE o + bits > 8
    <3>1. packed' = [one EXCEPT ![B + 1] = one[B + 1] \cup Shr(idx[unit], 8 - o)]
      BY <1>3, <2>1
    <3>3. B + 1 # B /\ B \in 0..PackedBytes /\ B + 1 \in 0..PackedBytes
      BY <1>0, <1>1, <1>b, <2>1
    <3>2. Puts(one, PackedBytes, B + 1, one[B + 1] \cup Shr(idx[unit], 8 - o), packed')
      BY <1>0, <2>0, <3>1, <3>3, PutByte
    <3>4. packed'[B] = one[B]
      BY <3>2, <3>3, Zenon DEF Puts
    <3>5. packed'[B + 1] = packed[B + 1] \cup Shr(idx[unit], 8 - o)
      <4>1. packed'[B + 1] = one[B + 1] \cup Shr(idx[unit], 8 - o)
        BY <3>2, Zenon DEF Puts
      <4>2. one[B + 1] = packed[B + 1]
        BY <2>0, <3>3
      <4>3. QED BY <4>1, <4>2
    <3>6. \A b \in (0..PackedBytes) \ {B, B + 1} : packed'[b] = packed[b]
      BY <2>0, <3>2 DEF Puts
    <3>7. packed' = [b \in 0..PackedBytes |-> packed'[b]]
      BY <3>2, Zenon DEF Puts, IsRow
    <3>8. QED BY <2>0, <3>4, <3>5, <3>6, <3>7
  <2>2. CASE ~(o + bits > 8)
    <3>1. packed' = one
      BY <1>3, <2>2
    <3>2. Shr(idx[unit], 8 - o) = {}
      <4>1. bits \in 1..8 /\ o \in 0..7 /\ o + bits <= 8
        BY <1>0, <2>2
      <4>2. QED BY <4>1, <1>s, NothingOver
    <3>3. B + 1 <= PackedBytes => one[B + 1] = packed[B + 1]
      <4>1. B + 1 <= PackedBytes => B + 1 \in (0..PackedBytes) \ {B}
        BY <1>0, <1>1
      <4>2. QED BY <2>0, <4>1
    <3>4. packed' = [b \in 0..PackedBytes |-> packed'[b]]
      BY <2>0, <3>1, Zenon DEF IsRow
    <3>5. \A b \in (0..PackedBytes) \ {B, B + 1} : packed'[b] = packed[b]
      BY <2>0, <3>1
    <3>6. QED BY <2>0, <3>1, <3>2, <3>3, <3>4, <3>5
  <2>3. QED BY <2>1, <2>2
<1>6. /\ HasSoFar' /\ packed'[PackedBytes] = Old
      /\ B < PackedBytes /\ (o + bits > 8 => B + 1 < PackedBytes)
  BY <1>0, <1>1, <1>5, StreamStep
<1>7. KvShape'
  BY <1>0, <1>5, <1>6, ShapeKept
<1>8. touched' = {b \in Slots : 8 * b < (unit + 1) * bits}
  <2>1. (unit + 1) * bits = 8 * B + o + bits
    BY <1>0, <1>1
  <2>2. \A b : b \in touched' <=> b \in touched \/ b = B \/ (o + bits > 8 /\ b = B + 1)
    BY <1>3
  <2>3. \A b \in Slots : b \in Int
    BY DEF Slots
  <2>4. B \in Slots /\ (o + bits > 8 => B + 1 \in Slots)
    BY <1>0, <1>6 DEF Slots
  <2>5. \A b : b \in touched <=> b \in Slots /\ 8 * b < 8 * B + o
    BY <1>0, <1>1
  <2>6. \A b : b \in touched' <=> b \in Slots /\ 8 * b < 8 * B + o + bits
    <3> TAKE b
    <3>1. CASE b \notin Slots
      BY <2>2, <2>4, <2>5, <3>1
    <3>2. CASE b \in Slots
      <4>1. b \in Int
        BY <2>3, <3>2
      <4>2. b \in touched' <=> 8 * b < 8 * B + o \/ b = B \/ (o + bits > 8 /\ b = B + 1)
        BY <2>2, <2>5, <3>2, Zenon
      <4>3. (8 * b < 8 * B + o \/ b = B \/ (o + bits > 8 /\ b = B + 1)) <=> 8 * b < 8 * B + o + bits
        BY <1>0, <1>1, <4>1
      <4>4. QED BY <3>2, <4>2, <4>3
    <3>3. QED BY <3>1, <3>2
  <2>7. QED BY <2>1, <2>6
<1>9. KvStore'
  <2>1. Layout' = "stream" /\ Slots' = Slots
    BY <1>0, SameLayout
  <2>2. QED BY <1>0, <1>6, <1>8, <2>1 DEF KvStore
<1>10. QED BY <1>0, <1>7, <1>9 DEF KvIInv

\* A group, whose three bytes are written as they were computed.
LEMMA PackGroupStep ==
  ASSUME KvIInv, PackGroup
  PROVE  KvIInv'
<1>0. /\ KvShape /\ KvStore /\ kvAt = "store" /\ Layout = "groups" /\ unit < len \div 8
      /\ \A b \in 0..(3 * unit - 1) : HasAll(b)
      /\ touched = 0..(3 * unit - 1)
      /\ UNCHANGED <<kvAt, len, bits, idx, lanes>> /\ unit' = unit + 1
      /\ len \in Nat /\ bits = 3 /\ len % 8 = 0 /\ unit \in Nat /\ Row(len, 3, idx)
  <2>1. KvShape /\ KvStore /\ kvAt = "store" /\ Layout = "groups" /\ unit < len \div 8
        /\ UNCHANGED <<kvAt, len, bits, idx, lanes>> /\ unit' = unit + 1
    BY DEF KvIInv, PackGroup
  <2>2. len \in Nat /\ bits \in 1..8 /\ unit \in Nat /\ Row(len, bits, idx)
    BY <2>1 DEF KvShape, Row
  <2>3. bits = 3 /\ len % 8 = 0
    BY <2>1, <2>2, LayoutIs
  <2>4. QED BY <2>1, <2>2, <2>3 DEF KvStore
<1>1. PackedBytes \in Nat /\ 3 * unit + 2 < PackedBytes
  <2>1. PackedBytes \in Nat /\ 8 * PackedBytes >= len * 3
    BY <1>0, BytesHold DEF Bytes
  <2>2. 8 * unit + 8 <= len
    BY <1>0
  <2>3. QED BY <1>0, <2>1, <2>2
<1>2. PICK v : v = GroupBits(unit)
  OBVIOUS
<1>3. v \in SUBSET Int /\ \A x \in Int : x \in v <=> x \in 0..23 /\ Bit(len, 3, idx, 24 * unit + x)
  BY <1>0, <1>2, GroupIs
<1>4. /\ packed' = [packed EXCEPT ![3 * unit] = Low(v, 8), ![3 * unit + 1] = Low(Shr(v, 8), 8),
                                  ![3 * unit + 2] = Shr(v, 16)]
      /\ touched' = touched \cup {3 * unit + k : k \in 0..2}
  BY <1>2, Zenon DEF PackGroup
<1>5. packed = [b \in 0..PackedBytes |-> packed[b]] /\ packed[PackedBytes] = Old
  BY <1>0 DEF KvShape
<1>6. /\ packed' = [b \in 0..PackedBytes |-> packed'[b]]
      /\ packed'[3 * unit] = Low(v, 8) /\ packed'[3 * unit + 1] = Low(Shr(v, 8), 8)
      /\ packed'[3 * unit + 2] = Shr(v, 16)
      /\ \A b \in (0..PackedBytes) \ {3 * unit, 3 * unit + 1, 3 * unit + 2} : packed'[b] = packed[b]
  <2>1. PICK f : f = [packed EXCEPT ![3 * unit] = Low(v, 8)]
    OBVIOUS
  <2>2. PICK h : h = [f EXCEPT ![3 * unit + 1] = Low(Shr(v, 8), 8)]
    OBVIOUS
  <2>3. packed' = [h EXCEPT ![3 * unit + 2] = Shr(v, 16)]
    BY <1>4, <2>1, <2>2, Zenon
  <2>4. IsRow(packed, PackedBytes) /\ 3 * unit \in 0..PackedBytes /\ 3 * unit + 1 \in 0..PackedBytes
        /\ 3 * unit + 2 \in 0..PackedBytes /\ 3 * unit + 1 # 3 * unit /\ 3 * unit + 2 # 3 * unit
        /\ 3 * unit + 2 # 3 * unit + 1
    BY <1>0, <1>1, <1>5 DEF IsRow
  <2>5. Puts(packed, PackedBytes, 3 * unit, Low(v, 8), f)
    BY <1>1, <2>1, <2>4, PutByte
  <2>6. Puts(f, PackedBytes, 3 * unit + 1, Low(Shr(v, 8), 8), h)
    <3>1. IsRow(f, PackedBytes)
      BY <2>5, Zenon DEF Puts
    <3>2. QED BY <1>1, <2>2, <2>4, <3>1, PutByte
  <2>7. Puts(h, PackedBytes, 3 * unit + 2, Shr(v, 16), packed')
    <3>1. IsRow(h, PackedBytes)
      BY <2>6, Zenon DEF Puts
    <3>2. QED BY <1>1, <2>3, <2>4, <3>1, PutByte
  <2>8. packed'[3 * unit] = f[3 * unit] /\ packed'[3 * unit + 1] = h[3 * unit + 1]
    BY <2>4, <2>6, <2>7 DEF Puts
  <2>9. \A b \in (0..PackedBytes) \ {3 * unit, 3 * unit + 1, 3 * unit + 2} : packed'[b] = packed[b]
    BY <2>5, <2>6, <2>7 DEF Puts
  <2>10. packed' = [b \in 0..PackedBytes |-> packed'[b]]
    BY <2>7, Zenon DEF Puts, IsRow
  <2>11. /\ f[3 * unit] = Low(v, 8) /\ h[3 * unit + 1] = Low(Shr(v, 8), 8)
         /\ packed'[3 * unit + 2] = Shr(v, 16)
    BY <2>5, <2>6, <2>7, Zenon DEF Puts
  <2>12. QED BY <2>8, <2>9, <2>10, <2>11
<1>7. /\ Low(v, 8) = Written(len, bits, idx, 3 * unit)
      /\ Low(Shr(v, 8), 8) = Written(len, bits, idx, 3 * unit + 1)
      /\ Shr(v, 16) = Written(len, bits, idx, 3 * unit + 2)
  <2> DEFINE P(x) == Bit(len, 3, idx, x)
  <2>1. \A x : x \in v <=> x \in 0..23 /\ P(24 * unit + x)
    <3>1. \A x : x \in v => x \in Int
      BY <1>3
    <3>2. \A x : x \in 0..23 => x \in Int
      OBVIOUS
    <3>3. QED BY <1>3, <3>1, <3>2, Zenon
  <2>2. /\ Written(len, bits, idx, 3 * unit) = {k \in 0..7 : P(8 * (3 * unit) + k)}
        /\ Written(len, bits, idx, 3 * unit + 1) = {k \in 0..7 : P(8 * (3 * unit + 1) + k)}
        /\ Written(len, bits, idx, 3 * unit + 2) = {k \in 0..7 : P(8 * (3 * unit + 2) + k)}
    BY <1>0, Zenon DEF Written
  <2> HIDE DEF P
  <2>3. \A k \in 0..7 : /\ 8 * (3 * unit) + k = 24 * unit + k
                        /\ 8 * (3 * unit + 1) + k = 24 * unit + (k + 8)
                        /\ 8 * (3 * unit + 2) + k = 24 * unit + (k + 16)
    BY <1>0
  <2>4. Low(v, 8) = {k \in 0..7 : P(24 * unit + k)}
    <3>1. \A k : k \in Low(v, 8) <=> k \in v /\ k < 8
      BY DEF Low
    <3>2. \A k : k \in 0..23 /\ k < 8 <=> k \in 0..7
      OBVIOUS
    <3>3. QED BY <2>1, <3>1, <3>2, Zenon
  <2>5. Low(Shr(v, 8), 8) = {k \in 0..7 : P(24 * unit + (k + 8))}
    <3>1. \A k \in 0..7 : k \in Low(Shr(v, 8), 8) <=> k + 8 \in v
      BY <1>3 DEF Low, Shr
    <3>2. Low(Shr(v, 8), 8) \subseteq 0..7
      BY <1>3 DEF Low, Shr
    <3>3. \A k \in 0..7 : k + 8 \in v <=> P(24 * unit + (k + 8))
      BY <2>1
    <3>4. QED BY <3>1, <3>2, <3>3
  <2>6. Shr(v, 16) = {k \in 0..7 : P(24 * unit + (k + 16))}
    <3>1. \A k \in 0..7 : k \in Shr(v, 16) <=> k + 16 \in v
      BY <1>3 DEF Shr
    <3>2. Shr(v, 16) \subseteq 0..7
      BY <1>3 DEF Shr
    <3>3. \A k \in 0..7 : k + 16 \in v <=> P(24 * unit + (k + 16))
      BY <2>1
    <3>4. QED BY <3>1, <3>2, <3>3
  <2>7. QED BY <2>2, <2>3, <2>4, <2>5, <2>6
<1>8. packed'[PackedBytes] = Old
  <2>1. PackedBytes \in (0..PackedBytes) \ {3 * unit, 3 * unit + 1, 3 * unit + 2}
    BY <1>0, <1>1
  <2>2. QED BY <1>5, <1>6, <2>1
<1>9. KvShape'
  BY <1>0, <1>6, <1>8, ShapeKept
<1>10. \A b \in 0..(3 * (unit + 1) - 1) : packed'[b] = Written(len, bits, idx, b)
  <2> TAKE b \in 0..(3 * (unit + 1) - 1)
  <2>1. CASE b \in 0..(3 * unit - 1)
    <3>1. b \in (0..PackedBytes) \ {3 * unit, 3 * unit + 1, 3 * unit + 2}
      BY <1>0, <1>1, <2>1
    <3>2. QED BY <1>0, <1>6, <2>1, <3>1 DEF HasAll
  <2>2. CASE b \notin 0..(3 * unit - 1)
    <3>1. b = 3 * unit \/ b = 3 * unit + 1 \/ b = 3 * unit + 2
      BY <1>0, <2>2
    <3>2. QED BY <1>6, <1>7, <3>1
  <2>3. QED BY <2>1, <2>2
<1>11. touched' = 0..(3 * (unit + 1) - 1)
  <2>1. {3 * unit + k : k \in 0..2} = {3 * unit, 3 * unit + 1, 3 * unit + 2}
    <3>1. 0..2 = {0, 1, 2}
      OBVIOUS
    <3>2. QED BY <1>0, <3>1
  <2>2. 0..(3 * (unit + 1) - 1) = 0..(3 * unit - 1) \cup {3 * unit, 3 * unit + 1, 3 * unit + 2}
    BY <1>0
  <2>3. QED BY <1>0, <1>4, <2>1, <2>2
<1>12. KvStore'
  <2>1. Layout' = "groups"
    BY <1>0, SameLayout
  <2>2. \A b : HasAll(b)' <=> packed'[b] = Written(len, bits, idx, b)
    BY <1>0 DEF HasAll
  <2>3. unit' <= len' \div 8
    BY <1>0
  <2>4. QED BY <1>0, <1>10, <1>11, <2>1, <2>2, <2>3 DEF KvStore
<1>13. QED BY <1>0, <1>9, <1>12 DEF KvIInv

\* A byte of planes.
LEMMA PackPlaneStep ==
  ASSUME KvIInv, PackPlane
  PROVE  KvIInv'
<1>0. /\ KvShape /\ KvStore /\ kvAt = "store" /\ Layout = "planes" /\ unit < CeilDiv(len, PerByte)
      /\ \A b \in 0..(unit - 1) : HasAll(b)
      /\ touched = 0..(unit - 1)
      /\ UNCHANGED <<kvAt, len, bits, idx, lanes>> /\ unit' = unit + 1
      /\ len \in Nat /\ bits \in {1, 2, 4} /\ unit \in Nat /\ Row(len, bits, idx)
  <2>1. KvShape /\ KvStore /\ kvAt = "store" /\ Layout = "planes" /\ unit < CeilDiv(len, PerByte)
        /\ UNCHANGED <<kvAt, len, bits, idx, lanes>> /\ unit' = unit + 1
    BY DEF KvIInv, PackPlane
  <2>2. len \in Nat /\ bits \in 1..8 /\ unit \in Nat /\ Row(len, bits, idx)
    BY <2>1 DEF KvShape, Row
  <2>3. bits \in {1, 2, 4}
    BY <2>1, <2>2, LayoutIs
  <2>4. QED BY <2>1, <2>2, <2>3 DEF KvStore
<1>1. PackedBytes \in Nat /\ PackedBytes = CeilDiv(len, PerByte)
  <2>1. CASE bits = 1
    BY <2>1, <1>0 DEF PackedBytes, CeilDiv, PerByte
  <2>2. CASE bits = 2
    BY <2>2, <1>0 DEF PackedBytes, CeilDiv, PerByte
  <2>3. CASE bits = 4
    BY <2>3, <1>0 DEF PackedBytes, CeilDiv, PerByte
  <2>4. QED BY <1>0, <2>1, <2>2, <2>3
<1>2. packed' = [packed EXCEPT ![unit] = PlaneByte(unit)] /\ touched' = touched \cup {unit}
  BY DEF PackPlane
<1>3. Puts(packed, PackedBytes, unit, PlaneByte(unit), packed')
  <2>1. IsRow(packed, PackedBytes) /\ unit \in 0..PackedBytes
    BY <1>0, <1>1 DEF KvShape, IsRow
  <2>2. QED BY <1>1, <1>2, <2>1, PutByte
<1>4. PlaneByte(unit) = Written(len, bits, idx, unit)
  BY <1>0, PlaneIs
<1>5. packed'[PackedBytes] = Old
  <2>1. PackedBytes \in (0..PackedBytes) \ {unit}
    BY <1>0, <1>1
  <2>2. QED BY <1>0, <1>3, <2>1 DEF Puts, KvShape
<1>6. KvShape'
  <2>1. packed' = [b \in 0..PackedBytes |-> packed'[b]]
    BY <1>3, Zenon DEF Puts, IsRow
  <2>2. QED BY <1>0, <1>5, <2>1, ShapeKept
<1>7. \A b \in 0..(unit + 1 - 1) : packed'[b] = Written(len, bits, idx, b)
  <2> TAKE b \in 0..(unit + 1 - 1)
  <2>1. CASE b = unit
    BY <1>3, <1>4, <2>1 DEF Puts
  <2>2. CASE b # unit
    <3>1. b \in 0..(unit - 1) /\ b \in (0..PackedBytes) \ {unit}
      BY <1>0, <1>1, <2>2
    <3>2. QED BY <1>0, <1>3, <3>1 DEF Puts, HasAll
  <2>3. QED BY <2>1, <2>2
<1>8. touched' = 0..(unit + 1 - 1)
  BY <1>0, <1>2
<1>9. KvStore'
  <2>1. Layout' = "planes" /\ PerByte' = PerByte
    BY <1>0, SameLayout
  <2>2. \A b : HasAll(b)' <=> packed'[b] = Written(len, bits, idx, b)
    BY <1>0 DEF HasAll
  <2>3. unit' <= CeilDiv(len', PerByte')
    <3>1. unit + 1 <= CeilDiv(len, PerByte)
      BY <1>0, <1>1
    <3>2. QED BY <1>0, <2>1, <3>1
  <2>4. QED BY <1>0, <1>7, <1>8, <2>1, <2>2, <2>3 DEF KvStore
<1>10. QED BY <1>0, <1>6, <1>9 DEF KvIInv

\* The last unit was the row's.
LEMMA StoredStep ==
  ASSUME KvIInv, Stored
  PROVE  KvIInv'
<1>0. /\ KvShape /\ KvStore /\ kvAt = "store" /\ unit = Steps /\ kvAt' = "stored"
      /\ UNCHANGED <<len, bits, idx, unit, lanes, packed, touched>>
      /\ len \in Nat /\ bits \in 1..8 /\ unit \in Nat /\ Row(len, bits, idx)
  <2>1. KvShape /\ KvStore /\ kvAt = "store" /\ unit = Steps /\ kvAt' = "stored"
        /\ UNCHANGED <<len, bits, idx, unit, lanes, packed, touched>>
    BY DEF KvIInv, Stored
  <2>2. QED BY <2>1 DEF KvShape, Row
<1>1. KvStored
  <2>1. CASE bits = 3 /\ len % 8 = 0
    <3>1. Layout = "groups" /\ unit = len \div 8
      BY <1>0, <2>1, LayoutIs DEF Steps
    <3>2. Slots = 0..(3 * unit - 1)
      BY <1>0, <2>1, <3>1 DEF Slots, PackedBytes, CeilDiv
    <3>3. QED BY <1>0, <3>1, <3>2 DEF KvStore, KvStored
  <2>2. CASE bits \in {1, 2, 4}
    <3>1. Layout = "planes" /\ unit = CeilDiv(len, PerByte)
      BY <1>0, <2>2, LayoutIs DEF Steps
    <3>2. PackedBytes = CeilDiv(len, PerByte)
      <4>1. CASE bits = 1
        BY <4>1, <1>0 DEF PackedBytes, CeilDiv, PerByte
      <4>2. CASE bits = 2
        BY <4>2, <1>0 DEF PackedBytes, CeilDiv, PerByte
      <4>3. CASE bits = 4
        BY <4>3, <1>0 DEF PackedBytes, CeilDiv, PerByte
      <4>4. QED BY <2>2, <4>1, <4>2, <4>3
    <3>3. QED BY <1>0, <3>1, <3>2 DEF KvStore, KvStored, Slots
  <2>3. CASE ~(bits = 3 /\ len % 8 = 0) /\ bits \notin {1, 2, 4}
    <3>1. Layout = "stream" /\ unit = len
      BY <1>0, <2>3, LayoutIs DEF Steps
    <3>2. \A b \in Slots : packed[b] = Written(len, bits, idx, b)
      BY <1>0, <3>1 DEF KvStore, HasSoFar
    <3>3. touched = {b \in Slots : 8 * b < len * bits}
      BY <1>0, <3>1 DEF KvStore
    <3>4. Bytes
      BY <1>0, BytesHold
    <3>5. PICK q \in Nat : q = len * bits
      BY <1>0
    <3>6. \A b \in Slots : 8 * b < q
      BY <3>4, <3>5 DEF Slots, Bytes
    <3>7. touched = Slots
      BY <3>3, <3>5, <3>6
    <3>8. QED BY <3>2, <3>7 DEF KvStored, HasAll
  <2>4. QED BY <2>1, <2>2, <2>3
<1>2. KvShape'
  BY <1>0 DEF KvShape, PackedBytes, CeilDiv, Old
<1>3. KvStored'
  <2>1. Slots' = Slots
    BY <1>0, SameLayout
  <2>2. QED BY <1>0, <1>1, <2>1 DEF KvStored, HasAll
<1>4. QED BY <1>0, <1>2, <1>3 DEF KvIInv

\* The byte that a lane has to write.
LEMMA LaneIs ==
  ASSUME Row(len, bits, idx), bits \in {2, 3, 4}, len % 8 = 0, NEW b \in Slots
  PROVE  LaneByte(b) = Written(len, bits, idx, b)
<1>0. len \in Nat /\ b \in Nat
  BY DEF Row, Slots
<1>1. CASE bits \in {2, 4}
  <2>1. LaneByte(b) = PlaneByte(b)
    BY <1>1 DEF LaneByte
  <2>2. QED BY <1>0, <1>1, <2>1, PlaneIs
<1>2. CASE bits = 3
  <2>1. PICK g \in Nat, k \in 0..2 : g = b \div 3 /\ k = b % 3 /\ b = 3 * g + k /\ g < len \div 8
    <3>1. PackedBytes = 3 * (len \div 8)
      BY <1>0, <1>2 DEF PackedBytes, CeilDiv
    <3>2. b < PackedBytes
      BY <1>0, <3>1 DEF Slots
    <3>3. QED BY <1>0, <3>1, <3>2
  <2>2. PICK v : v = GroupBits(g)
    OBVIOUS
  <2>3. v \in SUBSET Int /\ \A x \in Int : x \in v <=> x \in 0..23 /\ Bit(len, 3, idx, 24 * g + x)
    BY <1>2, <2>1, <2>2, GroupIs
  <2>4. LaneByte(b) = Low(Shr(v, 8 * k), 8)
    BY <1>2, <2>1, <2>2 DEF LaneByte
  <2>5. \A x \in 0..7 : x \in Low(Shr(v, 8 * k), 8) <=> x + 8 * k \in v
    <3>1. v \in SUBSET Int /\ k \in Nat
      BY <2>1, <2>3
    <3>2. TAKE x \in 0..7
    <3>3. x \in Low(Shr(v, 8 * k), 8) <=> \E j \in v : j >= 8 * k /\ x = j - 8 * k
      BY DEF Low, Shr
    <3>4. \A j \in v : j >= 8 * k /\ x = j - 8 * k <=> j = x + 8 * k
      BY ONLY <3>1
    <3>5. QED BY <3>3, <3>4
  <2>6. Low(Shr(v, 8 * k), 8) \subseteq 0..7
    BY <2>3 DEF Low, Shr
  <2>7. \A x \in 0..7 : x + 8 * k \in v <=> Bit(len, 3, idx, 8 * b + x)
    <3> TAKE x \in 0..7
    <3>1. x + 8 * k \in 0..23 /\ 24 * g + (x + 8 * k) = 8 * b + x /\ x + 8 * k \in Int
      BY <2>1
    <3>2. x + 8 * k \in v <=> Bit(len, 3, idx, 24 * g + (x + 8 * k))
      BY <2>3, <3>1, Zenon
    <3>3. QED BY <3>1, <3>2, Zenon
  <2>8. Written(len, bits, idx, b) = {x \in 0..7 : Bit(len, 3, idx, 8 * b + x)}
    BY <1>2, Zenon DEF Written
  <2>9. QED BY <2>4, <2>5, <2>6, <2>7, <2>8
<1>3. QED BY <1>1, <1>2

\* A lane, whichever is next.
LEMMA StoreLaneStep ==
  ASSUME KvIInv, StoreLane
  PROVE  KvIInv'
<1>0. /\ KvShape /\ KvLanes /\ kvAt = "lanes"
      /\ UNCHANGED <<kvAt, len, bits, idx, unit, touched>>
      /\ len \in Nat /\ unit \in Nat /\ PackedBytes \in Nat /\ Row(len, bits, idx)
  <2>1. /\ KvShape /\ KvLanes /\ kvAt = "lanes"
        /\ UNCHANGED <<kvAt, len, bits, idx, unit, touched>>
    BY DEF KvIInv, StoreLane
  <2>2. len \in Nat /\ bits \in 1..8 /\ unit \in Nat /\ Row(len, bits, idx)
    BY <2>1 DEF KvShape, Row
  <2>3. PackedBytes \in Nat
    BY <2>2, BytesHold DEF Bytes
  <2>4. QED BY <2>1, <2>2, <2>3
<1>1. PICK b \in lanes : packed' = [packed EXCEPT ![b] = packed[b] \cup LaneByte(b)] /\ lanes' = lanes \ {b}
  BY DEF StoreLane
<1>2. /\ ByLanes /\ lanes \subseteq Slots /\ len % 8 = 0 /\ bits \in {2, 3, 4} /\ touched = {}
      /\ \A a \in Slots : IF a \in lanes THEN packed[a] = {} ELSE HasAll(a)
  <2>1. ByLanes
    BY <1>0, <1>1 DEF KvLanes
  <2>2. QED BY <1>0, <2>1 DEF KvLanes, ByLanes
<1>3. packed[b] \cup LaneByte(b) = Written(len, bits, idx, b)
  <2>1. LaneByte(b) = Written(len, bits, idx, b)
    BY <1>0, <1>1, <1>2, LaneIs
  <2>2. packed[b] = {}
    BY <1>1, <1>2
  <2>3. QED BY <2>1, <2>2
<1>4. Puts(packed, PackedBytes, b, Written(len, bits, idx, b), packed')
  <2>1. IsRow(packed, PackedBytes) /\ b \in 0..PackedBytes
    BY <1>0, <1>1, <1>2 DEF KvShape, IsRow, Slots
  <2>2. QED BY <1>0, <1>1, <1>3, <2>1, PutByte
<1>5. KvShape'
  <2>1. packed' = [a \in 0..PackedBytes |-> packed'[a]]
    BY <1>4, Zenon DEF Puts, IsRow
  <2>2. PackedBytes \in (0..PackedBytes) \ {b}
    BY <1>0, <1>1, <1>2 DEF Slots
  <2>3. packed'[PackedBytes] = Old
    BY <1>0, <1>4, <2>2 DEF Puts, KvShape
  <2>4. QED BY <1>0, <2>1, <2>3, ShapeKept
<1>6. \A a \in Slots : IF a \in lanes' THEN packed'[a] = {} ELSE packed'[a] = Written(len, bits, idx, a)
  <2> TAKE a \in Slots
  <2>1. CASE a = b
    BY <1>1, <1>4, <2>1 DEF Puts
  <2>2. CASE a # b
    <3>1. packed'[a] = packed[a]
      <4>1. a \in (0..PackedBytes) \ {b}
        BY <1>0, <2>2 DEF Slots
      <4>2. QED BY <1>4, <4>1 DEF Puts
    <3>2. a \in lanes' <=> a \in lanes
      BY <1>1, <2>2
    <3>3. QED BY <1>2, <3>1, <3>2 DEF HasAll
  <2>3. QED BY <2>1, <2>2
<1>7. KvLanes'
  <2>1. ByLanes' /\ Slots' = Slots
    BY <1>0, <1>2, SameLayout
  <2>2. \A a : HasAll(a)' <=> packed'[a] = Written(len, bits, idx, a)
    BY <1>0 DEF HasAll
  <2>3. lanes' \subseteq Slots
    BY <1>1, <1>2
  <2>4. QED BY <1>0, <1>2, <1>6, <2>1, <2>2, <2>3 DEF KvLanes
<1>8. QED BY <1>0, <1>5, <1>7 DEF KvIInv

\* An index of a stream, by the device's one lane.
LEMMA StoreStreamStep ==
  ASSUME KvIInv, StoreStream
  PROVE  KvIInv'
<1>0. /\ KvShape /\ KvLanes /\ kvAt = "lanes" /\ ~ByLanes /\ unit < len
      /\ HasSoFar /\ lanes = {} /\ len % 8 = 0 /\ touched = {}
      /\ UNCHANGED <<kvAt, len, bits, idx, lanes, touched>> /\ unit' = unit + 1
      /\ len \in Nat /\ bits \in 1..8 /\ unit \in Nat /\ PackedBytes \in Nat
  <2>1. /\ KvShape /\ KvLanes /\ kvAt = "lanes" /\ ~ByLanes /\ unit < len
        /\ UNCHANGED <<kvAt, len, bits, idx, lanes, touched>> /\ unit' = unit + 1
    BY DEF KvIInv, StoreStream
  <2>2. len \in Nat /\ bits \in 1..8 /\ unit \in Nat
    BY <2>1 DEF KvShape, Row
  <2>3. PackedBytes \in Nat
    BY <2>2, BytesHold DEF Bytes
  <2>4. QED BY <2>1, <2>2, <2>3 DEF KvLanes
<1>1. PICK B \in Nat, o \in 0..7 : B = (unit * bits) \div 8 /\ o = (unit * bits) % 8 /\ unit * bits = 8 * B + o
  <2>1. unit * bits \in Nat
    BY <1>0
  <2>2. QED BY <2>1, Split8
<1>2. PICK after : after = (IF B % 4 < 3 \/ o + bits > 8 THEN {B + 1} ELSE {})
  OBVIOUS
<1>3. packed' = [b \in DOMAIN packed |->
        packed[b] \cup (IF b = B THEN Shl8(idx[unit], o)
                        ELSE IF b \in after THEN Shr(idx[unit], 8 - o) ELSE {})]
  BY <1>1, <1>2, Zenon DEF StoreStream
<1>4. DOMAIN packed = 0..PackedBytes
  BY <1>0 DEF KvShape
<1>s. idx[unit] \subseteq 0..(bits - 1)
  BY <1>0 DEF KvShape, Row
<1>b. B < PackedBytes
  <2>1. unit * bits + bits <= len * bits /\ len * bits \in Nat
    BY <1>0, Apart
  <2>2. 8 * PackedBytes >= len * bits
    BY <1>0, BytesHold DEF Bytes
  <2>3. QED BY <1>0, <1>1, <2>1, <2>2
<1>5. /\ packed' = [b \in 0..PackedBytes |-> packed'[b]]
      /\ packed'[B] = packed[B] \cup Shl8(idx[unit], o)
      /\ B + 1 <= PackedBytes => packed'[B + 1] = packed[B + 1] \cup Shr(idx[unit], 8 - o)
      /\ \A b \in (0..PackedBytes) \ {B, B + 1} : packed'[b] = packed[b]
  <2>0. \A b \in 0..PackedBytes :
          packed'[b] = packed[b] \cup (IF b = B THEN Shl8(idx[unit], o)
                                       ELSE IF b \in after THEN Shr(idx[unit], 8 - o) ELSE {})
    BY <1>3, <1>4, Zenon
  <2>1. packed' = [b \in 0..PackedBytes |-> packed'[b]]
    BY <1>3, <1>4
  <2>2. packed'[B] = packed[B] \cup Shl8(idx[unit], o)
    <3>1. B \in 0..PackedBytes
      BY <1>0, <1>b
    <3>2. QED BY <2>0, <3>1
  <2>3. ASSUME B + 1 <= PackedBytes PROVE packed'[B + 1] = packed[B + 1] \cup Shr(idx[unit], 8 - o)
    <3>1. B + 1 \in 0..PackedBytes /\ B + 1 # B
      BY <1>0, <2>3
    <3>2. packed'[B + 1] = packed[B + 1] \cup (IF B + 1 \in after THEN Shr(idx[unit], 8 - o) ELSE {})
      BY <2>0, <3>1
    <3>3. B + 1 \notin after => Shr(idx[unit], 8 - o) = {}
      <4>1. SUFFICES ASSUME B + 1 \notin after PROVE Shr(idx[unit], 8 - o) = {}
        OBVIOUS
      <4>2. ~(o + bits > 8)
        BY <1>2, <4>1
      <4>3. o + bits <= 8
        BY <1>0, <4>2
      <4>4. QED BY <1>0, <1>s, <4>3, NothingOver
    <3>4. QED BY <3>2, <3>3
  <2>4. \A b \in (0..PackedBytes) \ {B, B + 1} : packed'[b] = packed[b]
    <3> TAKE b \in (0..PackedBytes) \ {B, B + 1}
    <3>1. b \in 0..PackedBytes /\ b # B /\ b \notin after
      BY <1>2
    <3>2. QED BY <2>0, <3>1
  <2>5. QED BY <2>1, <2>2, <2>3, <2>4
<1>6. HasSoFar' /\ packed'[PackedBytes] = Old
  BY <1>0, <1>1, <1>5, StreamStep
<1>7. KvShape'
  BY <1>0, <1>5, <1>6, ShapeKept
<1>8. KvLanes'
  <2>1. ~ByLanes'
    BY <1>0, SameLayout
  <2>2. QED BY <1>0, <1>6, <2>1 DEF KvLanes
<1>9. QED BY <1>0, <1>7, <1>8 DEF KvIInv

\* The words go to the row.
LEMMA StoreRowStep ==
  ASSUME KvIInv, StoreRow
  PROVE  KvIInv'
<1>0. /\ KvShape /\ KvLanes /\ lanes = {} /\ (ByLanes \/ unit = len) /\ kvAt' = "stored"
      /\ touched' = 0..(PackedBytes - 1)
      /\ UNCHANGED <<len, bits, idx, unit, lanes, packed>>
  BY DEF KvIInv, StoreRow
<1>1. \A b \in Slots : HasAll(b)
  BY <1>0 DEF KvLanes, HasSoFar, HasAll
<1>2. KvShape'
  BY <1>0 DEF KvShape, PackedBytes, CeilDiv, Old
<1>3. KvStored'
  <2>1. Slots' = Slots
    BY <1>0, SameLayout
  <2>2. QED BY <1>0, <1>1, <2>1 DEF KvStored, HasAll, Slots
<1>4. QED BY <1>0, <1>2, <1>3 DEF KvIInv

\* What the invariant says of a stored row.
LEMMA PackedIsRead == KvIInv => StoresTheRow
<1> SUFFICES ASSUME KvIInv PROVE StoresTheRow
  OBVIOUS
<1>0. KvShape /\ len \in Nat /\ bits \in 1..8 /\ PackedBytes \in Nat
  <2>1. KvShape /\ len \in Nat /\ bits \in 1..8
    BY DEF KvIInv, KvShape, Row
  <2>2. QED BY <2>1, BytesHold DEF Bytes
<1>1. ASSUME kvAt = "stored" PROVE Whole
  BY <1>0, <1>1 DEF KvIInv, KvShape, KvStored, HasAll, Slots, Whole
<1>2. UnpacksAsPacked
  BY <1>1, HostReads DEF UnpacksAsPacked
<1>3. DeviceReadsTheRow
  BY <1>1, DeviceReads DEF DeviceReadsTheRow
<1>4. touched \subseteq Slots
  <2>1. CASE kvAt = "store"
    <3>1. KvStore
      BY <2>1 DEF KvIInv
    <3>2. CASE Layout = "stream"
      BY <3>1, <3>2 DEF KvStore
    <3>3. CASE Layout = "groups"
      <4>1. unit <= len \div 8 /\ touched = 0..(3 * unit - 1) /\ bits = 3 /\ len % 8 = 0 /\ unit \in Nat
        BY <1>0, <3>1, <3>3, LayoutIs DEF KvStore, KvShape
      <4>2. 3 * unit <= PackedBytes
        BY <1>0, <4>1 DEF PackedBytes, CeilDiv
      <4>3. QED BY <1>0, <4>1, <4>2 DEF Slots
    <3>4. CASE Layout = "planes"
      <4>1. unit <= CeilDiv(len, PerByte) /\ touched = 0..(unit - 1) /\ bits \in {1, 2, 4} /\ unit \in Nat
        BY <1>0, <3>1, <3>4, LayoutIs DEF KvStore, KvShape
      <4>2. unit <= PackedBytes
        <5>1. CASE bits = 1
          BY <4>1, <5>1, <1>0 DEF PackedBytes, CeilDiv, PerByte
        <5>2. CASE bits = 2
          BY <4>1, <5>2, <1>0 DEF PackedBytes, CeilDiv, PerByte
        <5>3. CASE bits = 4
          BY <4>1, <5>3, <1>0 DEF PackedBytes, CeilDiv, PerByte
        <5>4. QED BY <4>1, <5>1, <5>2, <5>3
      <4>3. QED BY <1>0, <4>1, <4>2 DEF Slots
    <3>5. QED BY <3>2, <3>3, <3>4 DEF Layout
  <2>2. CASE kvAt = "lanes"
    BY <2>2 DEF KvIInv, KvLanes
  <2>3. CASE kvAt = "stored"
    BY <2>3 DEF KvIInv, KvStored
  <2>4. QED BY <1>0, <2>1, <2>2, <2>3 DEF KvShape
<1>5. RowKeepsItsBytes
  BY <1>0, <1>4 DEF RowKeepsItsBytes, Slots, KvShape, KvIInv, KvStored
<1>6. QED BY <1>2, <1>3, <1>5 DEF StoresTheRow

\* A packed row, of the host or of the device's lanes in whatever order they come, is
\* read back by both as it was stored, and stays within its own bytes: of any length,
\* at any width and with any indices.
THEOREM RowIsStored == KvSpec => []StoresTheRow
<1>1. KvInit => KvIInv
  BY PackStart
<1>2. KvIInv /\ [KvNext]_kvVars => KvIInv'
  <2> SUFFICES ASSUME KvIInv, [KvNext]_kvVars PROVE KvIInv'
    OBVIOUS
  <2>1. CASE UNCHANGED kvVars
    BY <2>1 DEF kvVars, KvIInv, KvShape, KvStore, KvLanes, KvStored, HasSoFar, HasAll, Slots,
                PackedBytes, CeilDiv, Layout, PerByte, ByLanes, Old
  <2>2. CASE KvNext
    BY <2>2, PackOneStep, PackGroupStep, PackPlaneStep, StoredStep, StoreLaneStep,
       StoreStreamStep, StoreRowStep DEF KvNext
  <2>3. QED BY <2>1, <2>2
<1>3. KvIInv => StoresTheRow
  BY PackedIsRead
<1>4. QED BY <1>1, <1>2, <1>3, PTL DEF KvSpec
=============================================================================
