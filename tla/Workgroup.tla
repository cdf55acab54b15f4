------------------------------ MODULE Workgroup ------------------------------
(***************************************************************************)
(* One workgroup of a reducing compute shader (src/shaders/*.comp): lanes  *)
(* that run one program each, meet at barrier() and share the array red.   *)
(*                                                                         *)
(* The kernels are given as programs over the instructions that touch      *)
(* shared memory or wait; what a lane does to its own registers in between *)
(* is part of the instruction it belongs to.  A number is abstracted to    *)
(* what it was computed from: which elements a maximum or a sum covers and *)
(* how often.  The lanes of one subgroup move together on a device, those  *)
(* of two subgroups do not: every interleaving between barriers is taken.  *)
(***************************************************************************)
EXTENDS Integers, Sequences

CONSTANTS
  Lanes,      \* local_size_x
  MaxRow,     \* bound: longest row
  Columns,    \* bound: activation columns of the batched row sum
  Programs    \* the kernels to run

\* A power of two: halving it never leaves a remainder before 1.
PowerOfTwo(n) ==
  \E P \in SUBSET (1..n) :
    n \in P /\ \A m \in P : m = 1 \/ (m % 2 = 0 /\ m \div 2 \in P)

ASSUME WorkgroupAssumption ==
  /\ Lanes \in Nat /\ Lanes > 1 /\ PowerOfTwo(Lanes)
  /\ MaxRow \in Nat \ {0} /\ Columns \in Nat \ {0}
  /\ Programs \subseteq {"rms_norm", "norm_rows", "l2_inplace", "pq2_rowsum",
                         "pq2_rowsum_n", "pq2_matvec_fused", "softmax_row",
                         "softmax_inplace"}

VARIABLES
  kernel,   \* the program the workgroup runs, or "off"
  row,      \* length of its row
  spare,    \* the grid has one workgroup more than rows, and this is it
  ip,       \* next instruction of each lane
  stride,   \* its s in for (s = Lanes/2; s > 0; s >>= 1)
  column,   \* its column of the batched row sum
  met,      \* how many barriers it has passed
  red,      \* shared: the partial results
  seen,     \* what each lane last read from red[0], oldest first
  written   \* what has been put in memory, by element (or by column)

wgVars == <<kernel, row, spare, ip, stride, column, met, red, seen, written>>

Lane == 0..(Lanes - 1)

\* Elements lane l visits: i = l, l + Lanes, ... below the row's length.
Strided(l) == {i \in 0..(row - 1) : i % Lanes = l}

Covers(op, S) == [op |-> op, of |-> [i \in 0..(row - 1) |-> IF i \in S THEN 1 ELSE 0]]

\* a op b: how often each element is in it; of two kinds of number, garbage.
Combined(a, b) ==
  IF a.op # b.op THEN [op |-> "garbage", of |-> a.of]
  ELSE [op |-> a.op, of |-> [i \in DOMAIN a.of |->
          IF a.op = "max" THEN (IF a.of[i] >= b.of[i] THEN a.of[i] ELSE b.of[i])
          ELSE a.of[i] + b.of[i]]]

-----------------------------------------------------------------------------
Sync == [do |-> "barrier"]
Turn == [do |-> "turn"]
StoreOwn(op) == [do |-> "store", op |-> op]
Fold == [do |-> "fold"]
Peek == [do |-> "read"]
Scale == [do |-> "scale"]
Emit == [do |-> "emit"]
Write == [do |-> "write"]

\* store; barrier; then a fold and a barrier for every stride.
Reduce_NoBarrier(op) == <<StoreOwn(op), Fold, Turn>>
Reduce(op) == <<StoreOwn(op), Sync, Fold, Turn>>

\* Lane 0 turns the sum into the scale every lane then reads.
RmsNormShader == Reduce("sum") \o <<Scale, Sync, Peek, Write>>
\* Every lane computes the scale from the sum.
L2Inplace == Reduce("sum") \o <<Peek, Write>>
\* Lane 0 writes the row's sum; the batched kernel goes on with the next column.
RowSum == Reduce("sum") \o <<Emit>>
\* Maximum, then the sum of the exponentials, then the row.
Softmax == Reduce("max") \o <<Peek>> \o Reduce("sum") \o <<Peek, Write>>

Shader ==
  CASE kernel \in {"rms_norm", "norm_rows"} -> RmsNormShader
    [] kernel = "l2_inplace" -> L2Inplace
    [] kernel \in {"pq2_rowsum", "pq2_rowsum_n", "pq2_matvec_fused"} -> RowSum
    [] kernel \in {"softmax_row", "softmax_inplace"} -> Softmax
    [] OTHER -> <<>>

LastColumn == IF kernel = "pq2_rowsum_n" THEN Columns ELSE 1
-----------------------------------------------------------------------------
\* if (row >= pc.rows) { return; }: the same for all lanes of a workgroup, as a
\* lane that has returned never comes to a barrier.  (ip 0: returned early.)
Leaves_BeyondRow(l) == spare \/ l >= row
Leaves(l) == spare

\* No workgroup is running.
WgIdle ==
  /\ kernel = "off" /\ row = 0 /\ spare = FALSE
  /\ ip = [l \in Lane |-> 1]
  /\ stride = [l \in Lane |-> 0] /\ column = [l \in Lane |-> 1] /\ met = [l \in Lane |-> 0]
  /\ red = [l \in Lane |-> [op |-> "unset", of |-> <<>>]]
  /\ seen = [l \in Lane |-> <<>>]
  /\ written = <<>>

\* A dispatch starts a workgroup; shared memory holds no defined value.
WgInit ==
  /\ kernel \in Programs /\ row \in 1..MaxRow
  /\ spare \in (IF kernel = "pq2_matvec_fused" THEN BOOLEAN ELSE {FALSE})
  /\ ip = [l \in Lane |-> IF Leaves(l) THEN 0 ELSE 1]
  /\ stride = [l \in Lane |-> 0] /\ column = [l \in Lane |-> 1] /\ met = [l \in Lane |-> 0]
  /\ red = [l \in Lane |-> [op |-> "unset", of |-> [i \in 0..(row - 1) |-> 0]]]
  /\ seen = [l \in Lane |-> <<>>]
  /\ written = [i \in 0..(IF row > Columns THEN row ELSE Columns) |-> <<>>]

At(l, what) == ip[l] \in DOMAIN Shader /\ Shader[ip[l]].do = what
Step(l) == ip' = [ip EXCEPT ![l] = @ + 1]

\* barrier(): a lane passes when every lane has come to it.
Waits(l) == At(l, "barrier") \/ At(l, "turn")
Pass(l) == \A m \in Lane : met[m] > met[l] \/ (met[m] = met[l] /\ Waits(m))

Meet(l) ==
  /\ At(l, "barrier") /\ Pass(l)
  /\ met' = [met EXCEPT ![l] = @ + 1]
  /\ Step(l)
  /\ UNCHANGED <<kernel, row, spare, stride, column, red, seen, written>>

\* The barrier at the end of a level; s >>= 1, and round again while s > 0.
NextLevel(l) ==
  /\ At(l, "turn") /\ Pass(l)
  /\ met' = [met EXCEPT ![l] = @ + 1]
  /\ stride' = [stride EXCEPT ![l] = @ \div 2]
  /\ ip' = [ip EXCEPT ![l] = IF stride[l] \div 2 > 0 THEN @ - 1 ELSE @ + 1]
  /\ UNCHANGED <<kernel, row, spare, column, red, seen, written>>

\* The lane's own elements into its own place of the shared array; s = Lanes/2.
StorePartial(l) ==
  /\ At(l, "store")
  /\ red' = [red EXCEPT ![l] = Covers(Shader[ip[l]].op, Strided(l))]
  /\ stride' = [stride EXCEPT ![l] = Lanes \div 2]
  /\ Step(l)
  /\ UNCHANGED <<kernel, row, spare, column, met, seen, written>>

\* if (lid < s) { red[lid] = red[lid] op red[lid + s]; }
FoldLevel(l) ==
  /\ At(l, "fold")
  /\ red' = IF l < stride[l] THEN [red EXCEPT ![l] = Combined(red[l], red[l + stride[l]])]
            ELSE red
  /\ Step(l)
  /\ UNCHANGED <<kernel, row, spare, stride, column, met, seen, written>>

\* A lane reads red[0] into a register.
ReadTotal(l) ==
  /\ At(l, "read")
  /\ seen' = [seen EXCEPT ![l] = Append(@, red[0])]
  /\ Step(l)
  /\ UNCHANGED <<kernel, row, spare, stride, column, met, red, written>>

\* Lane 0 replaces the sum by the scale derived from it.
ScaleTotal(l) ==
  /\ At(l, "scale")
  /\ red' = IF l = 0 THEN [red EXCEPT ![0] = [op |-> "scale", of |-> red[0].of]] ELSE red
  /\ Step(l)
  /\ UNCHANGED <<kernel, row, spare, stride, column, met, seen, written>>

\* if (lid == 0) { y = red[0]; }, and the next column.
EmitTotal(l) ==
  /\ At(l, "emit")
  /\ written' = IF l = 0 THEN [written EXCEPT ![column[l]] = <<red[0]>>] ELSE written
  /\ \/ column[l] < LastColumn /\ ip' = [ip EXCEPT ![l] = 1]
                               /\ column' = [column EXCEPT ![l] = @ + 1]
     \/ column[l] >= LastColumn /\ Step(l) /\ UNCHANGED column
  /\ UNCHANGED <<kernel, row, spare, stride, met, red, seen>>

\* The lane's own elements of the row, computed with what it has read.
WriteRow(l) ==
  /\ At(l, "write")
  /\ written' = [i \in DOMAIN written |-> IF i \in Strided(l) THEN seen[l] ELSE written[i]]
  /\ Step(l)
  /\ UNCHANGED <<kernel, row, spare, stride, column, met, red, seen>>

LaneStep(l) ==
  \/ Meet(l) \/ NextLevel(l) \/ StorePartial(l) \/ FoldLevel(l) \/ ReadTotal(l)
  \/ ScaleTotal(l) \/ EmitTotal(l) \/ WriteRow(l)

WgNext == \E l \in Lane : LaneStep(l)

\* A device keeps every lane of a running workgroup going.
WgFair == \A l \in Lane : WF_wgVars(LaneStep(l))

WgSpec == WgInit /\ [][WgNext]_wgVars /\ WgFair
-----------------------------------------------------------------------------
WgDone == \A l \in Lane : ip[l] = 0 \/ ip[l] > Len(Shader)

\* The whole row, each element once, as a maximum, a sum or a scale.
RowTotal(op) == Covers(op, 0..(row - 1))

\* What the CPU kernels of the same names compute (src/kernels.rs).
Expected ==
  CASE kernel \in {"rms_norm", "norm_rows"} -> <<RowTotal("scale")>>
    [] kernel = "l2_inplace" -> <<RowTotal("sum")>>
    [] kernel \in {"softmax_row", "softmax_inplace"} -> <<RowTotal("max"), RowTotal("sum")>>
    [] OTHER -> <<RowTotal("sum")>>

ByRow == kernel \in {"rms_norm", "norm_rows", "l2_inplace", "softmax_row", "softmax_inplace"}

\* When a workgroup ends, every element of its row (every column of a row sum)
\* was computed from the whole row: each element once, whatever the order in
\* which the lanes ran between two barriers, and whether the row is shorter or
\* longer than the workgroup.  A surplus workgroup writes nothing.
ReducesTheRow ==
  kernel # "off" /\ WgDone =>
    \A i \in (IF ByRow THEN 0..(row - 1)
              ELSE IF kernel = "pq2_rowsum_n" THEN 1..Columns ELSE {1}) :
      written[i] = IF spare THEN <<>> ELSE Expected

\* The same of the two softmax kernels (shaders/softmax_row.comp:3,
\* "Numerically stable softmax over one row"): one maximum and one sum for all.
SoftmaxOfTheRow ==
  kernel \in {"softmax_row", "softmax_inplace"} /\ WgDone =>
    \A i \in 0..(row - 1) : written[i] = Expected

\* No lane waits at a barrier for ever: a started workgroup ends.
WorkgroupEnds == kernel # "off" ~> WgDone
=============================================================================
