------------------------------ MODULE VulkanHost ------------------------------
(***************************************************************************)
(* The calls of Gpu (src/vk.rs) that are not recordings of GDev: open, the   *)
(* uploads and reads through the staging buffer, the matrix-vector products   *)
(* with and without the cache, the kernels run one at a time, and drop.       *)
(*                                                                           *)
(* A call is the sequence of driver calls the function makes, in the order   *)
(* it makes them.  A driver call that returns a Result may fail, and `?'      *)
(* leaves the function where it stands, with what it had created.  What is    *)
(* submitted runs on the device on its own: commands of one submission        *)
(* overlap unless a barrier separates them.  A wait that fails means a lost    *)
(* device, which runs nothing any more.                                      *)
(*                                                                           *)
(* A float is symbolic: an input is named for its buffer and call, and a      *)
(* kernel's output for the kernel, its push constants, its place and all the  *)
(* floats it was given.                                                       *)
(* Vectors come in lengths that agree.  Others are refused before anything    *)
(* is made, or panic; matvec_bench and matvec_bench_atom have then made their  *)
(* buffers already (vk.rs:862, 961).  No call here has such vectors.           *)
(***************************************************************************)
EXTENDS Integers, FiniteSets, SequencesExt, Pieces

CONSTANTS
  Local,      \* LOCAL_X: lanes of a workgroup
  Block,      \* floats of a weight block
  ParamsMax,  \* KV_PARAMS_FLOATS
  Tensors,    \* names of weight tensors
  Shape,      \* [ne0, rows] of each
  HostCalls   \* the k-th call is one of HostCalls[k]: records [fn, n, rows, cols, base, tensor]

ASSUME VulkanHostAssumption ==
  /\ {Local, Block, ParamsMax} \subseteq Nat \ {0}
  /\ IsFiniteSet(Tensors) /\ Tensors # {}
  /\ Shape \in [Tensors -> [ne0 : Nat \ {0}, rows : Nat \ {0}]]
  /\ Len(HostCalls) \in Nat

VARIABLES
  heap,     \* driver objects alive: name -> its floats (none unless a buffer)
  own,      \* the objects a field of Gpu (or the caller's DevBuf) holds
  cached,   \* the cache's max_ne0 and max_rows
  todo,     \* the rest of the running call
  recorded, \* the command buffer being recorded
  queue,    \* submitted and not yet done
  lost,     \* the device is lost
  calls,    \* calls made
  hostCall, \* the last one
  result,   \* "none", "running", "ok", "err", "opened" or "dropped"
  answer,   \* what it has read back
  wanted    \* history: what it was asked for

vkVars == <<heap, own, cached, todo, recorded, queue, lost, calls, hostCall, result, answer, wanted>>

Junk == <<"junk">>
CeilDivide(a, b) == (a + b - 1) \div b
AtLeastOne(n) == IF n = 0 THEN 1 ELSE n
Groups(n) == AtLeastOne(CeilDivide(n, Local))
Floats(name, n) == [i \in 1..n |-> <<name, calls>>]
Zeros(n) == [i \in 1..n |-> <<"zero">>]
LenOf(b) == Len(heap[b])

\* What a kernel writes: n floats, of all the floats it reads.
Kernel(k, arg, ins, n) == [i \in 1..n |-> <<k, arg, i, ins>>]

-----------------------------------------------------------------------------
\* The driver calls a function is made of.
Make(o) == <<[op |-> "make", o |-> o, len |-> 0]>>
Buffer(b, n) == <<[op |-> "make", o |-> b, len |-> n]>>
Keep(os) == <<[op |-> "keep", os |-> os]>>
Ensure(o, n) == <<[op |-> "ensure", o |-> o, len |-> n]>>
Staging(n) == <<[op |-> "staging", len |-> n]>>
Put(b, data) == <<[op |-> "put", b |-> b, data |-> data]>>
Begin == <<[op |-> "begin"]>>
RecordAll(c) == <<[op |-> "record", c |-> c]>>
SubmitAll(cb, fence) == <<[op |-> "submit", cb |-> cb, fence |-> fence]>>
Wait(fence) == <<[op |-> "wait", fence |-> fence]>>
Reset(fence) == <<[op |-> "reset", fence |-> fence]>>
CopyOut(b, n) == <<[op |-> "read", b |-> b, n |-> n]>>
Free(os) == <<[op |-> "free", os |-> os]>>
Reject == <<[op |-> "reject"]>>

\* A dispatch: what it reads and writes, as <<buffer, floats>> each.
Dispatch(k, arg, pool, ins, outs) ==
  [kernel |-> k, arg |-> arg, pool |-> {pool}, ins |-> ins, outs |-> outs]
Copied(from, to, n) ==
  [kernel |-> "copy", arg |-> 0, pool |-> {}, ins |-> <<<<from, n>>>>, outs |-> {<<to, n>>}]
Barrier == [kernel |-> "barrier", arg |-> 0, pool |-> {}, ins |-> <<>>, outs |-> {}]

Params == Ensure("params", ParamsMax)
MakeSet(pool) == Params \o Make(pool)
Pipeline(k) == Ensure(k, 0)

Launch_NoWait(cs) ==
  Begin \o Flat([i \in 1..Len(cs) |-> RecordAll(cs[i])])
  \o Make("fence") \o SubmitAll("cb", "fence")
Launch(cs) ==
  Begin \o Flat([i \in 1..Len(cs) |-> RecordAll(cs[i])])
  \o Make("fence") \o SubmitAll("cb", "fence") \o Wait("fence")
RunRegistered(c) == Make("cb") \o Launch(<<c>>) \o Free({"fence", "cb"})

\* open: the device and what every kernel shares; the shader module is freed.
DeviceObjects == {"instance", "device", "command_pool", "desc_layout", "pipeline_layout", "pipeline"}
Open == Make("instance") \o Make("device") \o Make("command_pool") \o Make("desc_layout")
        \o Make("pipeline_layout") \o Make("module") \o Make("pipeline") \o Free({"module"})
        \o Keep(DeviceObjects)

\* upload and read_dev, through the staging buffer.
Transfer(from, to, n) ==
  Make("cb") \o Launch(<<Copied(from, to, n)>>) \o Free({"fence", "cb"})
StageUpload(b, data, len) ==
  IF Len(data) > len THEN Reject
  ELSE Staging(Len(data)) \o Put("staging", data) \o Transfer("staging", b, Len(data))
ReadDev(b, n, len) ==
  IF n > len THEN Reject
  ELSE Staging(n) \o Transfer(b, "staging", n) \o CopyOut("staging", n)

UploadParams(n) ==
  Params \o (IF n > ParamsMax THEN Reject ELSE Put("params", Floats("table", n)))

-----------------------------------------------------------------------------
\* The cache of matvec_on.
CacheObjects == {"mv_x", "mv_y", "mv_dummy", "mv_pool", "mv_cb", "mv_fence"}
Prep(ne0, rows) ==
  IF cached # <<>> THEN <<>>
  ELSE Buffer("mv_x", AtLeastOne(ne0)) \o Buffer("mv_y", AtLeastOne(rows)) \o Buffer("mv_dummy", 1)
       \o Make("mv_pool") \o Make("mv_cb") \o Make("mv_fence")
       \o Keep(CacheObjects) \o <<[op |-> "cache", ne0 |-> ne0, rows |-> rows]>>

\* One lane per row; the last workgroup's surplus lanes write like the others.
Product(w, x, y, pool, ne0, base, rows) ==
  Dispatch("pq2_matvec", base, pool,
           <<<<w, base + Groups(rows) * Local>>, <<x, ne0>>>>, {<<y, Groups(rows) * Local>>})

Relaunch_WaitFirst(cb, fence) == Reset(fence) \o Wait(fence) \o SubmitAll(cb, fence)
Relaunch(cb, fence) == Reset(fence) \o SubmitAll(cb, fence) \o Wait(fence)
MatvecCached(t, base, rows) ==
  LET ne0 == Shape[t].ne0 IN
  Put("mv_x", Floats("x", ne0))
  \o Begin \o RecordAll(Product(t, "mv_x", "mv_y", "mv_pool", ne0, base, rows))
  \o Relaunch("mv_cb", "mv_fence") \o CopyOut("mv_y", rows)

MatvecOneshot(t, base, rows) ==
  LET ne0 == Shape[t].ne0 IN
  Buffer("x", ne0) \o Buffer("y", rows) \o Put("x", Floats("x", ne0)) \o MakeSet("pool")
  \o Make("cb") \o Launch(<<Product(t, "x", "y", "pool", ne0, base, rows)>>)
  \o Free({"fence", "cb", "pool"}) \o CopyOut("y", rows) \o Free({"x", "y"})

Covered(ne0, rows) == cached # <<>> /\ ne0 <= cached[1] /\ rows <= cached[2]
MatvecOn(t, base, rows) ==
  IF Covered(Shape[t].ne0, rows) THEN MatvecCached(t, base, rows) ELSE MatvecOneshot(t, base, rows)

\* Weights::enable_gpu: every tensor in a buffer of its own, a cache for the widest.
Load(t) == Buffer(t, Shape[t].rows) \o StageUpload(t, Floats(t, Shape[t].rows), Shape[t].rows) \o Keep({t})
Widest(sizes) == CHOOSE m \in sizes : \A size \in sizes : size <= m
MaxNe0 == Widest({Shape[t].ne0 : t \in Tensors})
MaxRows == Widest({Shape[t].rows : t \in Tensors})
EnableGpu ==
  Open \o Flat([i \in 1..Len(SetToSeq(Tensors)) |-> Load(SetToSeq(Tensors)[i])])
  \o Prep(MaxNe0, MaxRows)

-----------------------------------------------------------------------------
\* Products that bring their own weights: payload, x and y made per call.
Pq2Matvec(ne0, base, rows) ==
  Buffer("w", base + rows) \o Buffer("x", ne0) \o Buffer("y", rows)
  \o Put("w", Floats("w", base + rows)) \o Put("x", Floats("x", ne0))
  \o Make("pool") \o Make("cb")
  \o Launch(<<Product("w", "x", "y", "pool", ne0, base, rows)>>)
  \o CopyOut("y", rows) \o Free({"fence", "cb", "pool"}) \o Free({"w", "x", "y"})

\* iters dispatches of the same product, back to back, one at least.
MatvecBench(ne0, base, rows, iters) ==
  Buffer("w", base + rows) \o StageUpload("w", Floats("w", base + rows), base + rows)
  \o Buffer("x", ne0) \o Buffer("y", rows) \o Put("x", Floats("x", ne0)) \o MakeSet("pool")
  \o Make("cb")
  \o Launch([i \in 1..AtLeastOne(iters) |-> Product("w", "x", "y", "pool", ne0, base, rows)])
  \o Free({"fence", "cb", "pool"}) \o CopyOut("y", rows) \o Free({"x", "y", "w"})

\* Two passes: a partial sum per block of a row, then a workgroup per row.
Blocks(ne0) == CeilDivide(ne0, Block)
Partials(ne0, rows) == AtLeastOne(rows * Blocks(ne0))
LanesFor(n) == Groups(n) * Local

TwoPass_Unordered(partial, sum) == <<partial, sum, Barrier>>
TwoPass(partial, sum) == <<partial, Barrier, sum, Barrier>>

\* The single-column kernel has no guard on its lanes.
MatvecBenchAtom(ne0, base, rows, iters) ==
  LET n == Partials(ne0, rows)
      partial == Dispatch("pq2_partial", base, "pool_p",
                          <<<<"w", base + rows>>, <<"x", ne0>>>>, {<<"partials", LanesFor(n)>>})
      sum == Dispatch("pq2_rowsum", Blocks(ne0), "pool_r", <<<<"partials", n>>>>,
                      {<<"y", AtLeastOne(rows)>>}) IN
  Pipeline("pq2_partial") \o Pipeline("pq2_rowsum")
  \o Buffer("w", base + rows) \o StageUpload("w", Floats("w", base + rows), base + rows)
  \o Buffer("partials", n) \o Buffer("x", ne0) \o Buffer("y", rows) \o Buffer("dummy", 1)
  \o Put("x", Floats("x", ne0)) \o Put("dummy", Zeros(1))
  \o MakeSet("pool_p") \o MakeSet("pool_r") \o Make("cb")
  \o Launch(Flat([i \in 1..iters |-> TwoPass(partial, sum)]))
  \o Free({"fence", "cb", "pool_p", "pool_r"}) \o CopyOut("y", rows)
  \o Free({"x", "y", "dummy", "w", "partials"})

\* The batched kernels stop at n_rows and n_cols.
MatvecBatchN(ne0, base, rows, cols) ==
  LET n == Partials(ne0, rows)
      ys == AtLeastOne(cols * rows)
      guarded == IF LanesFor(n) < n THEN LanesFor(n) ELSE n
      partial == Dispatch("pq2_partial_n", base, "pool_p",
                          <<<<"w", base + rows>>, <<"x", cols * ne0>>>>,
                          {<<"partials", guarded * cols>>})
      sum == Dispatch("pq2_rowsum_n", Blocks(ne0), "pool_r", <<<<"partials", n * cols>>>>,
                      {<<"y", ys>>}) IN
  Pipeline("pq2_partial_n") \o Pipeline("pq2_rowsum_n")
  \o Buffer("w", base + rows) \o StageUpload("w", Floats("w", base + rows), base + rows)
  \o Buffer("partials", n * cols) \o Buffer("x", AtLeastOne(cols * ne0)) \o Buffer("y", ys)
  \o Buffer("dummy", 1) \o Put("x", Floats("x", cols * ne0)) \o Put("dummy", Zeros(1))
  \o MakeSet("pool_p") \o MakeSet("pool_r") \o Make("cb")
  \o Launch(TwoPass(partial, sum))
  \o Free({"fence", "cb", "pool_p", "pool_r"}) \o CopyOut("y", ys)
  \o Free({"x", "y", "dummy", "w", "partials"})

-----------------------------------------------------------------------------
\* One kernel at a time, in buffers made for the call.
RmsNorm(n) ==
  IF n = 0 THEN Reject
  ELSE Pipeline("rms_norm") \o Buffer("x", n) \o Buffer("w", n) \o Buffer("o", n)
       \o Put("x", Floats("x", n)) \o Put("w", Floats("w", n)) \o MakeSet("pool")
       \o RunRegistered(Dispatch("rms_norm", n, "pool", <<<<"x", n>>, <<"w", n>>>>, {<<"o", n>>}))
       \o CopyOut("o", n) \o Free({"x", "w", "o"}) \o Free({"pool"})

\* One lane per element; the surplus lanes of the last workgroup return.
Elem(n, second) ==
  IF n = 0 THEN <<>>
  ELSE Pipeline("elem") \o Buffer("a", n) \o Buffer("b", n) \o Buffer("o", n)
       \o Put("a", Floats("a", n)) \o Put("b", IF second THEN Floats("b", n) ELSE Zeros(n))
       \o MakeSet("pool")
       \o RunRegistered(Dispatch("elem", n, "pool", <<<<"a", n>>, <<"b", n>>>>,
                                 {<<"o", IF Groups(n) * Local < n THEN Groups(n) * Local ELSE n>>}))
       \o CopyOut("o", n) \o Free({"a", "b", "o"}) \o Free({"pool"})

\* A workgroup per row; w is read by the RMS mode only.
NormRows(n, rowLen, rms) ==
  IF n = 0 \/ n % rowLen # 0 THEN Reject
  ELSE LET wLen == IF rms THEN rowLen ELSE 1 IN
       Pipeline("norm_rows") \o Buffer("x", n) \o Buffer("w", wLen) \o Buffer("o", n)
       \o Put("x", Floats("x", n)) \o Put("w", IF rms THEN Floats("w", wLen) ELSE Zeros(1))
       \o MakeSet("pool")
       \o RunRegistered(Dispatch("norm_rows", rowLen, "pool", <<<<"x", n>>, <<"w", wLen>>>>,
                                 {<<"o", (n \div rowLen) * rowLen>>}))
       \o CopyOut("o", n) \o Free({"x", "w", "o"}) \o Free({"pool"})

SoftmaxRow(n) ==
  IF n = 0 THEN Reject
  ELSE Pipeline("softmax_row") \o Buffer("x", n) \o Buffer("dummy", 1) \o Buffer("o", n)
       \o Put("x", Floats("x", n)) \o Put("dummy", Zeros(1)) \o MakeSet("pool")
       \o RunRegistered(Dispatch("softmax_row", n, "pool", <<<<"x", n>>>>, {<<"o", n>>}))
       \o CopyOut("o", n) \o Free({"x", "dummy", "o"}) \o Free({"pool"})

\* In place: the heads are read back from the buffer they came in.
RopeImrope(n, hd) ==
  IF n = 0 \/ n % hd # 0 THEN Reject
  ELSE Pipeline("rope_imrope") \o Buffer("x", n) \o Buffer("dummy", 1)
       \o Put("x", Floats("heads", n)) \o Put("dummy", Zeros(1)) \o MakeSet("pool")
       \o RunRegistered(Dispatch("rope_imrope", hd, "pool", <<<<"x", n>>>>,
                                 {<<"x", (n \div hd) * hd>>}))
       \o CopyOut("x", n) \o Free({"x", "dummy"}) \o Free({"pool"})

\* ins and the state in, the output and the state out; other lengths are refused.
GdnStep(n, stateLen, insLen) ==
  IF n # insLen THEN Reject
  ELSE Pipeline("gdn_step") \o Buffer("in", n) \o Buffer("s", stateLen) \o Buffer("o", insLen)
       \o Put("in", Floats("ins", n)) \o Put("s", Floats("state", stateLen)) \o MakeSet("pool")
       \o RunRegistered(Dispatch("gdn_step", 0, "pool", <<<<"in", n>>, <<"s", stateLen>>>>,
                                 {<<"o", insLen>>, <<"s", stateLen>>}))
       \o CopyOut("o", insLen) \o CopyOut("s", stateLen) \o Free({"in", "s", "o"}) \o Free({"pool"})

\* Scores, softmax in place, weighted values: three submissions, a pool each.
AttnStep(heads, n) ==
  LET s == heads * n IN
  Pipeline("attn_scores") \o Pipeline("softmax_inplace") \o Pipeline("attn_out")
  \o Buffer("q", heads) \o Buffer("k", n) \o Buffer("v", n) \o Buffer("s", AtLeastOne(s))
  \o Buffer("o", heads) \o Buffer("dummy", 1)
  \o Put("q", Floats("q", heads)) \o Put("k", Floats("k", n)) \o Put("v", Floats("v", n))
  \o Put("dummy", Zeros(1))
  \o MakeSet("p1")
  \o RunRegistered(Dispatch("attn_scores", n, "p1", <<<<"q", heads>>, <<"k", n>>>>, {<<"s", s>>}))
  \o Free({"p1"}) \o MakeSet("p2")
  \o RunRegistered(Dispatch("softmax_inplace", n, "p2", <<<<"s", s>>>>, {<<"s", s>>}))
  \o Free({"p2"}) \o MakeSet("p3")
  \o RunRegistered(Dispatch("attn_out", n, "p3", <<<<"s", s>>, <<"v", n>>>>, {<<"o", heads>>}))
  \o Free({"p3"}) \o CopyOut("o", heads) \o Free({"q", "k", "v", "s", "o", "dummy"})

\* Drop: idle first, then every field but kv_params, which it forgets.
Drop == <<[op |-> "idle"]>> \o Free(own \cap ({"staging"} \cup CacheObjects))
        \o Free(own \ ({"staging", "params"} \cup CacheObjects \cup Tensors \cup DeviceObjects))
        \o Free(DeviceObjects)

-----------------------------------------------------------------------------
Program(c) ==
  CASE c.fn = "open" -> Open
    [] c.fn = "enable_gpu" -> EnableGpu
    [] c.fn = "load" -> Load(c.tensor)
    [] c.fn = "upload_kv_params" -> UploadParams(c.n)
    [] c.fn = "upload" -> StageUpload(c.tensor, Floats("new", c.n), Shape[c.tensor].rows)
    [] c.fn = "read_dev" -> ReadDev(c.tensor, c.n, Shape[c.tensor].rows)
    [] c.fn = "prep_matvec_cache" -> Prep(c.n, c.rows)
    [] c.fn = "matvec_on" -> MatvecOn(c.tensor, c.base, c.rows)
    [] c.fn = "pq2_matvec" -> Pq2Matvec(c.n, c.base, c.rows)
    [] c.fn = "matvec_bench" -> MatvecBench(c.n, c.base, c.rows, c.cols)
    [] c.fn = "matvec_bench_atom" -> MatvecBenchAtom(c.n, c.base, c.rows, c.cols)
    [] c.fn = "matvec_batch_n" -> MatvecBatchN(c.n, c.base, c.rows, c.cols)
    [] c.fn = "rms_norm" -> RmsNorm(c.n)
    [] c.fn = "elem" -> Elem(c.n, c.cols > 1)
    [] c.fn = "norm_rows" -> NormRows(c.n, c.rows, c.cols > 1)
    [] c.fn = "softmax_row" -> SoftmaxRow(c.n)
    [] c.fn = "rope_imrope" -> RopeImrope(c.n, c.rows)
    [] c.fn = "gdn_step" -> GdnStep(c.n, c.rows, c.cols)
    [] c.fn = "attn_step" -> AttnStep(c.rows, c.n)
    [] c.fn = "drop" -> Drop

\* Names of tensors are none of those that driver objects have here.
HostObjects ==
  DeviceObjects \cup CacheObjects
  \cup {"module", "params", "staging", "fence", "cb", "pool", "pool_p", "pool_r", "p1", "p2", "p3",
        "x", "y", "w", "o", "a", "b", "in", "s", "q", "k", "v", "dummy", "partials",
        "pq2_partial", "pq2_rowsum", "pq2_partial_n", "pq2_rowsum_n", "rms_norm", "elem", "norm_rows",
        "softmax_row", "rope_imrope", "gdn_step", "attn_scores", "softmax_inplace", "attn_out"}
ASSUME TensorsAreNamedApart == Tensors \cap HostObjects = {}

Functions ==
  {"open", "enable_gpu", "load", "upload_kv_params", "upload", "read_dev", "prep_matvec_cache",
   "matvec_on", "pq2_matvec", "matvec_bench", "matvec_bench_atom", "matvec_batch_n", "rms_norm",
   "elem", "norm_rows", "softmax_row", "rope_imrope", "gdn_step", "attn_step", "drop"}

\* The two kernels without a guard on their lanes write for every lane of their
\* workgroups.  Products get a number of rows that fills them, and so does the cache;
\* one of fewer rows is made when the device is never opened without the cache of
\* enable_gpu, whose vectors are as long as the longest.
Fills(n) == Groups(n) * Local = n
AlwaysCached == \A k \in 1..Len(HostCalls) : \A c \in HostCalls[k] : c.fn # "open"

\* A call a caller may make: a row has a length, and lanes without a guard have rows.
Fitting(c) ==
  /\ c.fn \in Functions /\ {c.n, c.rows, c.cols, c.base} \subseteq Nat /\ c.tensor \in Tensors
  /\ c.fn \in {"norm_rows", "rope_imrope"} => c.rows > 0
  /\ c.fn = "matvec_batch_n" => c.cols > 0
  /\ c.fn = "enable_gpu" => Fills(MaxRows)
  /\ c.fn \in {"prep_matvec_cache", "pq2_matvec", "matvec_bench"} => Fills(c.rows)
  /\ c.fn = "matvec_on" =>
       Fills(c.rows) \/ (AlwaysCached /\ c.rows <= MaxRows)
  /\ c.fn = "matvec_bench_atom" => c.rows > 0 /\ Fills(Partials(c.n, c.rows))
ASSUME CallsFit == \A k \in 1..Len(HostCalls) : \A c \in HostCalls[k] : Fitting(c)

\* What a call is for, of the floats given to it.
Weights(c) == IF c.fn = "matvec_on" THEN SubSeq(heap[c.tensor], 1, c.base + c.rows)
              ELSE Floats("w", c.base + c.rows)
Inner(c) == IF c.fn = "matvec_on" THEN Shape[c.tensor].ne0 ELSE c.n
SumsOfPartials(k1, k2, c) ==
  Kernel(k2, Blocks(c.n),
         <<Kernel(k1, c.base, <<Weights(c), Floats("x", c.n * (IF k1 = "pq2_partial" THEN 1 ELSE c.cols))>>,
                  Partials(c.n, c.rows) * (IF k1 = "pq2_partial" THEN 1 ELSE c.cols))>>,
         c.rows * (IF k1 = "pq2_partial" THEN 1 ELSE c.cols))
Want(c) ==
  CASE c.fn \in {"matvec_on", "pq2_matvec", "matvec_bench"} ->
         Kernel("pq2_matvec", c.base, <<Weights(c), Floats("x", Inner(c))>>, c.rows)
    [] c.fn = "matvec_bench_atom" -> SumsOfPartials("pq2_partial", "pq2_rowsum", c)
    [] c.fn = "matvec_batch_n" -> SumsOfPartials("pq2_partial_n", "pq2_rowsum_n", c)
    [] c.fn = "rms_norm" -> Kernel("rms_norm", c.n, <<Floats("x", c.n), Floats("w", c.n)>>, c.n)
    [] c.fn = "elem" ->
         Kernel("elem", c.n, <<Floats("a", c.n), IF c.cols > 1 THEN Floats("b", c.n) ELSE Zeros(c.n)>>, c.n)
    [] c.fn = "norm_rows" ->
         Kernel("norm_rows", c.rows,
                <<Floats("x", c.n), IF c.cols > 1 THEN Floats("w", c.rows) ELSE Zeros(1)>>, c.n)
    [] c.fn = "softmax_row" -> Kernel("softmax_row", c.n, <<Floats("x", c.n)>>, c.n)
    [] c.fn = "rope_imrope" -> Kernel("rope_imrope", c.rows, <<Floats("heads", c.n)>>, c.n)
    [] c.fn = "gdn_step" ->
         LET ins == <<Floats("ins", c.n), Floats("state", c.rows)>> IN
         Kernel("gdn_step", 0, ins, c.cols) \o Kernel("gdn_step", 0, ins, c.rows)
    [] c.fn = "attn_step" ->
         LET s == Kernel("attn_scores", c.n, <<Floats("q", c.rows), Floats("k", c.n)>>, c.rows * c.n)
             p == Kernel("softmax_inplace", c.n, <<s>>, c.rows * c.n) IN
         Kernel("attn_out", c.n, <<p, Floats("v", c.n)>>, c.rows)
    [] c.fn = "read_dev" /\ c.n <= Shape[c.tensor].rows -> SubSeq(heap[c.tensor], 1, c.n)
    [] c.fn = "upload" -> Floats("new", c.n)
    [] OTHER -> <<>>

-----------------------------------------------------------------------------
VkIdle ==
  /\ heap = [o \in {} |-> <<>>] /\ own = {} /\ cached = <<>> /\ todo = <<>> /\ recorded = <<>>
  /\ queue = <<>> /\ lost = FALSE /\ calls = Len(HostCalls) /\ hostCall = [fn |-> "none"]
  /\ result = "none" /\ answer = <<>> /\ wanted = <<>>

VkInit ==
  /\ heap = [o \in {} |-> <<>>] /\ own = {} /\ cached = <<>> /\ todo = <<>> /\ recorded = <<>>
  /\ queue = <<>> /\ lost = FALSE /\ calls = 0 /\ hostCall = [fn |-> "none"]
  /\ result = "none" /\ answer = <<>> /\ wanted = <<>>

Opened == "device" \in own
Signalled == <<<<"signalled">>>>   \* a fence's content; unsignalled it has none
Made(o, n) == [p \in DOMAIN heap \cup {o} |-> IF p = o THEN [i \in 1..n |-> Junk] ELSE heap[p]]
Without(os) == [p \in DOMAIN heap \ os |-> heap[p]]
First == todo[1]
Advance == todo' = Tail(todo)
Running(op) == result = "running" /\ todo # <<>> /\ First.op = op

\* A call of one of the functions: a Gpu there is first opened, a tensor is one
\* that was uploaded.
Call(c) ==
  /\ result # "running"
  /\ Opened <=> c.fn \notin {"open", "enable_gpu"}
  /\ hostCall.fn # "drop"
  /\ c.fn = "load" => c.tensor \notin own
  /\ c.fn \in {"upload", "read_dev", "matvec_on"} => c.tensor \in own
  /\ hostCall' = c /\ calls' = calls + 1
  /\ todo' = Program(c) /\ wanted' = Want(c)
  /\ answer' = <<>> /\ result' = "running"
  /\ UNCHANGED <<heap, own, cached, recorded, queue, lost>>

MakeObject ==
  /\ Running("make")
  /\ heap' = Made(First.o, First.len)
  /\ Advance
  /\ UNCHANGED <<own, cached, recorded, queue, lost, calls, hostCall, result, answer, wanted>>

\* ensure_kernel, ensure_kv_params: made once, kept in a field.
EnsureObject ==
  /\ Running("ensure")
  /\ heap' = IF First.o \in own THEN heap ELSE Made(First.o, First.len)
  /\ own' = own \cup {First.o}
  /\ Advance
  /\ UNCHANGED <<cached, recorded, queue, lost, calls, hostCall, result, answer, wanted>>

\* ensure_staging_size: kept when long enough, otherwise replaced.
LongEnough(n) == "staging" \in own /\ LenOf("staging") >= n
EnsureStaging ==
  /\ Running("staging")
  /\ heap' = IF LongEnough(First.len) THEN heap ELSE Made("staging", First.len)
  /\ own' = own \cup {"staging"}
  /\ Advance
  /\ UNCHANGED <<cached, recorded, queue, lost, calls, hostCall, result, answer, wanted>>

KeepObjects ==
  /\ Running("keep")
  /\ own' = own \cup First.os
  /\ Advance
  /\ UNCHANGED <<heap, cached, recorded, queue, lost, calls, hostCall, result, answer, wanted>>

KeepCache ==
  /\ Running("cache")
  /\ cached' = <<First.ne0, First.rows>>
  /\ Advance
  /\ UNCHANGED <<heap, own, recorded, queue, lost, calls, hostCall, result, answer, wanted>>

\* The host writes the head of a mapped buffer.
Over(old, new) == [i \in 1..Len(old) |-> IF i <= Len(new) THEN new[i] ELSE old[i]]
PutFloats ==
  /\ Running("put")
  /\ heap' = [heap EXCEPT ![First.b] = Over(@, First.data)]
  /\ Advance
  /\ UNCHANGED <<own, cached, recorded, queue, lost, calls, hostCall, result, answer, wanted>>

BeginCommands ==
  /\ Running("begin")
  /\ recorded' = <<>>
  /\ Advance
  /\ UNCHANGED <<heap, own, cached, queue, lost, calls, hostCall, result, answer, wanted>>

RecordCommand ==
  /\ Running("record")
  /\ recorded' = Append(recorded, First.c)
  /\ Advance
  /\ UNCHANGED <<heap, own, cached, queue, lost, calls, hostCall, result, answer, wanted>>

SubmitCommands ==
  /\ Running("submit") /\ ~lost
  /\ queue' = queue \o [i \in 1..Len(recorded) |->
       [c |-> recorded[i], held |-> recorded[i].pool \cup {First.cb, First.fence}, fence |-> First.fence]]
  /\ Advance
  /\ UNCHANGED <<heap, own, cached, recorded, lost, calls, hostCall, result, answer, wanted>>

WaitForFence ==
  /\ \/ Running("wait") /\ heap[First.fence] = Signalled
     \/ Running("idle") /\ queue = <<>>
  /\ Advance
  /\ UNCHANGED <<heap, own, cached, recorded, queue, lost, calls, hostCall, result, answer, wanted>>

ResetFence ==
  /\ Running("reset")
  /\ heap' = [heap EXCEPT ![First.fence] = <<>>]
  /\ Advance
  /\ UNCHANGED <<own, cached, recorded, queue, lost, calls, hostCall, result, answer, wanted>>

ReadFloats ==
  /\ Running("read")
  /\ answer' = answer \o SubSeq(heap[First.b], 1, First.n)
  /\ Advance
  /\ UNCHANGED <<heap, own, cached, recorded, queue, lost, calls, hostCall, result, wanted>>

FreeObjects ==
  /\ Running("free")
  /\ heap' = Without(First.os) /\ own' = own \ First.os
  /\ cached' = IF "mv_x" \in First.os THEN <<>> ELSE cached
  /\ Advance
  /\ UNCHANGED <<recorded, queue, lost, calls, hostCall, result, answer, wanted>>

Finish ==
  /\ result = "running" /\ todo = <<>>
  /\ result' = "ok"
  /\ UNCHANGED <<heap, own, cached, todo, recorded, queue, lost, calls, hostCall, answer, wanted>>

\* An error returns at once: what is in no field is never freed.  Nothing names it
\* any more, so it leaves heap here; the driver keeps it until its device goes, and
\* how much such errors add up to is not told.  A staging buffer that could not be
\* replaced is gone; the device of an enable_gpu that failed is dropped, and an
\* open that failed leaves none.
Abandon(gone) ==
  /\ own' = IF hostCall.fn \in {"open", "enable_gpu"} THEN {} ELSE own \ gone
  /\ heap' = [o \in own' |-> heap[o]]
  /\ cached' = IF hostCall.fn \in {"open", "enable_gpu"} THEN <<>> ELSE cached
  /\ todo' = <<>> /\ result' = "err"
  /\ UNCHANGED <<recorded, calls, hostCall, answer, wanted>>

\* The arguments are refused, or the device was lost before.
Refused ==
  /\ Running("reject") \/ (Running("submit") /\ lost)
  /\ Abandon({})
  /\ UNCHANGED <<queue, lost>>

Fails ==
  /\ \/ Running("make") \/ Running("begin") \/ Running("reset") \/ Running("submit")
     \/ Running("ensure") /\ First.o \notin own
     \/ Running("staging") /\ ~LongEnough(First.len)
  /\ Abandon(IF First.op = "staging" THEN {"staging"} ELSE {})
  /\ UNCHANGED <<queue, lost>>

DeviceLost ==
  /\ Running("wait")
  /\ lost' = TRUE /\ queue' = <<>>
  /\ Abandon({})

-----------------------------------------------------------------------------
\* The device: what stands before the first barrier runs in any order, and a
\* barrier is passed when all before it is done.
Given(c) ==
  [i \in DOMAIN c.ins |->
     LET bound == heap[c.ins[i][1]]
     IN  SubSeq(bound, 1, IF c.ins[i][2] > Len(bound) THEN Len(bound) ELSE c.ins[i][2])]
Outcome(c) ==
  [o \in DOMAIN heap |->
     IF \E out \in c.outs : out[1] = o
     THEN LET n == (CHOOSE out \in c.outs : out[1] = o)[2] IN
          Over(heap[o], IF c.kernel = "copy" THEN Given(c)[1] ELSE Kernel(c.kernel, c.arg, Given(c), n))
     ELSE heap[o]]

\* The last command of a submission signals its fence.
Fenced(h, fence) ==
  LET left == {i \in DOMAIN queue : queue[i].fence = fence} IN
  [o \in DOMAIN h |-> IF o = fence /\ Cardinality(left) = 1 THEN Signalled ELSE h[o]]

DeviceRuns ==
  /\ \E i \in DOMAIN queue :
       /\ \A j \in 1..(i - 1) : queue[j].c.kernel # "barrier"
       /\ queue[i].c.kernel = "barrier" => i = 1
       /\ heap' = Fenced(Outcome(queue[i].c), queue[i].fence)
       /\ queue' = RemoveAt(queue, i)
  /\ UNCHANGED <<own, cached, todo, recorded, lost, calls, hostCall, result, answer, wanted>>

HostStep ==
  \/ MakeObject \/ EnsureObject \/ EnsureStaging \/ KeepObjects \/ KeepCache \/ PutFloats
  \/ BeginCommands \/ RecordCommand \/ SubmitCommands \/ WaitForFence \/ ResetFence
  \/ ReadFloats
  \/ FreeObjects \/ Finish \/ Refused

NextCall == calls < Len(HostCalls) /\ \E c \in HostCalls[calls + 1] : Call(c)

VkNext == NextCall \/ HostStep \/ Fails \/ DeviceLost \/ DeviceRuns

\* The caller goes on, and the device runs what it was given.
VkFair == WF_vkVars(HostStep) /\ WF_vkVars(DeviceRuns)
VkSpec == VkInit /\ [][VkNext]_vkVars /\ VkFair

-----------------------------------------------------------------------------
\* While the device works, no object of a submitted command is freed: not its
\* buffers, its descriptor pool, its command buffer or its fence.
TouchesLive ==
  \A i \in DOMAIN queue :
    /\ queue[i].held \subseteq DOMAIN heap
    /\ {queue[i].c.ins[j][1] : j \in DOMAIN queue[i].c.ins} \subseteq DOMAIN heap
    /\ {out[1] : out \in queue[i].c.outs} \subseteq DOMAIN heap

\* A kernel writes within the buffers bound to it, and a copy within both of its
\* ends.
WritesInBounds ==
  \A i \in DOMAIN queue : \A out \in queue[i].c.outs :
    out[1] \in DOMAIN heap => out[2] <= LenOf(out[1])

\* What a call that succeeds returns, or has put in the device buffer, is computed
\* of the floats given to this call: not of an earlier call's in a buffer that is
\* used again, not of another tensor's weights, not of sums not yet written.
AnswersThisCall ==
  result = "ok" =>
    wanted = IF hostCall.fn = "upload" THEN SubSeq(heap[hostCall.tensor], 1, hostCall.n) ELSE answer

\* A call that succeeds leaves what the fields of Gpu hold and nothing else, and
\* drop nothing but the table it forgets and the weights, which are not its own.
LeavesNothingBehind ==
  result = "ok" =>
    /\ DOMAIN heap \subseteq own
    /\ hostCall.fn = "drop" => own \subseteq {"params"} \cup Tensors

\* The life of a Vulkan object covers its use and no more: none is freed under the
\* device or overrun by it, and a call leaves behind only what Gpu keeps.
BuffersSound == TouchesLive /\ WritesInBounds /\ LeavesNothingBehind

\* Every call returns.
VkCallsReturn == result = "running" ~> result # "running"
====
