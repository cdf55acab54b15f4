----------------------------- MODULE TensorLookup -----------------------------
(***************************************************************************)
(* From a name to a tensor's rows: Weights of src/weights.rs with its index, *)
(* its memo and its copy in device memory, and Dspark of src/dspark.rs with  *)
(* the tensors a repacked sidecar leaves to the target's file.  A forward    *)
(* pass and a draft are the requests they make, in their order.              *)
(*                                                                           *)
(* Every row of a tensor is one cell of its file, <<content, row>>; a read   *)
(* at a wrong place gives another tensor's cells, as it does in the file     *)
(* (the bytes of a file are GgufFile's matter).                              *)
(* The model's file may have lost rows at its end: only a sidecar's layout is *)
(* checked when it is opened.                                                *)
(* The names of a file's tensors are distinct, and a sidecar's tensors have  *)
(* the shapes of its configuration: nothing checks the latter.               *)
(***************************************************************************)
EXTENDS Integers, Sequences, Pieces

CONSTANTS
  Models,     \* target files by id: [sound, cfg, tensors]
  Originals,  \* sidecars before they are repacked: [cfg, tensors]
  References, \* ids of the models that sidecars are repacked against
  Losses,     \* numbers of rows that a file may have lost at its end
  AskedTokens,
  MaxVec,     \* MAX_VEC_ELEMS
  Quant       \* elements of a ternary block

\* The tensors of a file, and the configurations: a model's, and a sidecar's.
Listing(ts) ==
  /\ ts \in Seq([name : {ts[i].name : i \in DOMAIN ts}, ty : {"f32", "f16", "bf16", "q4_1", "pq2"},
                 dims : Seq(Nat) \ {<<>>}, of : {ts[i].of : i \in DOMAIN ts}])
  /\ \A i, j \in DOMAIN ts : ts[i].name = ts[j].name => i = j
ModelConfig ==
  [layers : Nat, interval : Nat \ {0}, embd : Nat, ff : Nat, heads : Nat, kv : Nat, hd : Nat,
   kernel : Nat, state : Nat, groups : Nat, rank : Nat, inner : Nat]
SidecarConfig ==
  [layers : Nat, embd : Nat, ff : Nat, heads : Nat, kv : Nat, hd : Nat, taps : Nat, vocab : Nat,
   markov : Nat, freqs : Nat, snr : BOOLEAN]

ASSUME TensorLookupAssumption ==
  /\ \A m \in DOMAIN Models : Models[m].cfg \in ModelConfig /\ Listing(Models[m].tensors)
  /\ \A o \in Originals : o.cfg \in SidecarConfig /\ Listing(o.tensors)
  /\ References \subseteq DOMAIN Models /\ Losses \subseteq Nat
  /\ AskedTokens \subseteq Nat /\ MaxVec \in Nat /\ Quant \in Nat \ {0}

VARIABLES
  lkAt,      \* "start", "refused", "open", "upload", "forward", "draft" or "panicked"
  model,     \* the target: its id
  target,    \* and its file
  device,    \* GpuAccel::dev: name -> rows, or NoDevice
  loading,   \* the tensors uploaded so far by enable_gpu
  memo,      \* Weights::f32_cache
  draftMemo, \* Dspark::f32_memo
  sidecar,   \* the sidecar that is open: what it was made of, its file, and the
             \* file that was given with it
  script,    \* the requests of the running pass or draft
  asked,     \* the requests it has made
  answer     \* the last one and what it gave

lkVars == <<lkAt, model, target, device, loading, memo, draftMemo, sidecar, script, asked, answer>>

NoRows == [name \in {} |-> <<>>]
NoDevice == NoRows
None == <<>>   \* no file: the ids of files are sequences that are not empty

Elems(t) == Products(t.dims)[Len(t.dims)]
Ne0(t) == t.dims[1]
RowsOf(t) == Products(Tail(t.dims))[Len(t.dims) - 1]

Has(ts, name) == \E i \in DOMAIN ts : ts[i].name = name
Named(ts, name) == ts[CHOOSE i \in DOMAIN ts : ts[i].name = name]

-----------------------------------------------------------------------------
\* A read, and what it gives.
Err == [is |-> "err"]
Panicked == [is |-> "panic"]
Ok(rows) == [is |-> "ok", rows |-> rows]
NoAnswer == [ask |-> <<>>, out |-> Err, by |-> "none"]

CellsOf(t) == [r \in 1..RowsOf(t) |-> <<t.of, r>>]

\* The index with its offsets, and the data behind it.
DataOf(ts) == Together([i \in DOMAIN ts |-> CellsOf(ts[i])])
FileOf(ts) ==
  [index |-> [i \in DOMAIN ts |->
     [name |-> ts[i].name, ty |-> ts[i].ty, dims |-> ts[i].dims, of |-> ts[i].of,
      at |-> Len(DataOf(ts)[i - 1])]],
   rows |-> DataOf(ts)[Len(ts)]]
CutShort(f, lost) == [f EXCEPT !.rows = SubSeq(@, 1, Len(@) - lost)]
EmptyFile == [index |-> <<>>, rows |-> <<>>]
NoSidecar ==
  [original |-> [cfg |-> <<>>, tensors |-> <<>>], reference |-> None, file |-> EmptyFile,
   shared |-> {}, other |-> EmptyFile]

SliceAt(f, from, n) ==
  IF from + n > Len(f.rows) THEN Err ELSE Ok(SubSeq(f.rows, from + 1, from + n))
PayloadSlice(f, t) == SliceAt(f, t.at, RowsOf(t))

-----------------------------------------------------------------------------
\* Weights.
Ts == target.index

VecF32(name) ==
  IF name \in DOMAIN memo THEN Ok(memo[name])
  ELSE IF ~Has(Ts, name) THEN Err
  ELSE LET t == Named(Ts, name) IN
       IF t.ty \notin {"f32", "f16"} \/ Elems(t) > MaxVec THEN Err ELSE PayloadSlice(target, t)

InRange(t, row) == row < RowsOf(t)
RowF32(name, row) ==
  IF ~Has(Ts, name) THEN Err
  ELSE LET t == Named(Ts, name) IN
       IF ~InRange(t, row) \/ t.ty \notin {"pq2", "f32", "f16"} THEN Err
       ELSE SliceAt(target, t.at + row, 1)

\* A tensor that was uploaded is multiplied on the device, any other from its file.
MatvecInto(t, n, cols) ==
  IF t.ty # "pq2" \/ cols # Ne0(t) \/ n > RowsOf(t) THEN Err
  ELSE IF t.name \in DOMAIN device THEN Ok(SubSeq(device[t.name], 1, n))
  ELSE LET p == PayloadSlice(target, t) IN IF p = Err THEN Err ELSE Ok(SubSeq(p.rows, 1, n))

\* A request: the access, the tensor, the length of the vector it is multiplied
\* with or added to, and the rows, or elements, its caller goes on with.
Ask(fn, name, cols, n) == [fn |-> fn, name |-> name, cols |-> cols, n |-> n]

Outcome(a) ==
  LET t == Named(Ts, a.name) IN
  CASE a.fn = "row" ->
         LET r == RowF32(a.name, a.n) IN IF r # Err /\ Ne0(t) # a.cols THEN Err ELSE r
    [] a.fn = "vec" ->
         LET v == VecF32(a.name) IN IF v # Err /\ Elems(t) < a.n THEN Panicked ELSE v
    [] a.fn = "vec_rows" ->
         LET v == VecF32(a.name) IN IF v # Err /\ Elems(t) # a.n THEN Err ELSE v
    [] a.fn = "matvec" ->
         IF ~Has(Ts, a.name) \/ RowsOf(t) # a.n THEN Err ELSE MatvecInto(t, RowsOf(t), a.cols)
    [] a.fn = "matvec_into" ->
         IF ~Has(Ts, a.name) THEN Err ELSE MatvecInto(t, a.n, a.cols)
    [] a.fn = "head" ->
         IF ~Has(Ts, a.name) THEN Err ELSE MatvecInto(t, RowsOf(t), a.cols)

IsFull(c, il) == il % c.interval = c.interval - 1
AttnIn(c) == c.heads * c.hd
KvRows(c) == c.kv * c.hd
KeyDim(c) == c.groups * c.state
Channels(c) == 2 * KeyDim(c) + c.inner

\* What a forward pass asks for in one layer, and in all.
LayerAsks(c, il) ==
  LET at(s) == <<il, s>>
      full == <<Ask("matvec", at("attn_q"), c.embd, 2 * AttnIn(c)),
                Ask("matvec", at("attn_k"), c.embd, KvRows(c)),
                Ask("matvec", at("attn_v"), c.embd, KvRows(c)),
                Ask("vec_rows", at("attn_q_norm"), 0, c.hd),
                Ask("vec_rows", at("attn_k_norm"), 0, c.hd),
                Ask("matvec_into", at("attn_output"), AttnIn(c), c.embd)>>
      recurrent == <<Ask("matvec", at("attn_qkv"), c.embd, Channels(c)),
                     Ask("matvec", at("attn_gate"), c.embd, c.inner),
                     Ask("matvec", at("ssm_beta"), c.embd, c.rank),
                     Ask("matvec", at("ssm_alpha"), c.embd, c.rank),
                     Ask("vec", at("ssm_dt"), 0, c.rank),
                     Ask("vec", at("ssm_a"), 0, c.rank),
                     Ask("vec", at("ssm_conv1d"), 0, c.kernel * Channels(c)),
                     Ask("vec_rows", at("ssm_norm"), 0, c.state),
                     Ask("matvec_into", at("ssm_out"), c.inner, c.embd)>>
  IN  <<Ask("vec", at("attn_norm"), 0, c.embd)>>
      \o (IF IsFull(c, il) THEN full ELSE recurrent)
      \o <<Ask("vec", at("post_attention_norm"), 0, c.embd),
           Ask("matvec", at("ffn_gate"), c.embd, c.ff),
           Ask("matvec", at("ffn_up"), c.embd, c.ff),
           Ask("matvec_into", at("ffn_down"), c.ff, c.embd)>>

ForwardAsks(c, tok) ==
  <<Ask("row", <<-1, "token_embd">>, c.embd, tok)>>
  \o Flat([k \in 1..c.layers |-> LayerAsks(c, k - 1)])
  \o <<Ask("vec", <<-1, "output_norm">>, 0, c.embd), Ask("head", <<-1, "output">>, c.embd, 0)>>

\* expected_layer_tensors, and verify.
ExpectedTensors(c, il) ==
  LET e(s, ty, dims) == [name |-> <<il, s>>, ty |-> ty, dims |-> dims] IN
  {e("attn_norm", "f32", <<c.embd>>), e("post_attention_norm", "f32", <<c.embd>>),
   e("ffn_gate", "pq2", <<c.embd, c.ff>>), e("ffn_up", "pq2", <<c.embd, c.ff>>),
   e("ffn_down", "pq2", <<c.ff, c.embd>>)}
  \cup IF IsFull(c, il)
       THEN {e("attn_q", "pq2", <<c.embd, 2 * AttnIn(c)>>), e("attn_q_norm", "f32", <<c.hd>>),
             e("attn_k", "pq2", <<c.embd, KvRows(c)>>), e("attn_k_norm", "f32", <<c.hd>>),
             e("attn_v", "pq2", <<c.embd, KvRows(c)>>),
             e("attn_output", "pq2", <<AttnIn(c), c.embd>>)}
       ELSE {e("attn_qkv", "pq2", <<c.embd, Channels(c)>>), e("attn_gate", "pq2", <<c.embd, c.inner>>),
             e("ssm_a", "f32", <<c.rank>>), e("ssm_alpha", "pq2", <<c.embd, c.rank>>),
             e("ssm_beta", "pq2", <<c.embd, c.rank>>),
             e("ssm_conv1d", "f32", <<c.kernel, Channels(c)>>), e("ssm_dt", "f32", <<c.rank>>),
             e("ssm_norm", "f32", <<c.state>>), e("ssm_out", "pq2", <<c.inner, c.embd>>)}

\* A model's vectors are shorter than what vec_f32 refuses.
ASSUME VectorsFit ==
  \A m \in DOMAIN Models : \A il \in 0..(Models[m].cfg.layers - 1) :
    \A e \in ExpectedTensors(Models[m].cfg, il) : e.ty = "f32" => Elems(e) <= MaxVec

AsExpected_Columns(t, e) == t.ty = e.ty /\ t.dims[1] = e.dims[1]
AsExpected(t, e) == t.ty = e.ty /\ t.dims = e.dims
VerifyOk ==
  \A il \in 0..(Models[model].cfg.layers - 1) :
   \A e \in ExpectedTensors(Models[model].cfg, il) :
    Has(Ts, e.name) /\ AsExpected(Named(Ts, e.name), e)

-----------------------------------------------------------------------------
\* repack_ternary: what the reference holds byte for byte is dropped, the wide
\* matrices become ternary, the rest is copied.
SameInReference_ByShape(t, ref) ==
  Has(ref, t.name) /\ Named(ref, t.name).ty = t.ty /\ Named(ref, t.name).dims = t.dims
SameInReference(t, ref) ==
  /\ Has(ref, t.name) /\ Named(ref, t.name).ty = t.ty /\ Named(ref, t.name).dims = t.dims
  /\ Named(ref, t.name).of = t.of
Convertible(t) == t.ty \in {"q4_1", "bf16"} /\ Ne0(t) % Quant = 0
Ternary(of) == of \o <<"ternary">>
Repacked(t) == IF Convertible(t) THEN [t EXCEPT !.ty = "pq2", !.of = Ternary(@)] ELSE t
Kept(ts, ref) == Those(ts, {i \in DOMAIN ts : ~SameInReference(ts[i], ref)})
Repack(ts, ref) ==
  [file |-> FileOf([i \in DOMAIN Kept(ts, ref) |-> Repacked(Kept(ts, ref)[i])]),
   shared |-> {ts[i].name : i \in {j \in DOMAIN ts : SameInReference(ts[j], ref)}}]

\* Dspark: the sidecar first, then the target for the names declared shared.
Resolve(name) ==
  IF Has(sidecar.file.index, name) THEN sidecar.file
  ELSE IF name \in sidecar.shared /\ Has(sidecar.other.index, name) THEN sidecar.other
  ELSE EmptyFile

TypeSupported(ty) == ty \in {"f32", "bf16", "q4_1", "pq2"}

DraftVec(name) ==
  IF name \in DOMAIN draftMemo THEN Ok(draftMemo[name])
  ELSE LET f == Resolve(name) IN
       IF f = EmptyFile \/ ~TypeSupported(Named(f.index, name).ty) THEN Err
       ELSE PayloadSlice(f, Named(f.index, name))

\* row_f32 slices the payload, never the file.
DraftOutcome(a) ==
  LET f == Resolve(a.name)
      t == Named(f.index, a.name)
      p == PayloadSlice(f, t)
  IN  IF a.fn = "vec"
      THEN LET v == DraftVec(a.name) IN
           IF v # Err /\ a.n > Elems(t) THEN Panicked ELSE v
      ELSE IF f = EmptyFile \/ p = Err THEN Err
      ELSE CASE a.fn = "row" ->
                  IF ~TypeSupported(t.ty) \/ a.n + 1 > RowsOf(t) THEN Err ELSE Ok(<<p.rows[a.n + 1]>>)
             [] a.fn = "range" ->
                  IF ~TypeSupported(t.ty) \/ a.cols # Ne0(t) \/ a.n > RowsOf(t)
                  THEN Err ELSE Ok(SubSeq(p.rows, 1, a.n))
             [] a.fn = "multi" ->
                  IF ~TypeSupported(t.ty) \/ a.cols # Ne0(t) \/ a.n < RowsOf(t)
                  THEN Err ELSE p
             [] a.fn = "markov_row" ->
                  IF a.n + 1 > RowsOf(t) THEN Panicked ELSE Ok(<<p.rows[a.n + 1]>>)

\* encode, inject and draft_block.
DraftLayer(c, il) ==
  LET at(s) == <<il, s>> IN
  <<Ask("vec", at("attn_norm"), 0, c.embd), Ask("vec", at("attn_q_norm"), 0, c.hd),
    Ask("vec", at("attn_k_norm"), 0, c.hd), Ask("vec", at("ffn_norm"), 0, c.embd),
    Ask("multi", at("attn_q"), c.embd, AttnIn(c)), Ask("multi", at("attn_k"), c.embd, KvRows(c)),
    Ask("multi", at("attn_v"), c.embd, KvRows(c)),
    Ask("multi", at("attn_output"), AttnIn(c), c.embd),
    Ask("multi", at("ffn_gate"), c.embd, c.ff), Ask("multi", at("ffn_up"), c.embd, c.ff),
    Ask("multi", at("ffn_down"), c.ff, c.embd)>>
Injected(c, il) ==
  <<Ask("vec", <<il, "attn_k_norm">>, 0, c.hd),
    Ask("range", <<il, "attn_k">>, c.embd, KvRows(c)),
    Ask("range", <<il, "attn_v">>, c.embd, KvRows(c))>>
LogSnr(c) ==
  IF ~c.snr THEN <<>>
  ELSE <<Ask("vec", <<-1, "fc1.bias">>, 0, c.embd), Ask("vec", <<-1, "fc2.bias">>, 0, c.embd),
         Ask("range", <<-1, "fc1">>, c.freqs, c.embd), Ask("range", <<-1, "fc2">>, c.embd, c.embd)>>
DraftAsks(c, tok) ==
  <<Ask("vec", <<-1, "hidden_norm">>, 0, c.embd), Ask("range", <<-1, "fc">>, c.taps * c.embd, c.embd)>>
  \o Flat([k \in 1..c.layers |-> Injected(c, k - 1)])
  \o <<Ask("row", <<-1, "token_embd">>, c.embd, tok)>> \o LogSnr(c)
  \o Flat([k \in 1..c.layers |-> DraftLayer(c, k - 1)])
  \o <<Ask("vec", <<-1, "output_norm">>, 0, c.embd), Ask("multi", <<-1, "output">>, c.embd, c.vocab),
       Ask("vec", <<-1, "confidence">>, 0, 1), Ask("vec", <<-1, "confidence.bias">>, 0, 1),
       Ask("markov_row", <<-1, "markov_a">>, 0, tok), Ask("range", <<-1, "markov_b">>, c.markov, c.vocab)>>

\* A sidecar has the tensors of its configuration, in types that are read.
HasFor(ts, a) ==
  LET t == Named(ts, a.name) IN
  /\ Has(ts, a.name) /\ a.n \in Nat
  /\ \/ a.fn = "vec" /\ TypeSupported(t.ty) /\ a.n <= Elems(t)
     \/ a.fn = "row" /\ TypeSupported(t.ty)
     \/ a.fn = "range" /\ TypeSupported(t.ty) /\ a.cols = Ne0(t) /\ a.n <= RowsOf(t)
     \/ a.fn = "multi" /\ TypeSupported(t.ty) /\ a.cols = Ne0(t) /\ a.n = RowsOf(t)
     \/ a.fn = "markov_row"
ASSUME OriginalsComplete ==
  \A o \in Originals : \A tok \in AskedTokens : \A i \in DOMAIN DraftAsks(o.cfg, tok) :
    HasFor(o.tensors, DraftAsks(o.cfg, tok)[i])

NextAsk == script[asked + 1]

-----------------------------------------------------------------------------
LkNothing ==
  /\ model = None /\ target = EmptyFile /\ device = NoDevice /\ loading = <<>> /\ memo = NoRows /\ draftMemo = NoRows
  /\ sidecar = NoSidecar /\ script = <<>> /\ asked = 0 /\ answer = NoAnswer
LkIdle == lkAt = "off" /\ LkNothing
LkInit == lkAt = "start" /\ LkNothing

\* Weights::open: the architecture and the metadata it needs, then the index.
\* Whether the file is as long as the index says is not looked at.
OpenModel(m, lost) ==
  /\ lkAt = "start"
  /\ lkAt' = IF Models[m].sound THEN "open" ELSE "refused"
  /\ model' = IF Models[m].sound THEN m ELSE model
  /\ target' = IF Models[m].sound THEN CutShort(FileOf(Models[m].tensors), lost) ELSE target
  /\ UNCHANGED <<device, loading, memo, draftMemo, sidecar, script, asked, answer>>

\* enable_gpu: the ternary tensors one by one; the accelerator is there when the
\* last one is, and an error leaves the weights as they were.
Matrices == Those(Ts, {i \in DOMAIN Ts : Ts[i].ty = "pq2"})
EnableGpu ==
  /\ lkAt = "open" /\ device = NoDevice
  /\ lkAt' = "upload" /\ loading' = <<>>
  /\ UNCHANGED <<model, target, device, memo, draftMemo, sidecar, script, asked, answer>>

UploadNext ==
  /\ lkAt = "upload" /\ Len(loading) < Len(Matrices)
  /\ LET payload == PayloadSlice(target, Matrices[Len(loading) + 1]) IN
     payload # Err /\ loading' = Append(loading, payload.rows)
  /\ UNCHANGED <<lkAt, model, target, device, memo, draftMemo, sidecar, script, asked, answer>>

UploadDone ==
  /\ lkAt = "upload" /\ Len(loading) = Len(Matrices)
  /\ device' = [name \in {Matrices[k].name : k \in DOMAIN Matrices} |->
                  loading[CHOOSE k \in DOMAIN Matrices : Matrices[k].name = name]]
  /\ lkAt' = "open" /\ loading' = <<>>
  /\ UNCHANGED <<model, target, memo, draftMemo, sidecar, script, asked, answer>>

UploadFails ==
  /\ lkAt = "upload"
  /\ lkAt' = "open" /\ loading' = <<>>
  /\ UNCHANGED <<model, target, device, memo, draftMemo, sidecar, script, asked, answer>>

\* Dspark::open_with_target: a sidecar repacked against the reference, or against
\* none, is opened with the model's own path or without one.
OpenSidecar(o, ref, other) ==
  LET repacked == Repack(o.tensors, IF ref = None THEN <<>> ELSE Models[ref].tensors) IN
  /\ lkAt = "open" /\ sidecar = NoSidecar
  /\ sidecar' = IF repacked.shared # {} /\ other = EmptyFile THEN sidecar
                ELSE [original |-> o, reference |-> ref, file |-> repacked.file,
                      shared |-> repacked.shared, other |-> other]
  /\ UNCHANGED <<lkAt, model, target, device, loading, memo, draftMemo, script, asked, answer>>

\* Decoder::decode_token, and one round of the drafter.
Begin(what, requests) ==
  /\ lkAt = "open" /\ lkAt' = what
  /\ script' = requests /\ asked' = 0 /\ answer' = NoAnswer
  /\ UNCHANGED <<model, target, device, loading, memo, draftMemo, sidecar>>
BeginForward(tok) == Begin("forward", ForwardAsks(Models[model].cfg, tok))
BeginDraft(tok) == sidecar # NoSidecar /\ Begin("draft", DraftAsks(sidecar.original.cfg, tok))

\* The next request is answered; an error goes to the caller, which may try again.
Remember(m, a, out) ==
  IF a.fn \in {"vec", "vec_rows"} /\ out.is = "ok" /\ a.name \notin DOMAIN m
  THEN [name \in DOMAIN m \cup {a.name} |-> IF name = a.name THEN out.rows ELSE m[name]]
  ELSE m
Given(out) ==
  /\ answer' = [ask |-> NextAsk, out |-> out, by |-> lkAt]
  /\ asked' = asked + 1
  /\ lkAt' = CASE out.is = "panic" -> "panicked"
              [] out.is = "ok" /\ asked' < Len(script) -> lkAt
              [] OTHER -> "open"
  /\ UNCHANGED <<model, target, device, loading, sidecar, script>>

Answer ==
  \/ /\ lkAt = "forward"
     /\ Given(Outcome(NextAsk))
     /\ memo' = Remember(memo, NextAsk, Outcome(NextAsk))
     /\ UNCHANGED draftMemo
  \/ /\ lkAt = "draft"
     /\ Given(DraftOutcome(NextAsk))
     /\ draftMemo' = Remember(draftMemo, NextAsk, DraftOutcome(NextAsk))
     /\ UNCHANGED memo

\* A product on the device may fail; the file is not tried instead.
DeviceFails ==
  /\ lkAt = "forward"
  /\ NextAsk.fn \in {"matvec", "matvec_into", "head"} /\ NextAsk.name \in DOMAIN device
  /\ answer' = NoAnswer /\ lkAt' = "open"
  /\ UNCHANGED <<model, target, device, loading, memo, draftMemo, sidecar, script, asked>>

LkNext ==
  \/ \E m \in DOMAIN Models, lost \in Losses : OpenModel(m, lost)
  \/ EnableGpu \/ UploadNext \/ UploadDone \/ UploadFails
  \/ \E o \in Originals, ref \in References \cup {None}, other \in {target, EmptyFile} :
       OpenSidecar(o, ref, other)
  \/ \E tok \in AskedTokens : BeginForward(tok) \/ BeginDraft(tok)
  \/ Answer \/ DeviceFails

LkSpec == LkInit /\ [][LkNext]_lkVars

-----------------------------------------------------------------------------
\* The rows a request is about, of a tensor as its file holds it.
Asked(a, t) ==
  CASE a.fn \in {"row", "markov_row"} -> <<<<t.of, a.n + 1>>>>
    [] a.fn \in {"matvec_into", "range"} -> SubSeq(CellsOf(t), 1, a.n)
    [] OTHER -> CellsOf(t)

\* Whatever holds a tensor by now, the file, the memo or the device, and however an
\* upload went, what a forward pass is given for a name are that tensor's rows, and
\* a token behind the last row is refused.
OwnersRows ==
  answer.by = "forward" /\ answer.out.is = "ok" =>
    answer.out.rows = Asked(answer.ask, Named(Ts, answer.ask.name))

\* The bytes of a tensor that the index promises and the file has no more.
Missing(f, name) == PayloadSlice(f, Named(f.index, name)) = Err

\* weights.rs:17, verify "can prove a file matches the architecture": of the layers
\* of a file it accepts nothing that a forward pass asks for panics, and nothing is
\* refused in the middle of a token but a tensor that the file ends before, which
\* verify does not look at (gguf.rs:292).
VerifiedIsEnough ==
  answer.by = "forward" /\ answer.ask.name[1] >= 0 /\ answer.out.is # "ok" /\ VerifyOk =>
    answer.out = Err /\ Missing(target, answer.ask.name)

\* A model that passed verify serves a forward pass with the rows of the tensors it
\* asks for, as far as its file goes, and never with another's.
VerifiedServes == OwnersRows /\ VerifiedIsEnough

\* A sidecar repacked against the model it is opened with gives a draft everything the
\* original would: the tensors that were dropped from the model's file, with the rows
\* they had, if that file still has them, the others from its own.
BeyondRows(a, t) == a.fn \in {"row", "markov_row"} /\ a.n >= RowsOf(t)
DraftFindsOriginal ==
  answer.by = "draft" /\ sidecar.reference \in {None, model} =>
    LET t == Named(sidecar.original.tensors, answer.ask.name) IN
    \/ BeyondRows(answer.ask, t)
    \/ t.name \in sidecar.shared /\ answer.out = Err /\ Missing(sidecar.other, t.name)
    \/ /\ answer.out.is = "ok"
       /\ answer.out.rows = Asked(answer.ask, IF t.name \in sidecar.shared THEN t ELSE Repacked(t))
=============================================================================
