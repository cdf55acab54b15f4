------------------------------- MODULE GgufFile -------------------------------
(***************************************************************************)
(* The files of src/gguf.rs: write_gguf, convert_dspark_sidecar and         *)
(* retag_legacy_ternary write one piece by piece, GGUF::open, check_layout  *)
(* and payload_slice read it.  A file is its header's fields, its length    *)
(* and the writes to its data section, in the order they were made; every   *)
(* position is in bytes.  An I/O error may end the program between any two  *)
(* writes and leaves what has been written.                                 *)
(***************************************************************************)
EXTENDS Integers, Sequences, Pieces

CONSTANTS
  Align,     \* 32
  Tensors,   \* tensors a file may hold: [name, dims, ty]
  Metas,     \* the metadata of a source: sequences of [key, value]
  StrLen,    \* bytes of each string that a name or a key is made of
  MaxTensors \* bound: tensors of one file

\* The scalar types a value may have, by their ids, and their widths; a string is
\* told apart where it names the architecture.
Scalar == [t \in (0..12) \ {8, 9} |->
  CASE t \in {0, 1, 7} -> 1 [] t \in {2, 3} -> 2
    [] t \in {4, 5, 6} -> 4 [] t \in {10, 11, 12} -> 8]
Values ==
  [t : DOMAIN Scalar, x : Int] \cup [t : {8}, len : Nat, name : {"dspark", "dflash", "another"}]
  \cup [t : {9}, e : DOMAIN Scalar \cup {8}, n : Nat, len : Nat]

\* No tensor is empty.
ASSUME GgufAssumption ==
  /\ Align \in Nat \ {0} /\ MaxTensors \in Nat
  /\ Tensors \subseteq [name : {t.name : t \in Tensors}, dims : Seq(Nat \ {0}),
                        ty : {0, 1, 3, 30, 34, 42, 142}]
  /\ \A meta \in Metas :
       meta \in Seq([key : {meta[i].key : i \in DOMAIN meta}, value : Values])

VARIABLES
  job,    \* "write", "convert", "retag" or "off"
  phase,  \* "begin", "data", "done", "refused" or "failed"
  src,    \* the file that is read (for "write": what the caller describes)
  plan,   \* tensors in the order their payloads are written
  step,   \* payloads (for "retag": chunks) written so far
  dst     \* the file that is written

ggufVars == <<job, phase, src, plan, step, dst>>

AlignUp(v) == ((v + Align - 1) \div Align) * Align

\* tensor_nbytes_for: elements of a block and its bytes.
Block(ty) ==
  CASE ty \in {0} -> <<1, 4>>
    [] ty \in {1, 30} -> <<1, 2>>
    [] ty = 3 -> <<32, 20>>
    [] ty \in {42, 142} -> <<128, 34>>
    [] ty = 34 -> <<256, 54>>
NBytes(t) == ((Products(t.dims)[Len(t.dims)] + Block(t.ty)[1] - 1) \div Block(t.ty)[1]) * Block(t.ty)[2]
Padded(t) == AlignUp(NBytes(t))

-----------------------------------------------------------------------------
\* The header: strings carry their length, a value is a scalar, a string, or an
\* array of either; put_value, read_value and skip_value each know the widths.
NameLen(n) == Total([k \in DOMAIN n |-> StrLen[n[k]]])

SkipScalar == Scalar

Width(v, scalar) ==
  CASE v.t = 8 -> 8 + v.len
    [] v.t = 9 -> 4 + 8 + v.n * (IF v.e = 8 THEN 8 + v.len ELSE scalar[v.e])
    [] OTHER -> scalar[v.t]

MetaEnd(meta, scalar) ==
  4 + 4 + 8 + 8
  + Total([i \in DOMAIN meta |-> 8 + NameLen(meta[i].key) + 4 + Width(meta[i].value, scalar)])

\* What the writers reserve for one tensor's entry, and what they put there.
InfoLen(t) == 8 + NameLen(t.name) + 4 + 8 * Len(t.dims) + 4 + 8
InfoPut(t) == (8 + NameLen(t.name)) + 4 + Total([k \in DOMAIN t.dims |-> 8]) + 4 + 8
InfosLen(ts) == Total([i \in DOMAIN ts |-> InfoLen(ts[i])])
InfosPut(ts) == Sums([i \in DOMAIN ts |-> InfoPut(ts[i])])

\* Where entry i's type id is, when the metadata end at from.
TypeField(f, i, from) ==
  from + InfosPut(f.index)[i] - 12

HeaderEnd(f) == MetaEnd(f.meta, Scalar) + InfosPut(f.index)[Len(f.index)]

\* GGUF::open: the data section begins behind the entries, aligned; the legacy
\* ternary id is read as the current one.
DataStart(f) == AlignUp(HeaderEnd(f))
Normal_Kept(ty) == ty
Normal(ty) == IF ty = 42 THEN 142 ELSE ty
Opened(f) == [i \in DOMAIN f.index |-> [f.index[i] EXCEPT !.ty = Normal(@)]]

\* What a read gives that gives no tensor's bytes.
PastEnd == 0
Hole == -1
Mixed == -2

\* slice_at: an error past the end, else what the last write there has put.
Reads(f, from, n) ==
  IF from + n > f.len THEN PastEnd
  ELSE LET over == {k \in DOMAIN f.data : f.data[k].at < from + n /\ f.data[k].at + f.data[k].n > from}
       IN  IF over = {} THEN Hole
           ELSE LET w == f.data[CHOOSE k \in over : \A j \in over : j <= k]
                IN  IF w.at = from /\ w.n = n THEN w.of ELSE Mixed

\* payload_slice
Payload(f, t) == Reads(f, DataStart(f) + t.offset, NBytes(t))

\* check_layout
Blocks(ts) == [i \in DOMAIN ts |-> Padded(ts[i])]
OffsetOf(ts, i) == Sums(Blocks(ts))[i - 1]
Chained(f) == \A i \in DOMAIN f.index : f.index[i].offset = OffsetOf(f.index, i)
Fits_Start(f) == AlignUp(DataStart(f)) <= f.len
Fits(f) == AlignUp(DataStart(f)) + Total(Blocks(f.index)) <= f.len
CheckLayout(f) == Chained(f) /\ Fits(f)

-----------------------------------------------------------------------------
NoFile == [meta |-> <<>>, index |-> <<>>, len |-> 0, data |-> <<>>]

\* A file another program wrote: its index may be in another order than its
\* data (order[i]: which tensor lies i-th), and it may be cut short.
SourceFile(meta, ts, order, whole) ==
  LET place(i) == CHOOSE k \in DOMAIN order : order[k] = i
      lying == [k \in DOMAIN order |-> ts[order[k]]]
      index == [i \in DOMAIN ts |->
                  [name |-> ts[i].name, dims |-> ts[i].dims, ty |-> ts[i].ty,
                   offset |-> OffsetOf(lying, place(i))]]
      start == DataStart([meta |-> meta, index |-> index])
  IN  [meta |-> meta, index |-> index,
       len |-> start + Total(Blocks(lying)) - (IF whole THEN 0 ELSE Align),
       data |-> [i \in DOMAIN ts |->
                   [at |-> start + index[i].offset, n |-> NBytes(ts[i]), of |-> i]]]

Orders(n) ==
  {o \in [1..n -> 1..n] : \A k \in 1..n : \E i \in 1..n : \A j \in 1..n : o[j] = k <=> i = j}
Lists == UNION {{s \in [1..k -> Tensors] : \A i, j \in 1..k : s[i].name = s[j].name => i = j}
                : k \in 1..MaxTensors}

GgufIdle == job = "off" /\ phase = "begin" /\ src = NoFile /\ plan = <<>> /\ step = 0 /\ dst = NoFile

GgufInit ==
  /\ job \in {"write", "convert", "retag"}
  /\ \E meta \in Metas, ts \in Lists, whole \in BOOLEAN :
       \E order \in Orders(Len(ts)) :
         /\ job = "write" => whole /\ order = [i \in DOMAIN ts |-> i]
         /\ src = SourceFile(meta, ts, order, whole)
  /\ phase = "begin" /\ plan = <<>> /\ step = 0 /\ dst = NoFile

IsArchitecture(m) == m.key = <<"general.", "architecture">>

\* dflash_kv_key: the key it becomes, or none when it is dropped.
NewKey(k) ==
  IF k[1] = "dspark.dspark."
  THEN CASE k[2] = "mask_token_id" -> <<<<"tokenizer.ggml.", "mask_token_id">>>>
         [] k[2] \in {"markov_rank", "confidence_head_with_markov"} -> <<>>
         [] OTHER -> <<<<"dflash.", k[2]>>>>
  ELSE IF k[1] = "dspark." THEN <<<<"dflash.", k[2]>>>> ELSE <<k>>

\* dflash_tensor_name
NewName(n) ==
  CASE n = <<"dspark.", "markov_head_a.weight">> -> <<"markov_w1.weight">>
    [] n = <<"dspark.", "markov_head_b.weight">> -> <<"markov_w2.weight">>
    [] n = <<"dspark.", "confidence_head.weight">> -> <<"conf_proj.weight">>
    [] n = <<"dspark.", "confidence_head.bias">> -> <<"conf_proj.bias">>
    [] n = <<"dspark.", "hidden_norm.weight">> -> <<"enc.output_norm.weight">>
    [] n = <<"dspark.", "fc.weight">> -> <<"fc.weight">>
    [] n[1] = "dspark.log_snr_" -> <<"log_snr_">> \o Tail(n)
    [] OTHER -> n

\* Every string that a header holds has a length.
ASSUME StringsHaveLengths ==
  /\ \A t \in Tensors : NameLen(t.name) \in Nat /\ NameLen(NewName(t.name)) \in Nat
  /\ \A meta \in Metas : \A i \in DOMAIN meta :
       /\ NameLen(meta[i].key) \in Nat
       /\ \A k \in DOMAIN NewKey(meta[i].key) : NameLen(NewKey(meta[i].key)[k]) \in Nat

NewMeta(meta) ==
  Flat([i \in DOMAIN meta |->
    [k \in DOMAIN NewKey(meta[i].key) |->
       [key |-> NewKey(meta[i].key)[k],
        value |-> IF IsArchitecture(meta[i]) THEN [meta[i].value EXCEPT !.name = "dflash"]
                  ELSE meta[i].value]]])

\* The entries are sorted by where their data lie.
DataOrder ==
  CHOOSE o \in Orders(Len(src.index)) :
    \A i, j \in 1..Len(src.index) :
      i <= j => src.index[o[i]].offset <= src.index[o[j]].offset

\* Where the payload of an entry lies in the source, from the file's beginning.
SourceAt(t) == DataStart(src) + t.offset

\* Both writers: the entries, the offsets, and the padded end of the header.
Laid(meta, ts) ==
  LET index == [i \in DOMAIN ts |->
                  [name |-> ts[i].name, dims |-> ts[i].dims, ty |-> ts[i].ty,
                   offset |-> OffsetOf(ts, i)]]
      start == AlignUp(MetaEnd(meta, Scalar) + InfosLen(ts))
  IN  [meta |-> meta, index |-> index, len |-> start, data |-> <<>>]

\* A header that outgrew the computed start is an error, before the file is
\* created; File::create empties a file that is there.
Created(file, items) ==
  IF HeaderEnd(file) > file.len THEN phase' = "failed" /\ UNCHANGED <<dst, plan>>
  ELSE phase' = "data" /\ dst' = file /\ plan' = items

StartWrite ==
  /\ job = "write" /\ phase = "begin"
  /\ Created(Laid(src.meta, src.index),
             [i \in DOMAIN src.index |-> [from |-> 0, of |-> i]])
  /\ UNCHANGED <<job, src, step>>

StartConvert ==
  /\ job = "convert" /\ phase = "begin"
  /\ IF \A i \in DOMAIN src.meta :
          IsArchitecture(src.meta[i]) => src.meta[i].value.t # 8 \/ src.meta[i].value.name # "dspark"
     THEN phase' = "refused" /\ UNCHANGED <<dst, plan>>
     ELSE LET read == Opened(src)
              ts == [i \in DOMAIN DataOrder |->
                      [read[DataOrder[i]] EXCEPT !.name = NewName(@)]]
          IN  Created(Laid(NewMeta(src.meta), ts),
                      [i \in DOMAIN ts |-> [from |-> SourceAt(ts[i]),
                                            of |-> DataOrder[i]]])
  /\ UNCHANGED <<job, src, step>>

\* The payload of the next tensor: the caller's, of the right length or not
\* (rest: bytes it gives beyond or short of it), or the source's, if it is there.
PayloadOf(rest) ==
  LET it == plan[step + 1]
      t == dst.index[step + 1]
  IN  IF job = "write" THEN (IF rest = 0 THEN it.of ELSE PastEnd)
      ELSE Reads(src, it.from, NBytes(t))

WriteNext(rest) ==
  /\ job \in {"write", "convert"} /\ phase = "data" /\ step < Len(plan)
  /\ IF PayloadOf(rest) = PastEnd
     THEN phase' = "failed" /\ UNCHANGED <<step, dst>>
     ELSE LET t == dst.index[step + 1]
              start == AlignUp(MetaEnd(dst.meta, Scalar) + InfosLen(dst.index))
              at == start + t.offset
          IN  /\ dst' = [dst EXCEPT
                   !.len = IF @ > at + NBytes(t) THEN @ ELSE at + NBytes(t),
                   !.data = Append(@, [at |-> at, n |-> NBytes(t), of |-> PayloadOf(rest)])]
              /\ step' = step + 1
              /\ UNCHANGED phase
  /\ UNCHANGED <<job, src, plan>>

\* The last seek moves the position behind the padding and flush has nothing to
\* write: the file ends with the last payload.
Finish ==
  /\ job \in {"write", "convert"} /\ phase = "data" /\ step = Len(plan)
  /\ phase' = "done"
  /\ UNCHANGED <<job, src, plan, step, dst>>

\* The header is patched in memory where skip_value led to, and written.
LegacyFileType(m) ==
  m.key = <<"general.", "file_type">> /\ m.value.t \in {4, 5, 10, 11} /\ m.value.x = 28
StartRetag ==
  /\ job = "retag" /\ phase = "begin"
  /\ LET found(i) == TypeField(src, i, MetaEnd(src.meta, SkipScalar))
                     = TypeField(src, i, MetaEnd(src.meta, Scalar))
         skipped(i) == MetaEnd(SubSeq(src.meta, 1, i - 1), SkipScalar)
                       = MetaEnd(SubSeq(src.meta, 1, i - 1), Scalar)
         end == HeaderEnd(src)
     IN  dst' = [meta |-> [i \in DOMAIN src.meta |->
                             IF LegacyFileType(src.meta[i]) /\ skipped(i)
                             THEN [src.meta[i] EXCEPT !.value.x = 128] ELSE src.meta[i]],
                 index |-> [i \in DOMAIN src.index |->
                             IF src.index[i].ty = 42 /\ found(i)
                             THEN [src.index[i] EXCEPT !.ty = 142] ELSE src.index[i]],
                 len |-> end, data |-> <<>>]
  /\ phase' = "data"
  /\ UNCHANGED <<job, src, plan, step>>

\* The rest of the file in chunks; a chunk may end inside a payload.
Before(end) == {k \in DOMAIN src.data : src.data[k].at + src.data[k].n <= end}
CopyChunk ==
  /\ job = "retag" /\ phase = "data" /\ dst.len < src.len
  /\ \E end \in {dst.len + Align, src.len} :
       /\ end > dst.len /\ end <= src.len
       /\ dst' = [dst EXCEPT !.len = end,
                             !.data = Those(src.data, Before(end))]
  /\ step' = step + 1
  /\ UNCHANGED <<job, phase, src, plan>>

CopyEnds ==
  /\ job = "retag" /\ phase = "data" /\ dst.len = src.len
  /\ phase' = "done"
  /\ UNCHANGED <<job, src, plan, step, dst>>

\* A write fails; nothing removes the file.
IoError ==
  /\ phase = "data"
  /\ phase' = "failed"
  /\ UNCHANGED <<job, src, plan, step, dst>>

GgufNext ==
  \/ StartWrite \/ StartConvert \/ (\E rest \in {0, 1} : WriteNext(rest)) \/ Finish
  \/ StartRetag \/ CopyChunk \/ CopyEnds \/ IoError

GgufSpec == GgufInit /\ [][GgufNext]_ggufVars
-----------------------------------------------------------------------------
\* The tensor of the source that each tensor of the written file should hold.
Wanted(i) == IF job = "retag" THEN i ELSE plan[i].of

\* A program that ends well leaves a file that reads back: every tensor of the
\* source is there under its new name, with its shape and type, and payload_slice
\* finds its bytes, although the header has another size than the source's, the
\* index another order and the offsets were computed anew.
ReadsBack ==
  phase = "done" =>
    LET old == Opened(src)
        new == Opened(dst)
    IN  /\ {Wanted(i) : i \in DOMAIN new} = DOMAIN old /\ Len(new) = Len(old)
        /\ \A i \in DOMAIN new :
             LET o == old[Wanted(i)] IN
             /\ new[i].name = IF job = "convert" THEN NewName(o.name) ELSE o.name
             /\ new[i].dims = o.dims /\ new[i].ty = o.ty
             /\ job # "retag" => Payload(dst, new[i]) = Wanted(i)
             /\ job = "retag" => Payload(dst, new[i]) = Payload(src, o)

\* A file that was given up half-way is not taken for a whole one: what
\* check_layout accepts has every payload, whether or not the writer ended.
AcceptedIsComplete ==
  dst # NoFile /\ CheckLayout(dst) =>
    \A i \in DOMAIN dst.index : Payload(dst, Opened(dst)[i]) = Wanted(i)

\* gguf.rs:570, llama.cpp "requires the tensor index to be in data order with
\* each offset equal to the padded running sum": so it is in every file the two
\* writers lay out, whatever the order of the source.
InDataOrder ==
  dst # NoFile /\ job # "retag" =>
    /\ Chained(dst)
    /\ job = "convert" => \A i, j \in DOMAIN plan : i < j => plan[i].from < plan[j].from

\* No legacy id is left after a retag, behind values of whatever width.
RetagComplete ==
  phase = "done" /\ job = "retag" =>
    /\ \A i \in DOMAIN dst.index : dst.index[i].ty # 42
    /\ \A i \in DOMAIN dst.meta : ~LegacyFileType(dst.meta[i])

\* Whichever program wrote it, a file holds the source's tensors where its index
\* says, in data order, with no legacy id left.
CopiesTheTensors == ReadsBack /\ InDataOrder /\ RetagComplete

\* gguf.rs:357 of write_gguf, "Tensors are laid out contiguously in the given
\* order (each padded to the 32-byte alignment)": what it writes passes the
\* check that the loader makes (DSpark::open calls check_layout).
WrittenIsAccepted == phase = "done" /\ job = "write" => CheckLayout(dst)
=============================================================================
