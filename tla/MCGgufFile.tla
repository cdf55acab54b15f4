------------------------------ MODULE MCGgufFile ------------------------------
(* Files of up to three tensors: one whose payload fills its 32 bytes and two *)
(* whose do not, one under the legacy ternary id, two that are renamed; and   *)
(* metadata of three kinds, with a one-byte value before the file type, the   *)
(* file type in two widths, a key that is dropped and an array of strings.    *)
EXTENDS GgufFile, TLC

Holding(name, dims, ty) == [name |-> name, dims |-> dims, ty |-> ty]
FileTensors ==
  {Holding(<<"dspark.", "fc.weight">>, <<2>>, 0), Holding(<<"", "embd">>, <<128, 2>>, 42),
   Holding(<<"dspark.log_snr_", "fc1">>, <<16>>, 1)}

Meta(k, v) == [key |-> k, value |-> v]
ArchMeta(a) == Meta(<<"general.", "architecture">>, [t |-> 8, len |-> 6, name |-> a])
FileTypeMeta(t) == Meta(<<"general.", "file_type">>, [t |-> t, x |-> 28])
FileMetas ==
  {<<ArchMeta("dspark"), Meta(<<"dspark.dspark.", "markov_rank">>, [t |-> 4, x |-> 1]),
     FileTypeMeta(4)>>,
   <<ArchMeta("another"), Meta(<<"general.", "flag">>, [t |-> 7, x |-> 1]), FileTypeMeta(10)>>,
   <<ArchMeta("dspark"),
     Meta(<<"tokenizer.ggml.", "scores">>, [t |-> 9, e |-> 8, n |-> 2, len |-> 3])>>}

FileStrLen ==
  [s \in {""} |-> 0]
  @@ [s \in {"fc1"} |-> 3] @@ [s \in {"embd", "flag"} |-> 4] @@ [s \in {"scores"} |-> 6]
  @@ [s \in {"dspark.", "dflash."} |-> 7] @@ [s \in {"log_snr_", "general."} |-> 8]
  @@ [s \in {"fc.weight", "file_type"} |-> 9] @@ [s \in {"markov_rank"} |-> 11]
  @@ [s \in {"architecture"} |-> 12] @@ [s \in {"dspark.dspark."} |-> 14]
  @@ [s \in {"dspark.log_snr_", "tokenizer.ggml."} |-> 15]
=============================================================================
