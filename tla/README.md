# A verification project for ternary-bonsai-inference

The repository is a pure-Rust inference engine for a 27B ternary language model
(Qwen3.5 hybrid: gated-delta-net layers and full-attention layers), with an
OpenAI-compatible HTTP server, speculative decoding with a draft model, a Vulkan
backend and conversion tools. This directory holds TLA+ modules that model its
control, TLC configurations that check them on small instances, and proofs that
the TLA+ proof system checks for every value of the constants.

## 1. The system

| component | code | state it keeps | operations |
| --- | --- | --- | --- |
| generation loop | `src/server.rs` `Engine::generate`, `src/spec.rs` | the request's counters (`n_past`, `n_out`), the pending token, the drafts of a round | prefill, plain step, speculative round (forward, draft, verify, emit) |
| target model | `src/forward.rs`, `src/gdn.rs`, `src/weights.rs` | one K/V cache per attention layer, conv and delta-net state per recurrent layer | forward one token, head logits, reset |
| draft model | `src/dspark.rs` | draft K/V rows by position, `filled`, tensor memo cache | inject, draft block, truncate, reset |
| reply stream | `src/server.rs` `run_completion`, `ThinkSplitter`, `ToolFilter` | UTF-8 remainder, think phase and held text, tool buffer and calls | one piece, flush, final frames |
| server | `src/server.rs` `serve`, `handle`, `run_completion` | one thread per connection, `Arc<Mutex<Engine>>` | accept, read, lock, answer, disconnect |
| CPU kernels | `src/kernels.rs`, `src/dspark.rs` `matvec_par` | rows of one output vector, scoped worker threads | split rows, run workers, join, pause for the bandwidth budget |
| prefill | `src/prefill.rs`, `src/gdev.rs` `run_batch_at`, `prefill_batch_windowed` | device caches, positions | token loop, batch, windows |
| device sequence | `src/gdev.rs` | K/V, conv and delta-net state in VRAM, recording session | forward token, reset, record |
| GPU runtime | `src/vk.rs`, `src/opencl.rs` | buffers, pipelines, staging, a command recording | upload, dispatch, begin/end recording, read back |
| KV quantization | `src/kvquant.rs` | packed planes | quantize, pack, unpack |
| model files | `src/gguf.rs` | mapped file, tensor table | open, slice, convert, retag |
| tokenizer | `src/tokenizer.rs` | vocabulary, merges | encode (BPE), decode |
| sampler | `src/sampler.rs` | RNG | top-k, top-p, min-p, draw |
| JSON | `src/json.rs` | - | parse, escape |
| command-line programs | `src/main.rs`, `src/bin/*.rs` | `bonsai-run`: positions and tokens of its one reply | one reply and exit; benches, converters |

Calls go downwards: a connection's thread parses a request, takes the engine's
mutex for the prompt, for the model id and then for the whole generation, and
passes `generate` a callback that turns token bytes into frames; `generate` runs
the decoder directly (plain path) or through `spec::round`, which also drives the
draft model; the decoder and the draft model split their matrix-vector products
over scoped threads, or hand them to the GPU.


### What is hard here

| behaviour | where it bites | what makes the component correct |
| --- | --- | --- |
| speculation must not change the text | `spec.rs:187`, `server.rs:344-392` | the reply is a prefix of the target's own continuation whatever is drafted; `n_past`, the caches and the pending token agree at every round |
| two caches advance at different times | `spec.rs:97-210`, `dspark.rs:609-960` | a draft block attends to features of this reply only, never to the noise of a rejected block or to rows of an earlier request |
| a forward fails half way | `forward.rs:703`, `server.rs:320` | nothing computed on torn caches is ever delivered; the next request starts clean |
| one decoder, four K/V storage modes, hand-written reset | `forward.rs:285-343, 640-662` | what a forward returns depends on the tokens since the last reset alone |
| tags and characters cut by token boundaries | `server.rs:115-180, 628-676, 794-860` | a streaming reader ends up with what a one-shot reader gets, promptly |
| one mutex taken three times per request, held while writing | `server.rs:760-990` | a client gets exactly one whole answer of its own; every path releases the mutex; health does not depend on it |
| rows split over threads through raw pointers | `kernels.rs:300-470` | every row once, in its place, no two workers on one place |
| one prompt, two orders of work | `gdev.rs:905-953, 1251-1429` | a batch, in windows of any width, leaves the caches as the token loop does |
| a recording of GPU commands that fails | `gdev.rs`, `vk.rs:2086-2364` | what reaches the device is one whole recording of the call under way; a failed call leaves nothing behind that a later one reads |
| stale entries of a merge queue | `tokenizer.rs:458-560` | an entry taken for fresh is still the pair it was queued for |
| special tokens cut out one after the other | `tokenizer.rs:384-453` | no text is lost or doubled, no special token is left in raw text |
| objects, fences and one staging buffer shared by all calls of `Gpu` | `vk.rs:640-720, 1203-1430, 1772-1880` | the device touches only what is alive and gets what this call put; what a call makes it frees |
| lanes that share an array between barriers | `src/shaders/*.comp` | no lane reads what another has already overwritten |
| bit packing and file offsets | `kvquant.rs:152-325`, `gguf.rs:284-400` | unpacking inverts packing on the host and in the shaders; a file that is accepted has every payload |
| two tables of tensor names and shapes | `weights.rs:160, 494`, `forward.rs` | what `verify` accepts is enough for every layer |
| tensors that two files share | `dspark.rs:404-455, 1024` | a repacked sidecar finds everything the original had |

`PROJECT.json` lists them under `hazards`, at their lines, with the properties
that would catch each. Three that no property covers are not listed there: the
name in an answer after a poisoned mutex (`server.rs:775`), the length of a pacing
sleep (`kernels.rs:49`), and the half pair of surrogates (`json.rs:143`, section 6).

## 2. Plan

Modules in the order of their importance. "done" means modelled, model-checked
and, where a proof is named, proved.

| order | module | abstract specification | theorems | state |
| --- | --- | --- | --- | --- |
| 1 | `Generate` | `GreedyDecode` | types, token identity, caches, round boundary, draft context, where a reply ends, step refinement | done |
| 2 | `ReplyStream` | the one-shot answer (`OneShot`) to the same bytes | the stream is the one-shot answer; what is held back is a tag; a reader that left stops it | done |
| 3 | `Server` | - | types, one generation, own answers, silence after a panic | done |
| 4 | `RowPartition` | - | types, rows in place, no alias, slices fit | done |
| 5 | `Decoder` | "the tokens since the last reset" | types, answers, taps, layers in step, position assertion, tearing | done |
| 6 | `DeviceSequence` (`gdev.rs`, and the recording of `vk.rs`), on `ModelShape`, which it shares with `Decoder` | what one token after the other leaves | types, what is submitted, caches after a call | done |
| 7 | `VulkanHost` (`vk.rs` apart from recordings), `Workgroup` (the reducing shaders) | what a call's own inputs give (`Want`) | what a workgroup writes covers its row; what the device touches is alive, long enough and freed in the end | done |
| 8 | `Tokenizer`, `BpeMerge` (`tokenizer.rs`) | the regular expression (`Match`); `BpeRule`: merge the leftmost pair of lowest rank until none is left | every cut is the expression's; the list is the word; an entry that passes the test is an adjacent pair; every merge is the best one; the tokens are the word's; each step is the rule's | done |
| 9 | `GgufFile` (`gguf.rs`) | a file's tensors by their names | what a program ends reads back; what is accepted is complete | done |
| 10 | `TensorLookup` (`weights.rs`, `dspark.rs`) | the rows of the file a name belongs to | a request is given its own rows; what `verify` accepts is enough, as far as the file goes; a draft finds what the original had | done |
| 11 | `KvPack` (`kvquant.rs`, shaders) | the indices that were stored | both readers get what was stored; a row keeps its bytes | done |
| 12 | `Sampler`, `Json` | the cuts as sets; the value a document was written from | the one drawn passes every cut (`Sampler`); none for `Json`, which is recursive | done |
| 13 | `Chat` (`main.rs`) | `GreedyDecode` | caches, step refinement | done |
| 14 | an abstract answer service | every client gets its own `GreedyDecode` reply or a prefix | `Server` implements it, step by step | later |

Left for later: module 14, the quantizer itself, and proofs of what section 5
lists as model-checked only.

Which module composes which: `Generate` abstracts the target's caches to one
sequence of entries; `Decoder` shows, layer by layer, that this is what they
are. `Server` abstracts a reply to whose tokens it was computed from; `Generate`
says what the pieces are, `ReplyStream` how they become frames. `Decoder` and
`DeviceSequence` are two programs for one model: both extend `ModelShape`, which
says what its layers compute, and are held to the same answers.

## 3. Modules and code

The map in `PROJECT.json` gives the lines behind every definition.

### GreedyDecode and Generate

`GreedyDecode` is the promise: tokens of the target's own continuation `plain`,
one at a time, none after a stop token and at most `max_tokens`. `Generate` is
the loop that keeps it.

| code | model |
| --- | --- |
| argmax of the logits after the caches' content | `Pick`: the next token of `plain` when the caches hold exactly the prompt and the reply so far, each token at its position and of this request, `Garbage` otherwise |
| the target's caches | `tgt`, a sequence of (token, position, request); `torn` after a forward that failed |
| `DraftCache` | `rows` by position (`None`, `Noise` of a draft block, or a target row), `filled` |
| `Engine::generate`, prefill | `Start`, `Refuse`, `Prefill` |
| its loop head (stop test, callback, budget), plain and speculative | `TopStop`, `TopRefused`, `TopDeliver`, `PlainForward` |
| `spec::round` | `RoundForward`, `ProposeFails`, `DrafterBreaks`, `Propose`, `ObservePending`, `Accept`, `RoundDone` |
| accepted drafts offered to the callback | `EmitStop`, `EmitRefused`, `EmitDeliver`, `EmitDone` |
| `?` on a forward, on the drafter | `ForwardFails`; `DraftError` in each step that meets the end of the draft context, in `ProposeFails` and in `DrafterBreaks`: a tensor or row the drafter asks for is not there, with the rows of the layers before it written |
| `BONSAI_DSPARK_OLD_BLOCK_ORDER`, `_ANCHOR_NPAST`, `_ANCHORLESS`, `_N`; whether the sidecar lacks anything | `mode` |

The draft model's answers are any tokens at all, cut anywhere (`Proposals`):
nothing the properties say depends on its quality.

### ModelShape and Decoder

`ModelShape` says which layers are of which kind and what each computes: a
vector is the sequence of tokens it is the right function of, and becomes
`<<Bad>>` as soon as a layer is given anything else. `Decoder` is one forward of the target on the CPU, layer by layer: `Begin`, `Tap`, then `AppendRow` and
`Attend` (full attention) or `Convolve`, `Fold` and `Recur` (delta net), `Ffn`,
`Return`; `Fail` at any step; `Reset`. A layer goes wrong when it finds a row of
another length, order or position, a store that disagrees with its siblings, or
a convolution window out of step. The four storage modes of `BONSAI_KV` and the
eight vectors of `AttnCache` are kept, since `reset` clears them one by one.

### DeviceSequence

| code | model |
| --- | --- |
| `forward_token`, `prefill_batch`, `prefill_batch_windowed` | `ForwardToken`, `Prefill`; a refused call changes nothing and is no step |
| zeroing a new sequence, buffer by buffer | `ZeroLayer` |
| `upload` of the embeddings | `Upload`: columns behind the window keep what an earlier one left |
| `rec_begin`, `rec_attn_layer` and its relatives, `rec_end_submit` | `RecBegin`, `Record`, `Submit`, `Fence`; one recording for a token (`WholeToken`: each command is the `Follower` of the one before), one for every layer of a batch |
| the device, in the order of the commands | `Execute`: `Store`, `Attend`, `Recur`, `Norm` |
| the descriptor pool, 8192 sets | `MaxSets`, `Room` |
| `read_dev`, the next window or the end | `Read` |
| `?` anywhere | `Fail`: the recording stays open with what it holds, the caches with what was executed |

A command stands for the dispatches up to the change of a cache or of the
column: the barrier behind every dispatch makes their order that of the
recording. The caller is one that appends at the end or begins again at 0; the
programs in `src/bin` end after an error, another caller may begin again, and
that is where what a failed call left could be seen.

### Chat

`bonsai-run` for one prompt: `NoPrompt`, `BeginPrefill`, `PrefillNext`,
`FirstChoice`; the head both loops share (`TopStops`, `TopWrites`), then
`PlainNext` or a round of `dspark_loop` (`RoundForward`, `RoundAccept`,
`RoundDone`) and the accepted drafts (`EmitStops`, `EmitWrites`, `EmitDone`); `ChError` is each `exit(1)` behind the prefill's beginning. It
counts by itself (`nPast`, and the number of tokens printed) where `Generate`
has one counter, draws at random in the plain loop and never in a round, and is
held to `GreedyDecode` as well (`ChatKeepsPromise`). What the drafter
keeps during a round is in `Generate`, not here.

### ReplyStream

`Callback` is the callback of `run_completion` on one piece: UTF-8 remainder,
`ThinkSplitter` (`ThinkFeed`), `ToolFilter` (`ToolFeed`: `TakeBlocks`, the rounds of its
loop, then `HoldBack`), the frames. `ToolParse` is `parse_tool_calls`. `Finish` flushes what the filters hold. `OneShot` is
the non-streaming branch on the whole text. Text is a sequence of bytes over a
small alphabet, the four tags are short stand-ins with the same shape (each
shares its first byte with the others), and a two-byte character can be cut.
The reader may hang up at any time (`ReaderLeaves`); what a write then does is
`Sends`: it fails, or the system takes it. A callback writes up to two frames
(`Written`), each behind what the last one met, and returns what the last one
said. `WritesRecover` tells whether a write can get through behind one that failed.

### Server

A thread per connection (`pc`), the mutex (`owner`, `poisoned`), whose tokens the
engine's caches hold (`context`), what each client was sent. `Accept`, `Read`,
`ReadFails`, `Plain`, `Models`, `BuildPrompt`, `Name`, `Enter`, `Reset`,
`Prefill`, `Piece`, `Stop`, `Fail`, `Answer` (with the frames of what was held
back, `Tails`), the panics of the JSON parser in a debug build (`ParsePanics`, and
`PromptPanics` with the mutex held) and of a generation (`Panic`), and the client's
`Stall`, `Resume`, `HangUp`.

### RowPartition

One product: the checks and the single-threaded case (`Call`), handing out and
spawning (`Spawn`), the next column of a worker's next row (`Work`), the end of the
scope (`Join`, `Return`). A product of one column cuts slices, in three functions;
the batched one shares a pointer, and its columns lie one behind the other in `y`
(`Place`). A `y` that is too short is refused, or sliced in vain by the third
function (`dspark.rs:347`), which panics.

### VulkanHost and Workgroup

`VulkanHost` has a call of `Gpu` as the sequence of driver calls the function
makes (`Program`), and one action for each kind of them.

| code | model |
| --- | --- |
| a function of `Gpu` begins | `Call`: `todo` is its driver calls, in their order |
| `vkCreate*`, `vkAllocate*`, a map entry that is filled once | `MakeObject`, `EnsureObject`; `EnsureStaging` with its growth |
| mapping and copying, `vkMapMemory` to read | `PutFloats`, `ReadFloats` |
| `begin_cmd`, a dispatch, a copy or a barrier, submit | `BeginCommands`, `RecordCommand`, `SubmitCommands` |
| fences | `WaitForFence`, `ResetFence` |
| the device | `DeviceRuns`: any command with no barrier before it |
| `?` on a driver call, a lost device | `Fails`, `DeviceLost` |
| destroying, `Drop` | `FreeObjects`, `Finish`, `Abandon` |

`HostCalls` says which calls are made, with which sizes; `CallsFit` is what their
callers owe them. Two kernels have no guard on their lanes (section 6), so a product's
rows fill its workgroups, or are no more than those of the cache that `enable_gpu`
makes for the longest tensor.

`Workgroup` has the lanes of one workgroup of a reducing shader, each with its own
registers (`ip`, `stride`, `column`) and at its own instruction (`StorePartial`,
`FoldLevel`, `ReadTotal`, `ScaleTotal`, `EmitTotal`, which goes round again for
the next column, `WriteRow`). `Meet` is a barrier, `NextLevel` the one at the end
of a level of the tree; `met` counts a lane's barriers, and a lane passes when
every other has come to as many. A value is what it was computed from.

### Tokenizer, BpeRule and BpeMerge

`Tokenizer` is `encode` as far as words: the partition at special tokens
(`SkipSpecial`, `KeepFragment`, `CutToken`, `KeepRest`, `NextSpecial`,
`Partitioned`; `nextFrags` is the list `next` that each special token builds from
the one before), the scanner (`ScanWord`), the fragments in turn (`EmitSpecial`,
`NextFrag`, `EndEncode`). Its reference is the regular expression that the scanner
replaces, as the comments quote it, alternative by alternative (`Alternatives` with
the class `Symbols`). The scanner is not quite that:
it asks a symbol for a flag, and `ScansAsTheRegex` says what that makes of a word
where one has none. `BpeMerge` is `encode_word`: `Skip` an entry
that is outdated, `Merge`, `Emit`. It implements `BpeRule` (`FollowsTheRule`).

### Sampler and Json

`Sampler` is one choice: `Greedy`, or `Select`, `MinP`, `TopP`, `DrawOne`, with
whole weights in place of exponentials, so that ties and exact borders occur, and
`sort_by` is what it promises, any falling and stable order.
`Json` is the parser and the writer over documents as sequences of characters;
`ParseIt` and `WriteIt` are a document's way through both. A number is read as
`parse::<f64>` reads it (`Parsed`: also `01`, `+1`, `.5`, `1.`, and infinity where
it is too large), and written as `to_json` does (`Printed`, and `null` for infinity).
So the parser takes more than RFC 8259 does, numbers like these and control
characters as they are in a string; `AcceptsOnlyDocuments` says that it takes no more
than that (`Canon`).

### GgufFile, TensorLookup and KvPack

| code | model |
| --- | --- |
| `write_gguf`, `convert_dspark_sidecar` | `StartWrite`, `StartConvert`, `WriteNext` per payload, `Finish` |
| `retag_legacy_ternary` | `StartRetag`, `CopyChunk`, `CopyEnds` |
| an error between two writes | `IoError` |
| `GGUF::open`, `check_layout`, `payload_slice` | `Opened`, `CheckLayout`, `Payload` |
| `Weights::open`, `enable_gpu` | `OpenModel`, `EnableGpu`, `UploadNext`, `UploadDone`, `UploadFails` |
| `repack_ternary`, `Dspark::open_with_target` | `OpenSidecar` |
| what a forward, or a draft, asks of a file | `BeginForward`, `BeginDraft`, `Answer`, `DeviceFails` |
| `pack_idx` | `PackOne`, `PackGroup`, `PackPlane`, `Stored` |
| `kv_store_q.comp` behind its quantizer | `StoreLane`, in any order; `StoreStream`; `StoreRow` |
| `unpack_idx`, `attn_scores_q.comp`, `attn_out_q.comp` | `Unpacked`, `Device` |

A file of `GgufFile` is the list of writes made to it, so that what lies at a
place is the last write there, a hole, or a mixture. A metadata value is its type
and, for a string, a name with a length; what the programs tell apart are the two
architectures they write and any other. In `TensorLookup` a row of a tensor is one
cell that bears its tensor's name, and the target's file may have lost rows at its
end (`CutShort`), as a download that was broken off has. A byte of `KvPack` is the set of its bits that
are one, so that or-ing into a byte is a union. `Pieces` has the sums, products and
concatenations that the loops over a file's tensors build, as recursive functions.

## 4. Runs

| run | question | answer |
| --- | --- | --- |
| `generate_replies` | does any block convention, a draft context that overruns, a bad `n_draft` or a sidecar that lacks a tensor change the text or the drafter's context? does a speculative reply end where a plain one does, and implement `GreedyDecode` with its fairness? does a request see anything of the one before, ended by whatever? does each end? | no; yes, where the draft context is long enough and the sidecar whole; no; yes |
| `generate_context` | and when the draft context is not long enough? | the reply ends with an error (`dspark.rs:721`) |
| `generate_budget` | is a reply cut by `max_tokens` reported as `length`? | not when the limit falls among accepted drafts (`server.rs:373`) |
| `token_path` | is a prompt cut into the words the regular expression gives, but for symbols without a flag, with nothing lost? is a decoder that was reset as good as a new one, after any failure? does the sampler draw only what its cuts allow? do streaming and one-shot answers agree? does a reader that left end the generation? | yes; yes; yes; yes, for valid text whose blocks close; yes, at the first frame that fails, where a broken connection stays broken |
| `stream_character` | does the splitter survive multi-byte characters? | no: it slices inside one (`server.rs:151`) |
| `stream_unterminated` | is an unterminated reasoning block kept whole? | not its last bytes (`server.rs:842`) |
| `stream_disconnect` | and where a later write may get through? | not if it is the second frame of the same callback (`server.rs:840`) |
| `server_requests` | does each client get exactly one answer of its own, does every request end, is health independent of the engine? does the merge queue follow the rule? is JSON read as it was written, and nothing else? does `bonsai-run` print a greedy reply? | yes, but after a panic with the mutex held completions get nothing; yes; yes; yes |
| `stored_bytes` | is every row computed once, into its place, by workers that never meet? do files read back, and is no half-written one accepted? does a name lead to its own rows? does a packed row unpack? | yes to all |
| `gguf_padding` | is every file that `write_gguf` ended accepted? | no: the last payload's padding is not written (`gguf.rs:425`) |
| `device_calls` | does a sequence on the GPU, by token or by batch and window, leave and return what one token after the other would, whatever failed before? do the calls of `Gpu` touch what is alive, give this call's answer and free what they made? do the reductions cover the row? does every call return? | yes to all |
| `workgroup_softmax` | does the softmax of a row use the row's maximum? | not always: nothing separates its reading from the next writing (`softmax_row.comp:32`) |

An invariant or property of several parts is one definition that names them, and what its
run checks:

| invariant | parts |
| --- | --- |
| `LoopInvariant` (`Generate`) | types; `RoundBoundary` |
| `CachesSound` (`Decoder`) | types; `CachesInStep`, `PositionAsserted`, `TornByOne` |
| `StreamFaithful` (`ReplyStream`) | types; `StreamMatchesOneShot`, `HeldIsATag` |
| `CutsAsTheRegex` (`Tokenizer`) | `PiecesAreTheText`, `NoSpecialIsLeft`, `ScansAsTheRegex` |
| `DrawIsAllowed` (`Sampler`) | `PicksWhatIsAllowed`, `BestStaysACandidate` |
| `Isolated` (`Server`) | types; `OwnAnswer`, `OneGeneration` |
| `EveryoneServed` (`Server`) | `RequestsEnd`, `HealthAnswered` (liveness) |
| `QueueSound` (`BpeMerge`) | `ListIsTheWord`, `FreshIsItsPair`, `HeapComplete` |
| `JsonFaithful` (`Json`) | `ReadsWhatItWrote`, `AcceptsOnlyDocuments`, `FramesStayWhole` |
| `SlicesDisjoint` (`RowPartition`) | types; `NoAlias`, `SplitsFit` |
| `StoresTheRow` (`KvPack`) | `UnpacksAsPacked`, `DeviceReadsTheRow`, `RowKeepsItsBytes` |
| `CopiesTheTensors` (`GgufFile`) | `ReadsBack`, `InDataOrder`, `RetagComplete` |
| `VerifiedServes` (`TensorLookup`) | `OwnersRows`, `VerifiedIsEnough` |
| `EqualsTokenLoop`, `RecordsWhole` (`DeviceSequence`) | `CachesAsTokenLoop`, `HiddenRight`; types, `SubmittedWhole` |
| `BuffersSound` (`VulkanHost`) | `TouchesLive`, `WritesInBounds`, `LeavesNothingBehind` |

Four runs hold several modules each (`MCTokenPath`, `MCRequests`, `MCFiles`,
`MCDevice`). The parts of such a run share no state: a behaviour begins in one
of them (`part`) and the others stay idle, so that the run is the sum of its
parts and no claim about their interaction is made. `Ended` lets a part that has
a last state stay in it; every other state without a successor is reported as a
deadlock.

### Bounds

Every bound is a constant of its module, set in the `.cfg`.

- `Generate`: one ordinary token and one stop token make a draft right or wrong
  at every position. `BlockSize` 2 has rounds that accept none, one or both
  drafts. `NCtx` is 6 in `generate_replies`, where short prompts with their
  reply and block fit, longer ones pass the draft context in the middle of a
  reply and the longest (7) by themselves. Every mode makes one request with a prompt
  of up to 2 and up to 3 tokens; the default ones, and those with a sidecar that
  breaks, also one with a prompt of 5 or 7, and a second one (`Asked`
  in `MCGenerate`). A sidecar that breaks (`whole` false) comes with both block orders
  and may do so at any call of the drafter. Two requests (`MaxRequests`) are enough for one to follow another,
  since nothing but the caches outlives a request. A counter in no cfg is
  unbounded: `n_past` is bounded by the budget.
- `ReplyStream`: `MaxReply` 5 holds an opening tag, a body, a closing tag cut in
  two, and text behind it; the token that ends the reasoning carries so much of it that
  its callback writes both frames. Replies of 3 tokens reach the loss at the end.
- `Server`: two connections, `MaxPieces` 2. A third connection adds no new order
  of two critical sections; the theorems hold for any set of connections.
- `RowPartition`: up to 7 rows and 2 columns on up to 5 cores; 5 rows on 4 cores and 7 on 5
  are the first with a range that begins behind the last row.
- `Decoder`: four layers, two of each kind in turn, `NPrev` 2 and sequences of 4
  tokens, so that an input leaves the convolution window; layers 0, 1 and 3
  tapped, one of them not after its like.
- `DeviceSequence`: three layers, one of full attention between two recurrent
  ones, caches of 3 rows, `NPrev` 2, so that a window ends inside the
  convolution's reach; widths 0 (clamped to 1), 2 (a second, shorter window) and 3
  (one window, or clamped to a shorter prompt). `MaxSets` 5 holds a token's
  recording and two columns of attention, not three. `NCtx` 4 was run as well
  (1.5 million states, without `Fail` in `rec_begin`) and is too slow to repeat.
- `VulkanHost`: up to four calls, the first of which opens the device. Two weight
  tensors of different shapes, so that the cache is made for the wider and used
  for the other; vectors that fill their workgroup of 2 lanes and vectors that
  do not. A failure is possible at every driver call. What a call that fails had made
  is freed by nobody; it leaves the model's heap (`Abandon`), so `BuffersSound`
  says nothing of what many failures add up to.
- `Workgroup`: 4 lanes for 256: a tree of two levels, rows from shorter than the
  workgroup to one and a half times as long.
- `Tokenizer`: every text of up to 3 characters of twelve sorts, of 4 characters
  of seven kinds (a letter, a quote, a mark, a blank, a newline, a full stop, a
  digit: each alternative of the regular expression is at most that long before
  it repeats), and of up to 5 with two vocabularies of special tokens that begin
  or end inside each other. `BpeMerge`: words of up to 5 characters, tables of up
  to 3 merges in every order, a doubled entry among them.
- `Sampler`: up to 4 tokens with three scores, cuts that keep one, some and all.
- `Json`: values up to three deep, string literals of up to four pieces, numbers in
  nine other forms, control characters as they are, and every document, but for the
  string literals, damaged at every place. A high surrogate before an escape that
  is no low one is left out: what it does depends on the build (section 6).
- `Chat`: one ordinary and one stop token, prompts of up to 2 tokens, up to 3
  tokens asked for (`MaxPredict`), proposals of up to 2: a limit or a stop token falls on the
  pending token and on either accepted draft.
- `GgufFile`: up to three tensors, one of which fills its 32 bytes and two of
  which do not; three kinds of metadata; a source in any order, whole or cut
  short.
- `TensorLookup`: one layer of each kind with widths that all differ; the sound
  file, and files that lack any one tensor or have one of another type or shape;
  each of them whole, without its last 23 rows and with its index alone (`Losses`).
- `KvPack`: lengths 1 to 32 that end inside a byte, at a byte and at a word, all
  eight widths; on the device one row of each width, of 4 to 28 bytes, its lanes
  in every order.

### Fairness

`Generate`: weak fairness of the thread's next step; each is a finite
computation. Nothing is assumed of the reader. `Server`: weak fairness of what a
thread does when it can go on, without regard to panics (a panic is never owed);
strong fairness of `Answer`, because the write goes through when a client that
stalls reads again and again. Nothing is assumed of clients, except in
`RequestsEnd`, whose hypothesis says that no client stalls for ever: the code has
no write timeout. `Models`, `BuildPrompt`, `Name` and `Enter` wait for the mutex
under weak fairness only: a connection takes it three times at most, so no
fairness of the mutex itself is needed. `RowPartition`: the scheduler runs the
caller and some worker that has work. `DeviceSequence`: the host
thread goes on, or fails, and the device executes what was submitted; a driver
that hangs is left out, as the code waits for its fences without a limit
(`vk.rs:2359`). `VulkanHost` (`VkFair`): the host goes on and the device runs what
was submitted, unless it is lost, when a wait returns an error. `Workgroup`
(`WgFair`): every lane that can go on does; a device schedules all lanes of a
workgroup. `BpeMerge` (`BpeFair`) and `Chat` (`ChFair`): the one thread goes on. The other modules state
no fairness and no liveness.

## 5. Theorems

| module | what | argument |
| --- | --- | --- |
| `Generate_proof` | `TypeCorrect`, `SpeculationKeepsTokens`, `NoRollbackNeeded`, `BoundariesAgree`, `LoopIsSound` | one inductive invariant: it adds to the properties what holds in the middle of a round - where the caches stand against `n_past`, that accepted drafts are the target's own next tokens, how many of them were offered |
| | `DraftSeesReplyOnly`, `EndsAsPlainDoes` | on top of it, an invariant on `rows`: below `filled` every row is the reply's own, and at each phase `filled` is where the next block or row begins; its distance from the context's end is what a block still finds room in |
| | `GenerateImplementsGreedy` | each action maps to a step of `GreedyDecode` or a stutter under the refinement mapping `Generate!Greedy` |
| `Model_proof` | `TypeCorrect`, `AnswersTheSequence`, `TapsAreTheTokens`, `LayersInStep`, `AssertionHolds`, `TearsByOne`, and `CachesStaySound` of them (`Decoder`) | per layer: the rows, windows and folded states hold the inputs of the tokens so far, one more below and at the current layer; lengths alone after a failure |
| | `DrawsWhatIsAllowed` (`Sampler`) | behind top-k the candidates hold all that are larger than one of them; behind min-p all of these that are heavy enough; in falling order they come before it, so that when it is kept their running sum, which is the weight of a set and not of its order, had not reached top-p. A largest token passes each cut |
| `Requests_proof` | `TypeCorrect`, `Serialized`, `AnswersAreOwn`, `RequestsAreIsolated`, `PoisonedIsSilent`, `EachIsAnswered` (`Server`) | the mutex belongs to the one thread between `Enter` and its answer; what that thread has made comes from a context cleared by its own reset; how much of an answer was sent is a function of where its thread stands |
| | `ChatCachesHoldTheReply`, `ChatImplementsGreedy` (`Chat`) | the caches hold the prompt and the reply, ahead of it by the accepted drafts that are not printed yet; under the mapping to `GreedyDecode` each step is one of its steps or a stutter |
| | `StreamsFaithfully`, `GoneReadersStop` (`ReplyStream`) | `ReplyInv`: of the bytes a prefix of complete characters was taken; the think splitter has split it into the reasoning and the content let out so far and the rest it holds (`Split`, one case per phase and setup); what the tool filter let through, kept and holds answers that content *whatever follows* (`Answers`), because a complete block stays one when more text comes and an opening tag cannot be hidden in less than itself; the reader has seen both. At the end the one-shot split and the streamed one differ in blanks beside the tags at most, which trimming removes, and the rounds of the filter are those of `parse_tool_calls` |
| `Device_proof` | `TypeCorrect`, `WholeRecordings`, `DeviceEqualsTokenLoop` (`DeviceSequence`) | where the device stands between two commands: the layers below the current one have seen the whole window, the current one its first columns, those above none; each command is the follower of the one before, so that the next is the one that belongs there |
| | `ReducesWholeRow` (`Workgroup`) | a lane's place of the shared array is a function of the lane's own position: behind the fold with stride s it covers the elements i with i % s = lane; lanes are at most one barrier apart, and a lane that folds waits at none, so nobody is ahead of it and who is behind has folded with twice the stride. Its hypothesis leaves out the two softmaxes, which are wrong (`workgroup_softmax`) |
| `VulkanHost_proof` | `BuffersAreSound` | an abstract state of lengths, ownership, recorded commands and the fence waited for mirrors the driver's (`Mirrors`), and `Does` says which driver call may be made in it and what it leaves. The rest of a running call is in a set of pairs (state, rest of the program) that is closed under the next call and ends where nothing but what `Gpu` owns is alive: one lemma per kind of driver call, whether it succeeds or fails, and one per function of `Gpu`, that its program leads from any such state back to one. The cache's vectors are long enough because its rows fill their workgroups |
| `Files_proof` | `TypeCorrect`, `ResultsInPlace`, `SlicesFit`, `WorkersNeverAlias`, `SlicesAreDisjoint` (`RowPartition`) | the part handed out so far begins where the next range does, or everything is handed out; the results a worker has written are in their places, and no two rows and columns have one place |
| | `LookupInvariant`, `VerifiedModelServes`, `DraftFindsItsTensors` (`TensorLookup`) | every cell of the draft's memo, of the device and of an answer bears the name it was asked by, or the name its file is known to hold it by; each request of a layer is for a tensor, type and shape in the list that `verify` walks, function by function and for every shape of a model; a file that was cut short holds the rows of a tensor as far as it goes, and a slice beyond its end is refused; a repacked sidecar has a name, or is the one its target lends it to |
| | `FileInvariant`, `FilesAreCopied`, `AcceptedFilesAreComplete` (`GgufFile`) | the header stands for the source's tensors in their order; the payloads already copied and those still planned lie one behind the other where the header says, none before the data begins, so that a later write never covers an earlier one; the place of the last write bounds the file's length, and a file that is long enough for its last tensor is long enough for all |
| | `RowIsStored` (`KvPack`) | a byte of a row has exactly the bits that the indices stored so far put there, whatever the order of the device's lanes; a bit of the row belongs to one index and one bit of it |
| `Tokenizer_proof` | `CutsEveryText` | a raw fragment holds no token that was looked for in it, and a piece of it none either; left of a cut there is no earlier occurrence because the first is cut; the words tile the text as far as it was scanned; the scanner's six tests, taken in order, give the end of the longest match of the first of the eight alternatives (`WordEndIs`, alternative by alternative) when the class of symbols is that of the flag, and this is the match with the quoted class up to its first symbol without a flag (`SymbolsWithFlags`); no two bytes have the same character |
| | `QueueMatchesList`, `MergesTheBest` | an entry remembers the text of its pair; since it was queued its left symbol was consumed, or has grown, or is as it was while the right one may have grown, so that equal text means the same pair; every two neighbours with a merge are in the heap, and the best of them is its head |
| | `WordsAreEncoded` | no live symbol lies inside the text of another, so that the texts of the live symbols, in their order, are the word, and the tokens already pushed spell those of the symbols before the next one |
| | `EncodeFollowsTheRule` | the place of a live symbol among the rule's pieces is the number of live symbols before it; a merge fuses two neighbouring places and leaves the others as they were, moved down by one |

`Pieces_proof` has the lemmas that several of them share: sums, products and
concatenations built by recursive functions over an interval, and the places of the
members of a set of numbers.

The assumptions are the named ones of each module (`GenerateAssumption`,
`ServerAssumption`, `RowPartitionAssumption`, `ShapeAssumption`, `DecoderAssumption`,
`DeviceAssumption`, `ChatAssumption`, `TokenizerAssumption`, `BpeAssumption`,
`WorkgroupAssumption`, `VulkanHostAssumption`, `TensorsAreNamedApart`, `CallsFit`,
`TensorLookupAssumption`, `VectorsFit`, `OriginalsComplete`,
`ReplyStreamAssumption`, `TextsAreBytes`, `TagsAreApart`,
`SamplerAssumption`, `KvPackAssumption`, `GgufAssumption`, `StringsHaveLengths`) and nothing else: sizes are positive, marks such as `Bad` or
`Garbage` are not tokens, only an apostrophe has the apostrophe as its lower case,
a larger logit has a larger weight and a row of logits has at least one,
pieces and tags are sequences of bytes, no tag is empty or holds a blank, `<think`
holds no `<tool_call>`, a `</tool_call>` never starts inside a `<tool_call>` (so that the two
parsers, which look for it from the start and from the end of the opening tag, agree),
a workgroup of a reducing shader has a power of two of lanes (the shaders have 128 or 256),
the calls of `Gpu` have arguments of their types, rows that are not empty and, for the
two kernels without a guard, as many rows as fill their workgroups. In
particular the theorems hold for every model shape, block size, draft context,
number of rows, cores, connections, requests, texts, vocabularies, words,
tables of merges, pieces of a reply, logits and settings of the sampler, weight tensors and calls of the device.

Model-checked only:

- liveness (`RepliesEnd`, `EveryoneServed`, `Returns`, `CallsReturn`,
  `VkCallsReturn`, `WorkgroupEnds`, and the fairness in `GreedySpec`,
  `ChatKeepsPromise` and `FollowsTheRule`), which is out of the prover's reach;
- `JsonFaithful`: the parser and the writer are RECURSIVE operators over text, and
  the module that declares them cannot be proved about. What
  recursive *functions* compute is proved elsewhere (`Pieces_proof`) from the least
  argument at which a statement would fail, without an induction theorem;
- `AnswersThisCall`: it compares what the device computed, a term built up through
  every command of a program, with what the call asked for. `BuffersAreSound` proves
  what does not need the terms: that each buffer is there and as long as it must be.

## 6. Disagreements met while modelling

Seven have a run and an entry under `findings`: the two of `Generate`, the three of
`ReplyStream`, the padding of a written file and the missing barrier in the softmax.
The others, read in the code and without a run of their own:

- `tokenizer.rs:317`: the test of the scanner, and its loop (321), ask a symbol for a
  flag; the comment above (315) quotes `<space>?[^\s\p{L}\p{M}\p{N}]+[\r\n]*`, a class
  that holds a control character, which has none. `ScansAsTheRegex` says what the
  scanner makes of a word for every text, and `FlaglessDiverges` (an assumption that
  `token_path` evaluates) that a full stop before a control character shows it.

- `server.rs:131`: the splitter waits for `<think` (6 bytes) and slices 7; a text
  that ends there for now, or goes on with a multi-byte character, panics like
  `server.rs:151`. The vocabulary has the tag as one token, and so has the run.
- `server.rs:843`: an open tool block at the end of a reply is written as content
  when streaming, and dropped when not; the comment at 623 speaks of one behaviour.
- `server.rs:800`: the comment at 797 speaks of an incomplete tail; an *invalid*
  byte withholds everything behind it for the rest of the reply.
- `server.rs:889`: a reply that fails after a complete tool call ends with
  `finish_reason` `tool_calls`.
- `server.rs:775`: after a poisoned mutex `/v1/models` lists a model without a name.
- `gdev.rs:68`: any integer from 2 on is accepted as the width of a window; a
  full-attention layer takes 15 descriptor sets for each column from a pool of
  8192 (`vk.rs:2092`), so a window of about 545 columns or more cannot be recorded.
  `device_calls` has such a window and shows that the failure is clean.
- `json.rs:143`: a high surrogate followed by an escape that is no low surrogate
  underflows: a panic in a debug build, another character in a release build.
- `vk.rs:743`: the comments call binding 3 always bound; the cached set and
  `pq2_matvec` never write it. `Drop` never destroys `kv_params`, and a `DevBuf`
  is never freed.
- `softmax_inplace.comp` (line 39) has the race of `softmax_row.comp`;
  `pq2_matvec` and `pq2_partial` have no guard for rows beyond the last, so a
  row count must fill its workgroups, and `attn_out.comp` needs a head of 256.
- `vk.rs`: every `?` behind the first object that a call makes leaks what it has
  made (`vk.rs:1388` with a descriptor pool, buffers and a command buffer, for
  one); `BuffersSound` holds of calls that succeed. `matvec_bench` and
  `matvec_bench_atom` panic on an `x` of another length behind the making of
  their buffers (`vk.rs:862`, `961`); no call of the model has one.
- `weights.rs:494`: `verify` looks at the tensors of layers, not at `token_embd`,
  `output_norm` and `output`, nor at `ssm_inner` against rank and state; and the
  program never calls it. Nor does it look whether the file is complete:
  `check_layout` is called for a sidecar only (`dspark.rs:409`), and a target whose
  end is missing is refused in the middle of a token (`gguf.rs:292`).
  `VerifiedIsEnough` says what `verify` is worth with that exception.
- `dspark.rs:404`: a sidecar opened with another target than it was repacked
  against is not noticed when names and shapes agree; `DraftFindsOriginal` is
  about the right one.
- `main.rs:324`: `--n-predict`, "max tokens to generate" (line 114), is looked at
  behind a token that was printed: 0 prints one. `ChatKeepsPromise` says so.
- `gguf.rs:652`: `convert_dspark_sidecar` ends without its padding, as
  `write_gguf` does.

## 7. Not modelled

Numbers (logits, rotations, the quantizer's codebook, sampling probabilities
beyond whole weights), timing (the bandwidth pacing of `kernels.rs:46-56`), text
of templates, the Unicode tables behind a codepoint's kind (a newline category
and other alphabetic characters without a kind of their own are left out), the
drivers behind `vk.rs` and `opencl.rs`, file and terminal I/O beyond what a file
ends up holding, and the programs under `src/src/bin` apart from what they share
with the modules above. `BpeMerge` keeps its queue as a set: two entries for the
same pair at the same place are one, the second of which would be outdated.
`LogSnr` without conditioning is in `TensorLookup` and not in its instance.
Every component
is listed in `PROJECT.json` with its status and the reason.
