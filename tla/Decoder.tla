------------------------------- MODULE Decoder -------------------------------
(***************************************************************************)
(* The target model: Decoder of src/forward.rs, one forward after another, *)
(* layer by layer, with the K/V caches of the full-attention layers        *)
(* (AttnCache), the conv and delta-net state of the recurrent ones         *)
(* (SsmCache, src/gdn.rs), an error at every "?", and reset.               *)
(*                                                                         *)
(* Vectors are abstracted to what they were computed from (ModelShape).     *)
(***************************************************************************)
EXTENDS ModelShape

CONSTANTS
  Wanted,     \* the layers whose input the draft model taps
  MaxSeq      \* bound: tokens of one sequence

ASSUME DecoderAssumption ==
  /\ Wanted \subseteq 0..(NLayers - 1)
  /\ MaxSeq \in Nat \ {0}

VARIABLES
  mode,     \* BONSAI_KV
  fed,      \* history: tokens forwarded since the last reset
  failed,   \* a forward failed and nothing was reset since
  pc,       \* "idle", or the next step of the forward
  tok,      \* the token of this forward
  il,       \* the layer
  cur,      \* residual stream
  taps,     \* inputs of the wanted layers
  cache,    \* AttnCache: the rows of every store, per layer
  window,   \* conv window of the current token (conv_out)
  conv,     \* SsmCache.conv: the last NPrev inputs
  state,    \* SsmCache.state: the windows folded into it
  hidden    \* what the last forward that succeeded returned

input == <<mode, fed, failed, tok>>
caches == <<cache, conv, state>>
vars == <<mode, fed, failed, pc, tok, il, cur, taps, cache, window, conv, state, hidden>>

\* The vectors of AttnCache and which of them a mode uses: quantized keys come
\* with norms, values may stay f32 beside them.
Stores == {"k", "v", "kq", "kn", "vq", "vn", "k16", "v16"}
Used ==
  CASE mode = "f32" -> {"k", "v"}
    [] mode = "f16" -> {"k16", "v16"}
    [] mode = "planark" -> {"kq", "kn", "v"}
    [] OTHER -> {"kq", "kn", "vq", "vn"}
Counted == CASE mode = "f32" -> "k" [] mode = "f16" -> "k16" [] OTHER -> "kn"

NPos(l) == Len(cache[l][Counted])
pos == Len(fed)

-----------------------------------------------------------------------------
\* full_attention_layer reads the first pos + 1 rows of every store in use.
Attended(l) ==
  LET n == pos + 1
      right(r) == /\ Len(r) >= n
                  /\ r[n].in = cur
                  /\ \A j \in 1..n : r[j].pos = j - 1
      k == cache[l][Counted]
  IN  IF /\ \A st \in Used : right(cache[l][st])
         /\ \A st \in Used : SubSeq(cache[l][st], 1, n) = SubSeq(k, 1, n)
      THEN Mix(l, [j \in 1..n |-> k[j].in]) ELSE <<Bad>>

\* The delta net of a layer.
Recurred(l) == Folded(l, state[l])

-----------------------------------------------------------------------------
EmptyKv == [st \in Stores |-> <<>>]

Init ==
  /\ mode \in KvModes
  /\ fed = <<>> /\ failed = FALSE
  /\ pc = "idle" /\ il = 0
  /\ tok \in Token
  /\ cur = <<>> /\ hidden = <<>> /\ window = <<>>
  /\ taps = [l \in Wanted |-> <<>>]
  /\ cache = [l \in AttnLayers |-> EmptyKv]
  /\ conv = [l \in SsmLayers |-> ZeroConv]
  /\ state = [l \in SsmLayers |-> <<>>]

\* Every caller counts the positions itself, from 0 after a reset, and gives the
\* sequence up when a forward fails.
MayForward == ~failed

Begin(t) ==
  /\ pc = "idle" /\ MayForward /\ Len(fed) < MaxSeq
  /\ tok' = t
  /\ cur' = <<t>> /\ il' = 0
  /\ pc' = "tap"
  /\ UNCHANGED <<mode, fed, failed, taps, window, caches, hidden>>

\* The loop over the layers; one layer too many is an index out of bounds.
LastLayer == il = NLayers - 1

\* A tap replaces what an earlier forward left in the buffer.
Tapped_NotCleared == [taps EXCEPT ![il] = @ \o cur]
Tapped == [taps EXCEPT ![il] = cur]

Tap ==
  /\ pc = "tap"
  /\ taps' = IF il \in Wanted THEN Tapped ELSE taps
  /\ pc' = IF IsFullAttention(il) THEN "append" ELSE "convolve"
  /\ UNCHANGED <<input, il, cur, window, caches, hidden>>

\* full_attention_layer: the projections may fail, the appends cannot.
AppendRow ==
  /\ pc = "append"
  /\ cache' = [cache EXCEPT ![il] = [st \in Stores |->
       IF st \in Used THEN Append(@[st], [in |-> cur, pos |-> pos]) ELSE @[st]]]
  /\ pc' = "attend"
  /\ UNCHANGED <<input, il, cur, taps, window, conv, state, hidden>>

Attend ==
  /\ pc = "attend"
  /\ cur' = Attended(il)
  /\ pc' = "ffn"
  /\ UNCHANGED <<input, il, taps, window, caches, hidden>>

\* recurrent_layer: the convolution reads the cached inputs, then drops the
\* oldest and keeps the current one.
Shifted == Append(Tail(conv[il]), cur)
Convolved_AfterShift == Append(Shifted, cur)
Convolved == Append(conv[il], cur)

Convolve ==
  /\ pc = "convolve"
  /\ window' = Convolved
  /\ conv' = [conv EXCEPT ![il] = Shifted]
  /\ pc' = "fold"
  /\ UNCHANGED <<input, il, cur, taps, cache, state, hidden>>

Fold ==
  /\ pc = "fold"
  /\ state' = [state EXCEPT ![il] = Append(@, window)]
  /\ pc' = "recur"
  /\ UNCHANGED <<input, il, cur, taps, cache, window, conv, hidden>>

Recur ==
  /\ pc = "recur"
  /\ cur' = Recurred(il)
  /\ pc' = "ffn"
  /\ UNCHANGED <<input, il, taps, window, caches, hidden>>

\* The feed-forward half keeps no state.
Ffn ==
  /\ pc = "ffn"
  /\ IF LastLayer THEN pc' = "norm" /\ UNCHANGED il
                  ELSE pc' = "tap" /\ il' = il + 1
  /\ UNCHANGED <<input, cur, taps, window, caches, hidden>>

Return ==
  /\ pc = "norm"
  /\ hidden' = cur
  /\ fed' = Append(fed, tok)
  /\ pc' = "idle"
  /\ UNCHANGED <<mode, failed, tok, il, cur, taps, window, caches>>

\* A tensor is missing, a shape is wrong or the GPU fails: what the layers below
\* have cached stays cached.
Fail ==
  /\ pc # "idle"
  /\ failed' = TRUE
  /\ pc' = "idle"
  /\ UNCHANGED <<mode, fed, tok, il, cur, taps, window, caches, hidden>>

Cleared_F32Only == {"k", "v", "kq", "kn", "vq", "vn"}
Cleared == Stores
ResetState == [l \in SsmLayers |-> <<>>]

Reset ==
  /\ pc = "idle"
  /\ cache' = [l \in AttnLayers |-> [st \in Stores |->
                  IF st \in Cleared THEN <<>> ELSE cache[l][st]]]
  /\ conv' = [l \in SsmLayers |-> ZeroConv]
  /\ state' = ResetState
  /\ fed' = <<>> /\ failed' = FALSE
  /\ UNCHANGED <<mode, pc, tok, il, cur, taps, window, hidden>>

Next ==
  \/ \E t \in Token : Begin(t)
  \/ Tap \/ AppendRow \/ Attend \/ Convolve \/ Fold \/ Recur \/ Ffn
  \/ Return \/ Fail \/ Reset

Spec == Init /\ [][Next]_vars
-----------------------------------------------------------------------------
Digests == Seq(Token \cup {Bad})
Rows == [in : Digests, pos : Nat]

\* Type invariant.
TypeOK ==
  /\ mode \in KvModes /\ failed \in BOOLEAN
  /\ fed \in Seq(Token) /\ tok \in Token
  /\ pc \in {"idle", "tap", "append", "attend", "convolve", "fold", "recur", "ffn", "norm"}
  /\ il \in Layers
  /\ cur \in Digests /\ hidden \in Digests
  /\ taps \in [Wanted -> Digests]
  /\ cache \in [AttnLayers -> [Stores -> Seq(Rows)]]
  /\ window \in Seq(Digests)
  /\ conv \in [SsmLayers -> [1..NPrev -> Digests]]
  /\ state \in [SsmLayers -> Seq(Seq(Digests))]

\* forward.rs:640, "Drop all cached state so the decoder can start a fresh
\* sequence": in every storage mode, what a forward returns is the model's answer
\* to the tokens since the last reset, each once and in order, whatever ran, or
\* failed halfway, on the same decoder before.
HiddenRight == pc = "idle" /\ ~failed /\ fed # <<>> => hidden = fed

\* forward.rs:676, "taps[i] receives layer want[i]'s input": after a forward the
\* taps are this token's, not an earlier one's, and those of its own layer.
TapsRight ==
  pc = "idle" /\ ~failed /\ fed # <<>> =>
    \A l \in Wanted : taps[l] = InputAt(l, fed, Len(fed))

\* Between two forwards all layers are at the same token: as many keys as values,
\* quantized or not, and as many windows as keys.
CachesInStep ==
  pc = "idle" /\ ~failed =>
    /\ \A l \in AttnLayers, st \in Stores :
         Len(cache[l][st]) = IF st \in Used THEN Len(fed) ELSE 0
    /\ \A l \in SsmLayers : Len(state[l]) = Len(fed)

\* The assertion of forward.rs:285, which a release build does not check: the
\* layer's cache ends at the token the query is from.
PositionAsserted == pc = "attend" => NPos(il) = pos + 1

\* A failed forward leaves the layers at most one token apart, whichever step
\* failed; nothing runs on them before a reset.
TornByOne ==
  /\ \A l \in AttnLayers, st \in Used : Len(cache[l][st]) - Len(fed) \in {0, 1}
  /\ \A l \in SsmLayers : Len(state[l]) - Len(fed) \in {0, 1}

\* The caches of all layers stay in step: equal between forwards, one token ahead
\* of the query's position within one, at most one apart where one failed.
CachesSound == TypeOK /\ CachesInStep /\ PositionAsserted /\ TornByOne
=============================================================================
