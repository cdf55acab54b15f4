------------------------------ MODULE Generate ------------------------------
(***************************************************************************)
(* One generation of the server: Engine::generate (src/server.rs) with the *)
(* speculative round it calls (src/spec.rs), the target's caches           *)
(* (Decoder, src/forward.rs) and the draft model's K/V cache (DraftCache,  *)
(* src/dspark.rs).                                                         *)
(*                                                                         *)
(* The numbers are abstracted, the bookkeeping is not.  A cache entry is   *)
(* the token it was computed from, the position it was given and the       *)
(* request it belongs to.  The target's choice after a context is the next *)
(* token of "plain" when the caches hold exactly prompt \o plain[1..k] at  *)
(* positions 0, 1, ..., and Garbage otherwise: any forward of a rejected   *)
(* draft, at a wrong position or on caches of an earlier request, shows.   *)
(***************************************************************************)
EXTENDS Integers, Sequences

CONSTANTS
  Token,        \* the vocabulary
  Stop,         \* end-of-generation tokens
  Prompt,       \* stands for any token of a prompt
  Garbage,      \* the target's choice after a context that is not the reply's
  MaxPrompt,    \* longest prompt
  MaxTokens,    \* largest max_tokens
  BlockSize,    \* draft tokens of one block (sidecar metadata)
  NCtx,         \* positions of the draft cache
  MaxRequests,  \* bound: requests of one behaviour
  Modes         \* the switches a process may be started with

ASSUME GenerateAssumption ==
  /\ Stop \subseteq Token
  /\ Prompt \notin Token
  /\ Garbage \notin Token
  /\ Garbage # Prompt
  /\ MaxPrompt \in Nat \ {0}
  /\ MaxTokens \in Nat \ {0}
  /\ BlockSize \in Nat \ {0}
  /\ NCtx \in Nat \ {0}
  /\ MaxRequests \in Nat \ {0}
  \* drafter: a draft model is loaded;  ref: reference block order, i.e.
  \* BONSAI_DSPARK_OLD_BLOCK_ORDER is unset;  anchor: .._ANCHOR_NPAST is set;
  \* extra: .._ANCHORLESS adds a block slot;  nDraft: BONSAI_DSPARK_N
  \* whole: sidecar and target hold every tensor and row the drafter asks for
  /\ Modes \subseteq [drafter : BOOLEAN, ref : BOOLEAN, anchor : BOOLEAN,
                      extra : {0, 1}, nDraft : Nat, whole : BOOLEAN]

VARIABLES
  mode,     \* the process's switches
  req,      \* the request: prompt length, max_tokens, greedy, its number
  plain,    \* what the target picks, one after the other
  pc,       \* where generate stands
  tgt,      \* the target's caches: one entry per forwarded token
  torn,     \* a forward failed after some layers had appended
  rows,     \* draft K/V rows, by position
  filled,   \* DraftCache.filled
  npast,    \* n_past (the loop index pos during prefill)
  pending,  \* last token picked by the target, not yet forwarded
  drafts,   \* proposals of this round
  acc,      \* drafts accepted so far this round
  sent,     \* accepted drafts already offered to the reader
  out,      \* pieces the reader took (n_out is its length)
  finish,   \* what generate returns
  reason    \* history: why generate ended

reply == <<out, finish, reason>>
draftCache == <<rows, filled>>
round == <<pending, drafts, acc, sent>>
vars == <<mode, req, plain, pc, tgt, torn, rows, filled, npast, pending, drafts, acc, sent,
          out, finish, reason>>

AnyToken == Token \union {Prompt, Garbage}
Horizon == MaxTokens + BlockSize + 1
Positions == 0..(NCtx - 1)
Phases == {"idle", "prefill", "top", "forward", "plainForward", "propose", "observe",
           "verify", "emit"}

None == [src |-> "none"]
Noise == [src |-> "draft"]
Row(n, t) == [src |-> "target", req |-> n, tok |-> t]

\* Larger and smaller of two numbers (cache.filled.max, .min).
MaxOf(a, b) == IF a >= b THEN a ELSE b
MinOf(a, b) == IF a <= b THEN a ELSE b

\* The budget is spent by one more token.  (A mutant of a definition is named
\* after it and stands right before it.)
Spent_Early == Len(out) + 2 >= req.max
Spent == Len(out) + 1 >= req.max

\* End-of-generation test.
IsStop_Never(t) == FALSE
IsStop(t) == t \in Stop

Speculative == mode.drafter /\ req.greedy
Block == BlockSize + mode.extra
BlockStart == IF mode.ref THEN npast ELSE npast + 1

\* Token number i (from 0) of the sequence the reply is the tail of.
TokenAt(i) == IF i < req.prompt THEN Prompt ELSE plain[i - req.prompt + 1]

Entry(t, p) == [tok |-> t, pos |-> p, req |-> req.n]

\* A context is the reply's own sequence, each token at its position.
IsReply(ctx) == \A i \in 1..Len(ctx) : ctx[i] = Entry(TokenAt(i - 1), i - 1)

\* argmax of the logits the target computes after a context.
Pick(ctx) ==
  IF ~torn /\ IsReply(ctx) /\ Len(ctx) \in req.prompt..(req.prompt + Horizon - 1)
  THEN TokenAt(Len(ctx)) ELSE Garbage

Argmax == Pick(tgt)

-----------------------------------------------------------------------------
Requests == [prompt : 1..MaxPrompt, max : 1..MaxTokens, greedy : BOOLEAN]

Init ==
  /\ mode \in Modes
  /\ req = [prompt |-> 1, max |-> 1, greedy |-> TRUE, n |-> 0]
  /\ plain \in [1..Horizon -> Token]
  /\ pc = "idle"
  /\ tgt = <<>> /\ torn = FALSE
  /\ rows = [p \in Positions |-> None] /\ filled = 0
  /\ npast = 0 /\ pending = Prompt
  /\ drafts = <<>> /\ acc = 0 /\ sent = 0
  /\ out = <<>> /\ finish = "none" /\ reason = "none"

Finish(f, r) ==
  /\ pc' = "idle"
  /\ finish' = f
  /\ reason' = r

Fail(r) == Finish("error", r)

\* The drafter's error ends the reply (the "?" after every call).
DraftError_Retry == UNCHANGED <<pc, finish, reason>>
DraftError == Fail("draft")

\* Decoder::reset empties the caches, DraftCache::reset only forgets them.
ResetCaches_Kept == UNCHANGED tgt /\ torn' = FALSE
ResetCaches == tgt' = <<>> /\ torn' = FALSE
ResetDrafts_Kept == UNCHANGED draftCache
ResetDrafts == filled' = (IF mode.drafter THEN 0 ELSE filled) /\ UNCHANGED rows

Reset == ResetCaches /\ ResetDrafts

Start(r) ==
  /\ pc = "idle"
  /\ req.n < MaxRequests
  /\ req' = [prompt |-> r.prompt, max |-> r.max, greedy |-> r.greedy, n |-> req.n + 1]
  /\ plain' \in [1..Horizon -> Token]
  /\ Reset
  /\ npast' = 0
  /\ pending' = Prompt /\ drafts' = <<>> /\ acc' = 0 /\ sent' = 0
  /\ out' = <<>> /\ finish' = "none" /\ reason' = "none"
  /\ pc' = "prefill"
  /\ UNCHANGED mode

\* The prompt tokenizes to nothing: an error before anything is reset.
Refuse ==
  /\ pc = "idle"
  /\ finish' = "error" /\ reason' = "empty" /\ out' = <<>>
  /\ UNCHANGED <<mode, req, plain, pc, tgt, torn, draftCache, npast, round>>

-----------------------------------------------------------------------------
\* Decoder::forward_hidden_taps at position p, when it succeeds.
Forwarded(t, p) ==
  /\ tgt' = Append(tgt, Entry(t, p))
  /\ UNCHANGED torn

\* The next draft is the target's own choice.
Verified_Always == acc < Len(drafts)
Verified == acc < Len(drafts) /\ Argmax = drafts[acc + 1]

\* A forward fails: some layers have appended, some have not.
ForwardFails ==
  /\ pc \in {"prefill", "forward", "plainForward", "verify"}
  /\ pc = "verify" => Verified
  /\ torn' = TRUE
  /\ Fail("target")
  /\ UNCHANGED <<mode, req, plain, tgt, draftCache, npast, round, out>>

\* Drafter::observe of the features of the last forward, token t, at p.
Observed(t, p) ==
  /\ rows' = [rows EXCEPT ![p] = Row(req.n, t)]
  /\ filled' = MaxOf(filled, p + 1)

\* inject refuses a position past the draft context.
Fits(p) == p < NCtx

\* One prompt token: forward it, and let the drafter observe it.
Prefill ==
  /\ pc = "prefill"
  /\ Forwarded(Prompt, npast)
  /\ IF mode.drafter /\ ~Fits(npast)
     THEN /\ DraftError
          /\ UNCHANGED <<draftCache, npast, pending, out>>
     ELSE /\ IF mode.drafter THEN Observed(Prompt, npast) ELSE UNCHANGED draftCache
          /\ npast' = npast + 1
          /\ IF npast + 1 = req.prompt
             THEN pc' = "top" /\ pending' = Pick(tgt')
             ELSE UNCHANGED <<pc, pending>>
          /\ UNCHANGED reply
  /\ UNCHANGED <<mode, req, plain, drafts, acc, sent>>

\* Loop head, shared by the two paths: the pending token stops the reply,
\* is refused by a reader that is gone, or is delivered.
TopStop ==
  /\ pc = "top"
  /\ IsStop(pending)
  /\ Finish("stop", "eos")
  /\ UNCHANGED <<mode, req, plain, tgt, torn, draftCache, npast, round, out>>

TopRefused ==
  /\ pc = "top"
  /\ ~IsStop(pending)
  /\ Finish("stop", "gone")
  /\ UNCHANGED <<mode, req, plain, tgt, torn, draftCache, npast, round, out>>

TopDeliver ==
  /\ pc = "top"
  /\ ~IsStop(pending)
  /\ out' = Append(out, pending)
  /\ IF Spent
     THEN Finish("length", "limit")
     ELSE /\ pc' = IF Speculative THEN "forward" ELSE "plainForward"
          /\ UNCHANGED <<finish, reason>>
  /\ UNCHANGED <<mode, req, plain, tgt, torn, draftCache, npast, round>>

\* Plain path: feed the delivered token back and pick the next one.
PlainForward ==
  /\ pc = "plainForward"
  /\ Forwarded(pending, npast)
  /\ npast' = npast + 1
  /\ pending' = Pick(tgt')
  /\ pc' = "top"
  /\ UNCHANGED <<mode, req, plain, draftCache, drafts, acc, sent, reply>>

-----------------------------------------------------------------------------
\* spec::round, first part: forward the pending token.  The old block order
\* lets the drafter observe it before it drafts.
RoundForward ==
  /\ pc = "forward"
  /\ Forwarded(pending, npast)
  /\ IF mode.ref
     THEN pc' = "propose" /\ UNCHANGED <<draftCache, finish, reason>>
     ELSE IF Fits(npast)
          THEN /\ Observed(pending, npast)
               /\ pc' = "propose"
               /\ UNCHANGED <<finish, reason>>
          ELSE DraftError /\ UNCHANGED draftCache
  /\ UNCHANGED <<mode, req, plain, npast, round, out>>

\* Drafter::propose refuses: n_draft out of range, or draft_block finds that
\* the block would pass the end of the draft context.
ProposeFails ==
  /\ pc = "propose"
  /\ mode.nDraft \notin 1..BlockSize \/ BlockStart + Block > NCtx
  /\ DraftError
  /\ UNCHANGED <<mode, req, plain, tgt, torn, draftCache, npast, round, out>>

\* inject stopped at a tensor it could not read: layers before it hold the row.
TornRow(p) ==
  /\ UNCHANGED filled
  /\ UNCHANGED rows \/ (Fits(p) /\ rows' = [rows EXCEPT ![p] = Noise])

\* draft_block stopped likewise: before its first layer, or after one layer's
\* rows were put; propose then never reaches the truncation.
TornBlock ==
  \/ UNCHANGED draftCache
  \/ /\ BlockStart + Block <= NCtx
     /\ rows' = [p \in Positions |->
                   IF p \in BlockStart..(BlockStart + Block - 1) THEN Noise ELSE rows[p]]
     /\ filled' = MaxOf(filled, BlockStart + Block)

\* Any other error of the drafter: a tensor it asks for by name is missing, of
\* an unsupported type, short or past the end of its file.  The target's forward
\* before it was done.
DrafterBreaks ==
  /\ mode.drafter /\ ~mode.whole
  /\ \/ pc = "prefill" /\ Forwarded(Prompt, npast) /\ TornRow(npast) /\ UNCHANGED acc
     \/ /\ pc = "forward" /\ ~mode.ref
        /\ Forwarded(pending, npast) /\ TornRow(npast) /\ UNCHANGED acc
     \/ pc = "propose" /\ TornBlock /\ UNCHANGED <<tgt, torn, acc>>
     \/ pc = "observe" /\ TornRow(npast) /\ UNCHANGED <<tgt, torn, acc>>
     \/ /\ pc = "verify" /\ Verified
        /\ Forwarded(drafts[acc + 1], npast + 1 + acc)
        /\ TornRow(npast + 1 + acc) /\ acc' = acc + 1
  /\ DraftError
  /\ UNCHANGED <<mode, req, plain, npast, pending, drafts, sent, out>>

\* Proposals: at most n_draft tokens, cut at the first low confidence.
Proposals == UNION {[1..n -> Token] : n \in 0..mode.nDraft}

\* The draft tail is dropped from here on.
Keep_Block == BlockStart + Block
Keep == BlockStart + (IF mode.anchor THEN 1 ELSE 0)

\* Drafter::propose: draft_block writes noise K/V at every block position,
\* then the tail from Keep on is dropped.
Propose ==
  /\ pc = "propose"
  /\ mode.nDraft \in 1..BlockSize
  /\ BlockStart + Block <= NCtx
  /\ drafts' \in Proposals
  /\ acc' = 0
  /\ rows' = [p \in Positions |->
                IF p \in BlockStart..(BlockStart + Block - 1) THEN Noise ELSE rows[p]]
  /\ filled' = MinOf(MaxOf(filled, BlockStart + Block), Keep)
  /\ pc' = IF mode.ref THEN "observe" ELSE "verify"
  /\ UNCHANGED <<mode, req, plain, tgt, torn, npast, pending, sent, reply>>

\* Reference order: the pending token is observed after the draft.
ObservePending ==
  /\ pc = "observe"
  /\ IF Fits(npast)
     THEN /\ Observed(pending, npast)
          /\ pc' = "verify"
          /\ UNCHANGED <<finish, reason>>
     ELSE DraftError /\ UNCHANGED draftCache
  /\ UNCHANGED <<mode, req, plain, tgt, torn, npast, round, out>>

\* Streaming verify: the next draft is the target's own choice, so it is
\* forwarded and observed.
Accept ==
  /\ pc = "verify"
  /\ Verified
  /\ acc' = acc + 1
  /\ Forwarded(drafts[acc + 1], npast + 1 + acc)
  /\ IF Fits(npast + 1 + acc)
     THEN Observed(drafts[acc + 1], npast + 1 + acc) /\ UNCHANGED <<pc, finish, reason>>
     ELSE DraftError /\ UNCHANGED draftCache
  /\ UNCHANGED <<mode, req, plain, npast, pending, drafts, sent, out>>

\* Positions consumed by the round: the pending token and what was accepted.
NextPast_NoPending == npast + acc
NextPast == npast + acc + 1

\* First mismatch, or no draft left: the round returns and n_past moves on.
RoundDone ==
  /\ pc = "verify"
  /\ ~Verified
  /\ npast' = NextPast
  /\ pending' = Argmax
  /\ sent' = 0
  /\ pc' = "emit"
  /\ UNCHANGED <<mode, req, plain, tgt, torn, draftCache, drafts, acc, reply>>

\* generate offers the accepted drafts in order, each one like TopX above,
\* but reaching max_tokens among them is reported as "stop".
EmitStop ==
  /\ pc = "emit" /\ sent < acc
  /\ IsStop(drafts[sent + 1])
  /\ Finish("stop", "eos")
  /\ UNCHANGED <<mode, req, plain, tgt, torn, draftCache, npast, round, out>>

EmitRefused ==
  /\ pc = "emit" /\ sent < acc
  /\ ~IsStop(drafts[sent + 1])
  /\ Finish("stop", "gone")
  /\ UNCHANGED <<mode, req, plain, tgt, torn, draftCache, npast, round, out>>

EmitDeliver ==
  /\ pc = "emit" /\ sent < acc
  /\ ~IsStop(drafts[sent + 1])
  /\ out' = Append(out, drafts[sent + 1])
  /\ sent' = sent + 1
  /\ IF Spent
     THEN Finish("stop", "limit")
     ELSE UNCHANGED <<pc, finish, reason>>
  /\ UNCHANGED <<mode, req, plain, tgt, torn, draftCache, npast, pending, drafts, acc>>

EmitDone ==
  /\ pc = "emit" /\ sent = acc
  /\ pc' = "top"
  /\ UNCHANGED <<mode, req, plain, tgt, torn, draftCache, npast, round, reply>>

-----------------------------------------------------------------------------
\* The thread that runs generate.
Run ==
  \/ Prefill \/ ForwardFails
  \/ TopStop \/ TopRefused \/ TopDeliver \/ PlainForward
  \/ RoundForward \/ ProposeFails \/ DrafterBreaks
  \/ Propose \/ ObservePending \/ Accept \/ RoundDone
  \/ EmitStop \/ EmitRefused \/ EmitDeliver \/ EmitDone

Next == Refuse \/ (\E r \in Requests : Start(r)) \/ Run

\* Every request runs in a thread of its own, and each step of the thread
\* is a finite computation.
Spec == Init /\ [][Next]_vars /\ WF_vars(Run)
-----------------------------------------------------------------------------
\* Type invariant.
Reasons == {"none", "eos", "limit", "gone", "target", "draft", "empty"}

TypeOK ==
  /\ mode \in Modes
  /\ req \in [prompt : 1..MaxPrompt, max : 1..MaxTokens, greedy : BOOLEAN, n : 0..MaxRequests]
  /\ plain \in [1..Horizon -> Token]
  /\ pc \in Phases
  /\ tgt \in Seq([tok : AnyToken, pos : Nat, req : 0..MaxRequests])
  /\ torn \in BOOLEAN
  /\ rows \in [Positions -> {None, Noise} \union
                 [src : {"target"}, req : 0..MaxRequests, tok : AnyToken]]
  /\ filled \in 0..NCtx
  /\ npast \in Nat /\ acc \in Nat /\ sent \in Nat
  /\ pending \in AnyToken
  /\ drafts \in Seq(Token)
  /\ out \in Seq(AnyToken)
  /\ finish \in {"none", "stop", "length", "error"}
  /\ reason \in Reasons

\* Token identity (src/spec.rs:3-5): whatever the drafter proposes, what the
\* reader gets is a prefix of what plain decoding delivers - the target's own
\* tokens in order, no stop token, never more than max_tokens.
TokenIdentity ==
  /\ Len(out) <= req.max
  /\ \A i \in 1..Len(out) : out[i] = plain[i] /\ out[i] \notin Stop

\* No rollback needed (src/spec.rs:15-18): unless a forward broke half way,
\* the target's caches hold the reply's own sequence and nothing else, each
\* token at its position and of this request; a rejected draft is never in it.
\* Nothing is computed on caches that a failed forward tore.
CachesHoldTheReply == IF torn THEN pc = "idle" ELSE IsReply(tgt)

\* Where a round starts, n_past counts the forwarded tokens, and the pending
\* token is the one right after them that has not been delivered yet.
RoundBoundary ==
  pc = "top" =>
    /\ Len(tgt) = npast
    /\ npast = req.prompt + Len(out)
    /\ pending = plain[Len(out) + 1]

\* The loop as it is between any two steps: its variables in their types, and a
\* round that starts agreeing with the caches, the reply and the pending token.
LoopInvariant == TypeOK /\ RoundBoundary

\* What draft_block attends to: every position below its block holds the
\* target's features of this reply's token there, never draft noise of an
\* earlier round nor rows of an earlier request, and no row past the block's
\* start counts as filled.  (A violation would leave the reply unchanged and
\* only lower the acceptance rate.)
DraftContext ==
  pc = "propose" =>
    /\ filled = BlockStart
    /\ \A p \in Positions : p < BlockStart => rows[p] = Row(req.n, TokenAt(p))

\* A reply that is not cut by its reader, a failing target or an empty prompt
\* ends where plain decoding ends: at max_tokens or at the model's stop token.
EndsAsPlain ==
  pc = "idle" /\ reason \in {"eos", "limit", "draft"} =>
    Len(out) = req.max \/ plain[Len(out) + 1] \in Stop

\* The draft context holds the prompt, the longest reply and one more block
\* (nothing checks this), n_draft is one that works, and no tensor is missing
\* (the sidecar's are looked for when they are first used).
ContextSuffices ==
  /\ req.prompt + req.max + Block <= NCtx
  /\ mode.nDraft \in 1..BlockSize
  /\ mode.whole

\* With such a context the drafter never refuses, so a speculative reply ends
\* exactly where plain decoding ends (src/spec.rs:3-5), whichever rounds it took.
EndsWhereContextSuffices == ContextSuffices => EndsAsPlain /\ reason # "draft"

\* The OpenAI wire format the server speaks (README.md:178): a reply cut by
\* max_tokens is reported as "length", as the other two exits on max_tokens do.
BudgetIsLength == reason = "limit" => finish = "length"

\* Every reply ends, whatever is drafted, accepted or refused.
RepliesEnd == pc # "idle" ~> pc = "idle"

\* The abstract reply that this generation implements.
ReplyState == IF pc # "idle" THEN "running"
              ELSE IF reason = "none" THEN "idle"
              ELSE IF reason \in {"target", "draft", "empty"} THEN "error" ELSE reason

Greedy == INSTANCE GreedyDecode WITH limit <- req.max, state <- ReplyState

GreedySpec == Greedy!Spec
=============================================================================
