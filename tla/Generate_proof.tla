--------------------------- MODULE Generate_proof ---------------------------
(***************************************************************************)
(* Proofs about Generate, for any vocabulary, any prompt, any draft model, *)
(* any draft context and any combination of the switches.                  *)
(***************************************************************************)
EXTENDS Generate, TLAPS

\* A token of the reply was delivered and is not in the caches yet.
Delivered == Len(out) \in 1..(req.max - 1)

\* What ties the caches, the counters and the reader's view together at each
\* place of the loop.
Linked ==
  /\ pc = "prefill" => /\ out = <<>>
                       /\ Len(tgt) = npast
                       /\ npast < req.prompt
  /\ pc = "top" => /\ Len(out) < req.max
                   /\ Len(tgt) = npast
                   /\ npast = req.prompt + Len(out)
                   /\ pending = plain[Len(out) + 1]
  /\ pc \in {"forward", "plainForward"} =>
                   /\ Delivered
                   /\ Len(tgt) = npast
                   /\ npast + 1 = req.prompt + Len(out)
                   /\ pending = plain[Len(out)]
  /\ pc \in {"propose", "observe", "verify"} =>
                   /\ Delivered
                   /\ npast + 1 = req.prompt + Len(out)
                   /\ pending = plain[Len(out)]
  /\ pc \in {"propose", "observe"} => Len(tgt) = npast + 1
  /\ pc = "observe" => acc = 0
  /\ pc \in {"observe", "verify", "emit"} => Len(drafts) <= BlockSize
  /\ pc = "verify" => /\ Len(tgt) = npast + 1 + acc
                      /\ acc <= Len(drafts)
                      /\ \A i \in 1..acc : drafts[i] = plain[Len(out) + i]
  /\ pc = "emit" => /\ Len(out) < req.max
                    /\ sent <= acc
                    /\ sent <= Len(out)
                    /\ acc <= Len(drafts)
                    /\ Len(tgt) = npast
                    /\ npast = req.prompt + Len(out) + acc - sent
                    /\ pending = plain[Len(out) + acc - sent + 1]
                    /\ \A i \in 1..acc : drafts[i] = plain[Len(out) - sent + i]

IInv == TypeOK /\ CachesHoldTheReply /\ TokenIdentity /\ Linked

-----------------------------------------------------------------------------
\* A forward of the reply's next token leaves the caches holding the reply.
LEMMA ForwardKeepsReply ==
  ASSUME TypeOK, IsReply(tgt), NEW t \in AnyToken, NEW p \in Nat,
         p = Len(tgt), t = TokenAt(p), Forwarded(t, p)
  PROVE  /\ IsReply(tgt')
         /\ Len(tgt') = p + 1
         /\ tgt' \in Seq([tok : AnyToken, pos : Nat, req : 0..MaxRequests])
<1> USE DEF TypeOK, Forwarded, Entry
<1>1. Entry(t, p) \in [tok : AnyToken, pos : Nat, req : 0..MaxRequests]
  BY DEF AnyToken
<1>2. tgt' = Append(tgt, Entry(t, p))
  OBVIOUS
<1>3. Len(tgt') = p + 1 /\ tgt' \in Seq([tok : AnyToken, pos : Nat, req : 0..MaxRequests])
  BY <1>1, <1>2
<1>4. ASSUME NEW i \in 1..Len(tgt')
      PROVE  tgt'[i] = Entry(TokenAt(i - 1), i - 1)
  <2>1. CASE i = p + 1
    BY <1>1, <1>2, <2>1
  <2>2. CASE i \in 1..Len(tgt)
    <3>1. tgt'[i] = tgt[i]
      BY <1>1, <1>2, <2>2
    <3>2. QED BY <2>2, <3>1 DEF IsReply
  <2>3. QED BY <1>3, <2>1, <2>2
<1>5. QED BY <1>3, <1>4 DEF IsReply

\* Past the prompt, the reply's sequence is what the target picks.
LEMMA TokenOfReply ==
  ASSUME req.prompt \in Nat, NEW n \in Nat, NEW k \in Nat \ {0}, n + 1 = req.prompt + k
  PROVE  TokenAt(n) = plain[k]
<1>1. ~(n < req.prompt) /\ n - req.prompt + 1 = k
  OBVIOUS
<1>2. QED BY <1>1 DEF TokenAt

\* The target's choice after the reply's own sequence is the reply's next token.
LEMMA PickIsNext ==
  ASSUME TypeOK, ~torn, NEW ctx, IsReply(ctx), Len(ctx) \in Nat,
         NEW k \in 0..(Horizon - 1), Len(ctx) = req.prompt + k
  PROVE  Pick(ctx) = plain[k + 1] /\ Pick(ctx) \in Token
<1>1. Horizon \in Nat /\ req.prompt \in Nat
  BY GenerateAssumption DEF Horizon, TypeOK
<1>2. Len(ctx) \in req.prompt..(req.prompt + Horizon - 1)
  BY <1>1
<1>3. Pick(ctx) = TokenAt(Len(ctx))
  BY <1>2 DEF Pick
<1>4. TokenAt(Len(ctx)) = plain[k + 1]
  BY <1>1 DEF TokenAt
<1>5. k + 1 \in 1..Horizon
  BY <1>1
<1>6. plain[k + 1] \in Token
  BY <1>5 DEF TypeOK
<1>7. QED BY <1>3, <1>4, <1>6

-----------------------------------------------------------------------------
\* The initial states satisfy the invariant.
LEMMA InitIInv == Init => IInv
<1> SUFFICES ASSUME Init PROVE IInv
  OBVIOUS
<1> USE GenerateAssumption DEF Init
<1>1. TypeOK
  <2>1. req \in [prompt : 1..MaxPrompt, max : 1..MaxTokens, greedy : BOOLEAN, n : 0..MaxRequests]
    OBVIOUS
  <2>2. rows \in [Positions -> {None, Noise} \union
                    [src : {"target"}, req : 0..MaxRequests, tok : AnyToken]]
    OBVIOUS
  <2>3. /\ tgt \in Seq([tok : AnyToken, pos : Nat, req : 0..MaxRequests])
        /\ drafts \in Seq(Token)
        /\ out \in Seq(AnyToken)
    OBVIOUS
  <2>4. /\ pending \in AnyToken
        /\ filled \in 0..NCtx
        /\ pc \in Phases
        /\ reason \in Reasons
    BY DEF AnyToken, Phases, Reasons
  <2>5. QED BY <2>1, <2>2, <2>3, <2>4 DEF TypeOK
<1>2. CachesHoldTheReply
  BY DEF CachesHoldTheReply, IsReply
<1>3. TokenIdentity
  BY DEF TokenIdentity
<1>4. Linked
  BY DEF Linked
<1>5. QED BY <1>1, <1>2, <1>3, <1>4 DEF IInv

-----------------------------------------------------------------------------
\* Type correctness is preserved by every step.
LEMMA ForwardedType ==
  ASSUME TypeOK, NEW t \in AnyToken, NEW p \in Nat, Forwarded(t, p)
  PROVE  /\ tgt' \in Seq([tok : AnyToken, pos : Nat, req : 0..MaxRequests])
         /\ torn' \in BOOLEAN
<1>1. Entry(t, p) \in [tok : AnyToken, pos : Nat, req : 0..MaxRequests]
  BY DEF Entry, TypeOK
<1>2. QED BY <1>1 DEF Forwarded, TypeOK

LEMMA ObservedType ==
  ASSUME TypeOK, NEW t \in AnyToken, NEW p \in Nat, Observed(t, p), Fits(p)
  PROVE  /\ rows' \in [Positions -> {None, Noise} \union
                         [src : {"target"}, req : 0..MaxRequests, tok : AnyToken]]
         /\ filled' \in 0..NCtx
<1>1. Row(req.n, t) \in [src : {"target"}, req : 0..MaxRequests, tok : AnyToken]
  BY DEF Row, TypeOK
<1>2. filled' \in 0..NCtx
  BY GenerateAssumption DEF Observed, Fits, MaxOf, TypeOK
<1>3. rows' = [rows EXCEPT ![p] = Row(req.n, t)]
  BY DEF Observed
<1>4. QED BY <1>1, <1>2, <1>3 DEF TypeOK

\* A choice of the target is a token, or Garbage.
LEMMA PickType ==
  ASSUME TypeOK, NEW ctx, Len(ctx) \in Nat
  PROVE  Pick(ctx) \in AnyToken
<1> USE DEF AnyToken
<1>1. CASE Len(ctx) \in req.prompt..(req.prompt + Horizon - 1)
  <2>1. Horizon \in Nat /\ req.prompt \in Nat
    BY GenerateAssumption DEF Horizon, TypeOK
  <2>2. Len(ctx) - req.prompt + 1 \in 1..Horizon
    BY <1>1, <2>1
  <2>3. plain[Len(ctx) - req.prompt + 1] \in Token
    BY <2>2 DEF TypeOK
  <2>4. TokenAt(Len(ctx)) \in AnyToken
    BY <2>3 DEF TokenAt
  <2>5. QED BY <2>4 DEF Pick
<1>2. CASE ~ (Len(ctx) \in req.prompt..(req.prompt + Horizon - 1))
  BY <1>2 DEF Pick
<1>3. QED BY <1>1, <1>2

-----------------------------------------------------------------------------
\* A step that only ends the reply preserves the invariant.
LEMMA EndStep ==
  ASSUME IInv,
         UNCHANGED <<mode, req, plain, tgt, torn, rows, filled, npast, pending, drafts,
                     acc, sent, out>>,
         NEW f \in {"stop", "length", "error"}, NEW r \in Reasons, Finish(f, r)
  PROVE  IInv'
<1> USE DEF IInv, Finish
<1>1. TypeOK'
  BY DEF TypeOK, Phases
<1>2. CachesHoldTheReply'
  BY DEF CachesHoldTheReply, IsReply, Entry, TokenAt
<1>3. TokenIdentity'
  BY DEF TokenIdentity
<1>4. Linked'
  BY <1>1 DEF Linked
<1>5. QED BY <1>1, <1>2, <1>3, <1>4

\* The steps that do not touch the caches keep the cache invariant.
LEMMA CachesUntouched ==
  ASSUME IInv, pc # "idle", UNCHANGED <<req, plain, tgt, torn>>
  PROVE  CachesHoldTheReply' /\ ~torn' /\ IsReply(tgt)
<1>1. ~torn /\ IsReply(tgt)
  BY DEF IInv, CachesHoldTheReply
<1>2. IsReply(tgt)'
  BY <1>1 DEF IsReply, Entry, TokenAt
<1>3. QED BY <1>1, <1>2 DEF CachesHoldTheReply

\* Forwarding the reply's next token keeps the cache invariant.
LEMMA CachesForwarded ==
  ASSUME IInv, pc # "idle", UNCHANGED <<req, plain>>,
         NEW t \in AnyToken, NEW p \in Nat, p = Len(tgt), t = TokenAt(p), Forwarded(t, p)
  PROVE  /\ CachesHoldTheReply'
         /\ ~torn
         /\ IsReply(tgt')
         /\ Len(tgt') = p + 1
<1>1. ~torn /\ IsReply(tgt) /\ TypeOK
  BY DEF IInv, CachesHoldTheReply
<1>2. IsReply(tgt') /\ Len(tgt') = p + 1
  BY <1>1, ForwardKeepsReply
<1>3. IsReply(tgt)'
  BY <1>2 DEF IsReply, Entry, TokenAt
<1>4. ~torn'
  BY <1>1 DEF Forwarded
<1>5. QED BY <1>1, <1>2, <1>3, <1>4 DEF CachesHoldTheReply

-----------------------------------------------------------------------------
LEMMA StartStep ==
  ASSUME IInv, NEW r \in Requests, Start(r)
  PROVE  IInv'
<1> USE GenerateAssumption DEF IInv, Start, Reset, ResetCaches, ResetDrafts
<1>1. TypeOK'
  <2>1. req' \in [prompt : 1..MaxPrompt, max : 1..MaxTokens, greedy : BOOLEAN, n : 0..MaxRequests]
    BY DEF TypeOK, Requests
  <2>2. /\ tgt' \in Seq([tok : AnyToken, pos : Nat, req : 0..MaxRequests])
        /\ drafts' \in Seq(Token)
        /\ out' \in Seq(AnyToken)
    OBVIOUS
  <2>3. rows' = rows /\ mode' = mode /\ filled' \in 0..NCtx
    BY DEF TypeOK
  <2>4. /\ pending' \in AnyToken
        /\ pc' \in Phases
        /\ reason' \in Reasons
    BY DEF AnyToken, Phases, Reasons
  <2>5. QED BY <2>1, <2>2, <2>3, <2>4 DEF TypeOK
<1>2. CachesHoldTheReply'
  BY DEF CachesHoldTheReply, IsReply
<1>3. req'.max \in Nat /\ req'.prompt \in Nat \ {0}
  BY DEF Requests
<1>4. TokenIdentity'
  BY <1>3 DEF TokenIdentity
<1>5. Linked'
  BY <1>3 DEF Linked
<1>6. QED BY <1>1, <1>2, <1>4, <1>5

LEMMA RefuseStep ==
  ASSUME IInv, Refuse
  PROVE  IInv'
<1> USE DEF IInv, Refuse, draftCache, round
<1>1. TypeOK'
  <2>1. out' \in Seq(AnyToken) /\ reason' \in Reasons
    BY DEF Reasons
  <2>2. QED BY <2>1 DEF TypeOK
<1>2. CachesHoldTheReply'
  BY DEF CachesHoldTheReply, IsReply, Entry, TokenAt
<1>3. req.max \in Nat
  BY GenerateAssumption DEF TypeOK
<1>4. TokenIdentity'
  BY <1>3 DEF TokenIdentity
<1>5. Linked'
  BY DEF Linked
<1>6. QED BY <1>1, <1>2, <1>4, <1>5

LEMMA ForwardFailsStep ==
  ASSUME IInv, ForwardFails
  PROVE  IInv'
<1> USE DEF IInv, ForwardFails, Fail, Finish, draftCache, round
<1>1. TypeOK'
  BY DEF TypeOK, Phases, Reasons
<1>2. CachesHoldTheReply'
  BY DEF CachesHoldTheReply
<1>3. TokenIdentity'
  BY DEF TokenIdentity
<1>4. Linked'
  BY DEF Linked
<1>5. QED BY <1>1, <1>2, <1>3, <1>4

LEMMA TopDeliverStep ==
  ASSUME IInv, TopDeliver
  PROVE  IInv'
<1> USE DEF IInv, TopDeliver, Spent, IsStop, Finish, draftCache, round
<1>1. /\ Len(out) < req.max
      /\ Len(tgt) = npast
      /\ npast = req.prompt + Len(out)
      /\ pending = plain[Len(out) + 1]
      /\ pending \notin Stop
  BY DEF Linked
<1>2. /\ Len(out) \in Nat /\ req.max \in Nat /\ req.prompt \in Nat /\ npast \in Nat
      /\ out \in Seq(AnyToken) /\ pending \in AnyToken
  BY GenerateAssumption DEF TypeOK
<1>3. /\ out' \in Seq(AnyToken)
      /\ Len(out') = Len(out) + 1
      /\ out'[Len(out) + 1] = pending
      /\ \A i \in 1..Len(out) : out'[i] = out[i]
  BY <1>2
<1>4. TypeOK'
  BY <1>3 DEF TypeOK, Phases, Reasons
<1>5. CachesHoldTheReply'
  BY CachesUntouched
<1>6. TokenIdentity'
  BY <1>1, <1>2, <1>3 DEF TokenIdentity
<1>7. Linked'
  <2>1. CASE Len(out) + 1 >= req.max
    <3>1. pc' = "idle"
      BY <2>1
    <3>2. QED BY <3>1 DEF Linked
  <2>2. CASE Len(out) + 1 < req.max
    <3>1. pc' \in {"forward", "plainForward"}
      BY <1>2, <2>2
    <3>2. Delivered'
      BY <1>2, <1>3, <2>2 DEF Delivered
    <3>3. UNCHANGED <<req, plain, tgt, npast, pending>>
      OBVIOUS
    <3>4. Len(tgt') = npast'
      BY ONLY <1>1, <3>3
    <3>6. npast' + 1 = req'.prompt + Len(out')
      <4>1. Len(out') = Len(out) + 1
        BY <1>3
      <4>2. npast = req.prompt + Len(out) /\ Len(out) \in Nat /\ req.prompt \in Nat
        BY <1>1, <1>2
      <4>3. QED BY ONLY <4>1, <4>2, <3>3
    <3>7. pending' = plain'[Len(out')]
      BY ONLY <1>1, <1>2, <1>3, <3>3
    <3>5. QED BY <3>1, <3>2, <3>4, <3>6, <3>7 DEF Linked
  <2>3. QED BY <1>2, <2>1, <2>2
<1>8. QED BY <1>4, <1>5, <1>6, <1>7

LEMMA PrefillStep ==
  ASSUME IInv, Prefill
  PROVE  IInv'
<1> USE DEF IInv, Prefill, DraftError
<1>1. /\ out = <<>> /\ Len(tgt) = npast /\ npast < req.prompt
      /\ npast \in Nat /\ req.prompt \in Nat /\ req.max \in Nat \ {0}
      /\ Prompt \in AnyToken
  BY GenerateAssumption DEF Linked, TypeOK, AnyToken
<1>2. TokenAt(npast) = Prompt
  BY <1>1 DEF TokenAt
<1>3. CachesHoldTheReply' /\ ~torn /\ IsReply(tgt') /\ Len(tgt') = npast + 1
  BY <1>1, <1>2, CachesForwarded
<1>4. tgt' \in Seq([tok : AnyToken, pos : Nat, req : 0..MaxRequests]) /\ torn' \in BOOLEAN
  BY <1>1, ForwardedType
<1>5. UNCHANGED <<mode, req, plain, drafts, acc, sent, out>>
  BY DEF reply
<1>6. TokenIdentity'
  BY <1>5 DEF TokenIdentity
<1>7. CASE mode.drafter /\ ~Fits(npast)
  <2>1. UNCHANGED <<rows, filled, npast, pending>> /\ Fail("draft")
    BY <1>7 DEF draftCache
  <2>2. TypeOK'
    BY <1>4, <1>5, <2>1 DEF TypeOK, Fail, Finish, Phases, Reasons
  <2>3. Linked'
    BY <2>1 DEF Fail, Finish, Linked
  <2>4. QED BY <1>3, <1>6, <2>2, <2>3
<1>8. CASE ~(mode.drafter /\ ~Fits(npast))
  <2>1. /\ npast' = npast + 1
        /\ UNCHANGED <<finish, reason>>
        /\ IF npast + 1 = req.prompt THEN pc' = "top" /\ pending' = Pick(tgt')
           ELSE UNCHANGED <<pc, pending>>
    BY <1>8 DEF reply
  <2>2. Pick(tgt') \in AnyToken
    BY <1>1, <1>3, PickType
  <2>3. /\ rows' \in [Positions -> {None, Noise} \union
                        [src : {"target"}, req : 0..MaxRequests, tok : AnyToken]]
        /\ filled' \in 0..NCtx
    <3>1. CASE mode.drafter
      BY <1>1, <1>8, <3>1, ObservedType
    <3>2. CASE ~mode.drafter
      BY <1>8, <3>2 DEF draftCache, TypeOK
    <3>3. QED BY <3>1, <3>2
  <2>4. pending' \in AnyToken /\ pc' \in Phases /\ npast' \in Nat
    BY <1>1, <2>1, <2>2 DEF TypeOK, Phases
  <2>5. TypeOK'
    BY <1>4, <1>5, <2>1, <2>3, <2>4 DEF TypeOK
  <2>6. Linked'
    <3>1. CASE npast + 1 = req.prompt
      <4>1. pc' = "top" /\ pending' = Pick(tgt')
        BY <2>1, <3>1
      <4>2. Pick(tgt') = plain[0 + 1]
        <5>1. 0 \in 0..(Horizon - 1)
          BY GenerateAssumption DEF Horizon
        <5>2. Len(tgt') = req.prompt + 0 /\ Len(tgt') \in Nat
          BY <1>1, <1>3, <3>1
        <5>3. QED BY <1>3, <5>1, <5>2, PickIsNext
      <4>3. Len(out') = 0 /\ Len(tgt)' = npast' /\ npast' = req'.prompt + 0
        BY <1>1, <1>3, <1>5, <2>1, <3>1
      <4>4. QED BY <1>1, <1>5, <4>1, <4>2, <4>3 DEF Linked
    <3>2. CASE npast + 1 # req.prompt
      <4>1. pc' = "prefill"
        BY <2>1, <3>2
      <4>2. out' = <<>> /\ Len(tgt)' = npast' /\ npast' < req'.prompt
        BY <1>1, <1>3, <1>5, <2>1, <3>2
      <4>3. QED BY <4>1, <4>2 DEF Linked
    <3>3. QED BY <3>1, <3>2
  <2>7. QED BY <1>3, <1>6, <2>5, <2>6
<1>9. QED BY <1>7, <1>8

LEMMA PlainForwardStep ==
  ASSUME IInv, PlainForward
  PROVE  IInv'
<1> USE DEF IInv, PlainForward
<1>1. /\ Len(out) \in 1..(req.max - 1) /\ Len(tgt) = npast
      /\ npast + 1 = req.prompt + Len(out)
      /\ pending = plain[Len(out)]
  BY DEF Linked, Delivered
<1>2. /\ npast \in Nat /\ req.prompt \in Nat /\ req.max \in 1..MaxTokens /\ pending \in AnyToken
      /\ MaxTokens \in Nat /\ BlockSize \in Nat
  BY GenerateAssumption DEF TypeOK
<1>3. TokenAt(npast) = pending
  <2>1. Len(out) \in Nat \ {0}
    BY ONLY <1>1, <1>2
  <2>2. QED BY ONLY <1>1, <1>2, <2>1, TokenOfReply
<1>4. UNCHANGED <<mode, req, plain, rows, filled, drafts, acc, sent, out, finish, reason>>
  BY DEF reply, draftCache
<1>5. CachesHoldTheReply' /\ ~torn /\ IsReply(tgt') /\ Len(tgt') = npast + 1
  BY <1>1, <1>2, <1>3, <1>4, CachesForwarded
<1>6. Pick(tgt') = plain[Len(out) + 1] /\ Pick(tgt') \in Token
  <2>1. Len(out) \in 0..(Horizon - 1)
    BY <1>1, <1>2 DEF Horizon
  <2>2. Len(tgt') = req.prompt + Len(out) /\ Len(tgt') \in Nat
    BY <1>1, <1>2, <1>5
  <2>3. QED BY <1>5, <2>1, <2>2, PickIsNext
<1>7. TypeOK'
  <2>1. tgt' \in Seq([tok : AnyToken, pos : Nat, req : 0..MaxRequests]) /\ torn' \in BOOLEAN
    BY <1>2, ForwardedType
  <2>2. pending' \in AnyToken /\ npast' \in Nat /\ pc' \in Phases
    BY <1>2, <1>6 DEF AnyToken, Phases
  <2>3. QED BY <1>4, <2>1, <2>2 DEF TypeOK
<1>8. TokenIdentity'
  BY <1>4 DEF TokenIdentity
<1>9. Linked'
  <2>1. /\ Len(out') < req'.max
        /\ Len(tgt)' = npast'
        /\ npast' = req'.prompt + Len(out')
        /\ pending' = plain'[Len(out') + 1]
    BY <1>1, <1>2, <1>4, <1>5, <1>6
  <2>2. QED BY <2>1 DEF Linked
<1>10. QED BY <1>5, <1>7, <1>8, <1>9

-----------------------------------------------------------------------------
LEMMA RoundForwardStep ==
  ASSUME IInv, RoundForward
  PROVE  IInv'
<1> USE DEF IInv, RoundForward, DraftError
<1>1. /\ Delivered /\ Len(tgt) = npast
      /\ npast + 1 = req.prompt + Len(out)
      /\ pending = plain[Len(out)]
  BY DEF Linked
<1>2. /\ npast \in Nat /\ req.prompt \in Nat /\ req.max \in Nat /\ pending \in AnyToken
  BY DEF TypeOK
<1>3. TokenAt(npast) = pending
  <2>1. Len(out) \in Nat \ {0}
    BY ONLY <1>1, <1>2 DEF Delivered
  <2>2. QED BY ONLY <1>1, <1>2, <2>1, TokenOfReply
<1>4. UNCHANGED <<mode, req, plain, npast, pending, drafts, acc, sent, out>>
  BY DEF round
<1>5. CachesHoldTheReply' /\ Len(tgt') = npast + 1
  BY <1>1, <1>2, <1>3, <1>4, CachesForwarded
<1>6. tgt' \in Seq([tok : AnyToken, pos : Nat, req : 0..MaxRequests]) /\ torn' \in BOOLEAN
  BY <1>2, ForwardedType
<1>7. TokenIdentity'
  BY <1>4 DEF TokenIdentity
<1>8. /\ rows' \in [Positions -> {None, Noise} \union
                      [src : {"target"}, req : 0..MaxRequests, tok : AnyToken]]
      /\ filled' \in 0..NCtx
  <2>1. CASE UNCHANGED draftCache
    BY <2>1 DEF draftCache, TypeOK
  <2>2. CASE ~UNCHANGED draftCache
    BY <1>2, <2>2, ObservedType DEF Fits
  <2>3. QED BY <2>1, <2>2
<1>9. \/ pc' = "propose" /\ UNCHANGED <<finish, reason>>
      \/ Fail("draft")
  OBVIOUS
<1>10. TypeOK'
  <2>1. pc' \in Phases /\ finish' \in {"none", "stop", "length", "error"} /\ reason' \in Reasons
    BY <1>9 DEF Fail, Finish, TypeOK, Phases, Reasons
  <2>2. QED BY <1>4, <1>6, <1>8, <2>1 DEF TypeOK
<1>11. Linked'
  <2>1. CASE pc' = "idle"
    BY <2>1 DEF Linked
  <2>2. CASE pc' = "propose"
    BY <1>1, <1>4, <1>5, <2>2 DEF Linked, Delivered
  <2>3. QED BY <1>9, <2>1, <2>2 DEF Fail, Finish
<1>12. QED BY <1>5, <1>7, <1>10, <1>11

LEMMA ProposeStep ==
  ASSUME IInv, Propose
  PROVE  IInv'
<1> USE DEF IInv, Propose
<1>1. /\ Delivered /\ Len(tgt) = npast + 1
      /\ npast + 1 = req.prompt + Len(out)
      /\ pending = plain[Len(out)]
  BY DEF Linked
<1>2. UNCHANGED <<mode, req, plain, tgt, torn, npast, pending, sent, out, finish, reason>>
  BY DEF reply
<1>3. mode.nDraft \in Nat /\ mode.extra \in {0, 1} /\ BlockSize \in Nat /\ NCtx \in Nat
  BY GenerateAssumption DEF TypeOK
<1>4. drafts' \in Seq(Token) /\ Len(drafts') \in Nat /\ Len(drafts') <= BlockSize
  <2>1. PICK n \in 0..mode.nDraft : drafts' \in [1..n -> Token]
    BY DEF Proposals
  <2>2. n \in Nat /\ n <= BlockSize
    BY <1>3, <2>1
  <2>3. drafts' \in Seq(Token) /\ Len(drafts') = n
    BY <2>1, <2>2
  <2>4. QED BY <2>2, <2>3
<1>5. rows' \in [Positions -> {None, Noise} \union
                   [src : {"target"}, req : 0..MaxRequests, tok : AnyToken]]
  BY DEF TypeOK
<1>6. filled' \in 0..NCtx
  <2>0. npast \in Nat
    BY DEF TypeOK
  <2>1. BlockStart \in Nat /\ Block \in Nat \ {0}
    BY ONLY <1>3, <2>0, GenerateAssumption DEF BlockStart, Block
  <2>2. filled \in 0..NCtx /\ BlockStart + Block <= NCtx
    BY DEF TypeOK
  <2>3. Keep \in Nat /\ Keep <= BlockStart + Block
    BY <2>1 DEF Keep
  <2>4. filled' = MinOf(MaxOf(filled, BlockStart + Block), Keep)
    OBVIOUS
  <2>5. QED BY ONLY <1>3, <2>1, <2>2, <2>3, <2>4 DEF MaxOf, MinOf
<1>7. pc' \in {"observe", "verify"} /\ acc' = 0
  OBVIOUS
<1>8. TypeOK'
  BY <1>2, <1>4, <1>5, <1>6, <1>7 DEF TypeOK, Phases
<1>9. CachesHoldTheReply'
  BY <1>2, CachesUntouched
<1>10. TokenIdentity'
  BY <1>2 DEF TokenIdentity
<1>11. Linked'
  <2>1. Len(tgt') = npast' + 1 + acc' /\ acc' <= Len(drafts') /\ Len(tgt') = npast' + 1
    <3>1. npast \in Nat
      BY DEF TypeOK
    <3>2. QED BY <1>1, <1>2, <1>4, <1>7, <3>1
  <2>2. Delivered' /\ npast' + 1 = req'.prompt + Len(out') /\ pending' = plain'[Len(out')]
    BY <1>1, <1>2 DEF Delivered
  <2>3. \A i \in 1..acc' : drafts'[i] = plain'[Len(out') + i]
    BY <1>7
  <2>4. QED BY <1>4, <1>7, <2>1, <2>2, <2>3 DEF Linked
<1>12. QED BY <1>8, <1>9, <1>10, <1>11

LEMMA ObservePendingStep ==
  ASSUME IInv, ObservePending
  PROVE  IInv'
<1> USE DEF IInv, ObservePending, DraftError
<1>1. UNCHANGED <<mode, req, plain, tgt, torn, npast, pending, drafts, acc, sent, out>>
  BY DEF round
<1>2. npast \in Nat /\ pending \in AnyToken
  BY DEF TypeOK
<1>3. /\ rows' \in [Positions -> {None, Noise} \union
                      [src : {"target"}, req : 0..MaxRequests, tok : AnyToken]]
      /\ filled' \in 0..NCtx
  <2>1. CASE Fits(npast)
    BY <1>2, <2>1, ObservedType
  <2>2. CASE ~Fits(npast)
    BY <2>2 DEF draftCache, TypeOK
  <2>3. QED BY <2>1, <2>2
<1>4. \/ pc' = "verify" /\ UNCHANGED <<finish, reason>>
      \/ Fail("draft")
  OBVIOUS
<1>5. TypeOK'
  <2>1. pc' \in Phases /\ finish' \in {"none", "stop", "length", "error"} /\ reason' \in Reasons
    BY <1>4 DEF Fail, Finish, TypeOK, Phases, Reasons
  <2>2. QED BY <1>1, <1>3, <2>1 DEF TypeOK
<1>6. CachesHoldTheReply'
  BY <1>1, CachesUntouched
<1>7. TokenIdentity'
  BY <1>1 DEF TokenIdentity
<1>8. Linked'
  <2>1. CASE pc' = "idle"
    BY <2>1 DEF Linked
  <2>2. CASE pc' = "verify"
    <3>1. /\ Len(tgt) = npast + 1 /\ acc = 0 /\ Len(drafts) <= BlockSize /\ Delivered
          /\ npast + 1 = req.prompt + Len(out)
          /\ pending = plain[Len(out)]
      BY DEF Linked
    <3>2. Len(drafts) \in Nat
      BY DEF TypeOK
    <3>3. Len(tgt') = npast' + 1 + acc' /\ acc' <= Len(drafts') /\ acc' = 0
      BY <1>1, <1>2, <3>1, <3>2
    <3>4. QED BY <1>1, <2>2, <3>1, <3>3 DEF Linked, Delivered
  <2>3. QED BY <1>4, <2>1, <2>2 DEF Fail, Finish
<1>9. QED BY <1>5, <1>6, <1>7, <1>8

\* The numbers of a round in progress.
LEMMA VerifyFacts ==
  ASSUME IInv, pc = "verify"
  PROVE  /\ Len(out) \in 1..(req.max - 1)
         /\ npast + 1 = req.prompt + Len(out)
         /\ Len(tgt) = npast + 1 + acc
         /\ acc \in 0..BlockSize /\ acc <= Len(drafts) /\ Len(drafts) <= BlockSize
         /\ npast \in Nat /\ req.prompt \in Nat /\ req.max \in 1..MaxTokens
         /\ MaxTokens \in Nat /\ BlockSize \in Nat /\ Len(drafts) \in Nat
         /\ Len(out) + acc \in 0..(Horizon - 1)
         /\ Argmax = plain[Len(out) + acc + 1] /\ Argmax \in Token
<1>1. /\ Len(out) \in 1..(req.max - 1)
      /\ npast + 1 = req.prompt + Len(out)
      /\ Len(tgt) = npast + 1 + acc
      /\ acc <= Len(drafts) /\ Len(drafts) <= BlockSize
  BY DEF IInv, Linked, Delivered
<1>2. /\ npast \in Nat /\ req.prompt \in Nat /\ req.max \in 1..MaxTokens
      /\ MaxTokens \in Nat /\ BlockSize \in Nat /\ Len(drafts) \in Nat /\ acc \in Nat
  BY GenerateAssumption DEF IInv, TypeOK
<1>3. acc \in 0..BlockSize
  BY ONLY <1>1, <1>2
<1>4. Len(out) + acc \in 0..(Horizon - 1)
  BY ONLY <1>1, <1>2, <1>3 DEF Horizon
<1>5. Len(tgt) = req.prompt + (Len(out) + acc) /\ Len(tgt) \in Nat
  <2>1. /\ Len(out) \in Nat /\ npast + 1 = req.prompt + Len(out)
        /\ Len(tgt) = npast + 1 + acc
    BY ONLY <1>1, <1>2
  <2>2. QED BY ONLY <1>2, <2>1
<1>6. ~torn /\ IsReply(tgt) /\ TypeOK
  BY DEF IInv, CachesHoldTheReply
<1>7. Pick(tgt) = plain[Len(out) + acc + 1] /\ Pick(tgt) \in Token
  BY <1>4, <1>5, <1>6, PickIsNext
<1>8. QED BY <1>1, <1>2, <1>3, <1>4, <1>7 DEF Argmax

LEMMA AcceptStep ==
  ASSUME IInv, Accept
  PROVE  IInv'
<1>0. pc = "verify" /\ acc < Len(drafts) /\ Argmax = drafts[acc + 1]
  BY DEF Accept, Verified
<1>1. /\ Len(out) \in 1..(req.max - 1)
      /\ npast + 1 = req.prompt + Len(out)
      /\ Len(tgt) = npast + 1 + acc
      /\ acc \in Nat /\ acc < Len(drafts) /\ Len(drafts) \in Nat /\ Len(drafts) <= BlockSize
      /\ npast \in Nat /\ req.prompt \in Nat /\ req.max \in Nat
      /\ drafts[acc + 1] = plain[Len(out) + acc + 1]
      /\ drafts[acc + 1] \in Token
  <2>1. /\ Len(out) \in 1..(req.max - 1)
        /\ npast + 1 = req.prompt + Len(out)
        /\ Len(tgt) = npast + 1 + acc
        /\ acc \in 0..BlockSize /\ BlockSize \in Nat
        /\ Len(drafts) \in Nat /\ Len(drafts) <= BlockSize
        /\ npast \in Nat /\ req.prompt \in Nat
        /\ req.max \in 1..MaxTokens /\ MaxTokens \in Nat
        /\ Argmax = plain[Len(out) + acc + 1] /\ Argmax \in Token
    BY <1>0, VerifyFacts
  <2>2. acc \in Nat /\ req.max \in Nat
    BY ONLY <2>1
  <2>3. QED BY ONLY <1>0, <2>1, <2>2
<1> USE DEF IInv, Accept, Verified, DraftError
<1>2. UNCHANGED <<mode, req, plain, npast, pending, drafts, sent, out>> /\ acc' = acc + 1
  OBVIOUS
<1>3. npast + 1 + acc \in Nat /\ drafts[acc + 1] \in AnyToken
  BY <1>1 DEF AnyToken
<1>4. TokenAt(npast + 1 + acc) = drafts[acc + 1]
  <2>1. ~(npast + 1 + acc < req.prompt)
    BY <1>1
  <2>2. npast + 1 + acc - req.prompt + 1 = Len(out) + acc + 1
    BY <1>1
  <2>3. QED BY <1>1, <2>1, <2>2 DEF TokenAt
<1>5. CachesHoldTheReply' /\ Len(tgt') = npast + 1 + acc + 1
  BY <1>1, <1>2, <1>3, <1>4, CachesForwarded
<1>6. tgt' \in Seq([tok : AnyToken, pos : Nat, req : 0..MaxRequests]) /\ torn' \in BOOLEAN
  BY <1>3, ForwardedType
<1>7. /\ rows' \in [Positions -> {None, Noise} \union
                      [src : {"target"}, req : 0..MaxRequests, tok : AnyToken]]
      /\ filled' \in 0..NCtx
  <2>1. CASE Fits(npast + 1 + acc)
    BY <1>3, <2>1, ObservedType
  <2>2. CASE ~Fits(npast + 1 + acc)
    BY <2>2 DEF draftCache, TypeOK
  <2>3. QED BY <2>1, <2>2
<1>8. \/ UNCHANGED <<pc, finish, reason>>
      \/ Fail("draft")
  OBVIOUS
<1>9. TypeOK'
  <2>1. pc' \in Phases /\ finish' \in {"none", "stop", "length", "error"} /\ reason' \in Reasons
    BY <1>8 DEF Fail, Finish, TypeOK, Phases, Reasons
  <2>2. acc' \in Nat
    BY <1>1, <1>2
  <2>3. QED BY <1>2, <1>6, <1>7, <2>1, <2>2 DEF TypeOK
<1>10. TokenIdentity'
  BY <1>2 DEF TokenIdentity
<1>11. Linked'
  <2>1. CASE pc' = "idle"
    BY <2>1 DEF Linked
  <2>2. CASE pc' = "verify"
    <3>1. Len(tgt') = npast' + 1 + acc' /\ acc' <= Len(drafts')
      <4>1. acc \in Nat /\ acc < Len(drafts) /\ Len(drafts) \in Nat /\ npast \in Nat
        BY <1>1
      <4>2. acc + 1 <= Len(drafts) /\ npast + 1 + acc + 1 = npast + 1 + (acc + 1)
        BY ONLY <4>1
      <4>3. Len(tgt') = npast + 1 + acc + 1
        BY <1>5
      <4>4. QED BY ONLY <1>2, <4>2, <4>3
    <3>2. ASSUME NEW i \in 1..acc'
          PROVE  drafts'[i] = plain'[Len(out') + i]
      <4>1. CASE i = acc + 1
        <5>1. Len(out) + i = Len(out) + acc + 1
          BY <1>1, <4>1
        <5>2. QED BY <1>1, <1>2, <4>1, <5>1
      <4>2. CASE i \in 1..acc
        BY <1>2, <4>2 DEF Linked
      <4>3. QED BY <1>1, <1>2, <4>1, <4>2
    <3>3. pending = plain[Len(out)]
      BY DEF Linked
    <3>4. QED BY <1>1, <1>2, <2>2, <3>1, <3>2, <3>3 DEF Linked, Delivered
  <2>3. QED BY <1>8, <2>1, <2>2 DEF Fail, Finish
<1>12. QED BY <1>5, <1>9, <1>10, <1>11

-----------------------------------------------------------------------------
\* What a drafter that broke leaves in its cache is of the cache's type.
LEMMA TornType ==
  ASSUME TypeOK, NEW p \in Nat, TornRow(p) \/ TornBlock
  PROVE  /\ rows' \in [Positions -> {None, Noise} \union
                         [src : {"target"}, req : 0..MaxRequests, tok : AnyToken]]
         /\ filled' \in 0..NCtx
<1>1. /\ npast \in Nat /\ mode.extra \in {0, 1} /\ BlockSize \in Nat /\ NCtx \in Nat
      /\ filled \in 0..NCtx
  BY GenerateAssumption DEF TypeOK
<1>2. BlockStart + Block \in Nat
  BY <1>1 DEF BlockStart, Block
<1>3. CASE TornRow(p)
  BY <1>3 DEF TornRow, TypeOK
<1>4. CASE UNCHANGED draftCache
  BY <1>4 DEF draftCache, TypeOK
<1>5. CASE /\ BlockStart + Block <= NCtx
           /\ rows' = [q \in Positions |->
                         IF q \in BlockStart..(BlockStart + Block - 1) THEN Noise ELSE rows[q]]
           /\ filled' = MaxOf(filled, BlockStart + Block)
  <2>1. filled' \in 0..NCtx
    BY ONLY <1>1, <1>2, <1>5 DEF MaxOf
  <2>2. QED BY <1>5, <2>1 DEF TypeOK
<1>6. QED BY <1>3, <1>4, <1>5 DEF TornBlock

\* The forward that went before the drafter's error, if any, was of the reply's
\* next token.
LEMMA DrafterBreaksStep ==
  ASSUME IInv, DrafterBreaks
  PROVE  IInv'
<1> DEFINE Forwards(t, p) == /\ p \in Nat /\ t \in AnyToken
                             /\ p = Len(tgt) /\ t = TokenAt(p)
                             /\ Forwarded(t, p) /\ TornRow(p) /\ acc' \in Nat
<1>1. /\ UNCHANGED <<mode, req, plain, npast, pending, drafts, sent, out>>
      /\ Fail("draft") /\ pc # "idle"
  BY DEF DrafterBreaks, DraftError
<1>2. TypeOK /\ npast \in Nat /\ acc \in Nat /\ req.prompt \in Nat /\ pending \in AnyToken
  BY DEF IInv, TypeOK
<1>3. \/ \E t, p : Forwards(t, p)
      \/ UNCHANGED <<tgt, torn, acc>> /\ (TornRow(npast) \/ TornBlock)
  <2>1. CASE pc = "prefill" /\ Forwarded(Prompt, npast) /\ TornRow(npast) /\ UNCHANGED acc
    <3>1. Len(tgt) = npast /\ npast < req.prompt
      BY <2>1 DEF IInv, Linked
    <3>2. Prompt = TokenAt(npast) /\ Prompt \in AnyToken
      BY <3>1 DEF TokenAt, AnyToken
    <3>3. Forwards(Prompt, npast)
      BY <1>2, <2>1, <3>1, <3>2
    <3>4. QED BY <3>3
  <2>2. CASE pc = "forward" /\ Forwarded(pending, npast) /\ TornRow(npast) /\ UNCHANGED acc
    <3>1. /\ Delivered /\ Len(tgt) = npast /\ npast + 1 = req.prompt + Len(out)
          /\ pending = plain[Len(out)] /\ req.max \in Nat
      BY <2>2 DEF IInv, Linked, TypeOK
    <3>2. Len(out) \in Nat \ {0}
      BY ONLY <3>1 DEF Delivered
    <3>3. TokenAt(npast) = pending
      BY ONLY <1>2, <3>1, <3>2, TokenOfReply
    <3>4. Forwards(pending, npast)
      BY <1>2, <2>2, <3>1, <3>3
    <3>5. QED BY <3>4
  <2>3. CASE /\ pc = "verify" /\ Verified
             /\ Forwarded(drafts[acc + 1], npast + 1 + acc)
             /\ TornRow(npast + 1 + acc) /\ acc' = acc + 1
    <3>1. /\ acc < Len(drafts) /\ Argmax = drafts[acc + 1]
          /\ npast + 1 = req.prompt + Len(out) /\ Len(tgt) = npast + 1 + acc
          /\ Argmax = plain[Len(out) + acc + 1] /\ Argmax \in Token
          /\ Len(out) + acc \in 0..(Horizon - 1) /\ Horizon \in Nat
          /\ Len(out) \in Nat
      <4>1. Len(out) \in Nat /\ Horizon \in Nat
        BY <1>2, GenerateAssumption DEF TypeOK, Horizon
      <4>2. QED BY <2>3, <4>1, VerifyFacts DEF Verified
    <3>2. /\ npast + 1 + acc \in Nat /\ acc + 1 \in Nat
          /\ ~(npast + 1 + acc < req.prompt)
          /\ npast + 1 + acc - req.prompt + 1 = Len(out) + acc + 1
      <4>1. PICK n \in Nat, q \in Nat, l \in Nat, a \in Nat :
              n = npast /\ q = req.prompt /\ l = Len(out) /\ a = acc /\ n + 1 = q + l
        BY ONLY <1>2, <3>1
      <4>2. /\ n + 1 + a \in Nat /\ a + 1 \in Nat /\ ~(n + 1 + a < q)
            /\ n + 1 + a - q + 1 = l + a + 1
        BY ONLY <4>1
      <4>3. QED BY ONLY <4>1, <4>2
    <3>3. drafts[acc + 1] = TokenAt(npast + 1 + acc) /\ drafts[acc + 1] \in AnyToken
      BY <1>2, <3>1, <3>2 DEF TokenAt, AnyToken
    <3>4. Forwards(drafts[acc + 1], npast + 1 + acc)
      BY <2>3, <3>1, <3>2, <3>3
    <3>5. QED BY <3>4
  <2>4. QED BY <2>1, <2>2, <2>3 DEF DrafterBreaks
<1>4. /\ CachesHoldTheReply' /\ acc' \in Nat
      /\ tgt' \in Seq([tok : AnyToken, pos : Nat, req : 0..MaxRequests]) /\ torn' \in BOOLEAN
      /\ rows' \in [Positions -> {None, Noise} \union
                      [src : {"target"}, req : 0..MaxRequests, tok : AnyToken]]
      /\ filled' \in 0..NCtx
  <2>1. CASE \E t, p : Forwards(t, p)
    <3>1. PICK t, p : Forwards(t, p)
      BY <2>1
    <3>2. CachesHoldTheReply'
      BY <1>1, <3>1, CachesForwarded
    <3>3. QED BY <1>2, <3>1, <3>2, ForwardedType, TornType
  <2>2. CASE UNCHANGED <<tgt, torn, acc>> /\ (TornRow(npast) \/ TornBlock)
    <3>1. CachesHoldTheReply'
      BY <1>1, <2>2, CachesUntouched
    <3>2. QED BY <1>2, <2>2, <3>1, TornType DEF TypeOK
  <2>3. QED BY <1>3, <2>1, <2>2
<1>5. TypeOK'
  BY <1>1, <1>2, <1>4 DEF TypeOK, Fail, Finish, Phases, Reasons
<1>6. TokenIdentity' /\ Linked'
  BY <1>1 DEF IInv, TokenIdentity, Linked, Fail, Finish
<1>7. QED BY <1>4, <1>5, <1>6 DEF IInv

LEMMA RoundDoneStep ==
  ASSUME IInv, RoundDone
  PROVE  IInv'
<1>0. pc = "verify"
  BY DEF RoundDone
<1>1. /\ Len(out) \in 1..(req.max - 1)
      /\ npast + 1 = req.prompt + Len(out)
      /\ Len(tgt) = npast + 1 + acc
      /\ acc \in Nat /\ acc <= Len(drafts) /\ Len(drafts) \in Nat /\ Len(drafts) <= BlockSize
      /\ npast \in Nat /\ req.prompt \in Nat /\ req.max \in Nat
      /\ Argmax = plain[Len(out) + acc + 1]
      /\ Argmax \in Token
  BY <1>0, VerifyFacts
<1> USE DEF IInv, RoundDone, NextPast
<1>2. /\ UNCHANGED <<mode, req, plain, tgt, torn, rows, filled, drafts, acc, out, finish, reason>>
      /\ npast' = npast + acc + 1 /\ pending' = Argmax /\ sent' = 0 /\ pc' = "emit"
  BY DEF draftCache, reply
<1>3. TypeOK'
  <2>1. npast' \in Nat
    BY <1>1, <1>2
  <2>2. pending' \in AnyToken /\ pc' \in Phases /\ sent' \in Nat
    BY <1>1, <1>2 DEF AnyToken, Phases
  <2>3. QED BY <1>2, <2>1, <2>2 DEF TypeOK
<1>4. CachesHoldTheReply'
  BY <1>2, CachesUntouched
<1>5. TokenIdentity'
  BY <1>2 DEF TokenIdentity
<1>6. Linked'
  <2>1. /\ Len(out') < req'.max /\ sent' <= acc' /\ sent' <= Len(out') /\ acc' <= Len(drafts')
        /\ Len(drafts') <= BlockSize
        /\ Len(tgt') = npast'
        /\ npast' = req'.prompt + Len(out') + acc' - sent'
    <3>1. Len(out) < req.max /\ 0 <= acc /\ 0 <= Len(out) /\ npast + acc + 1 = npast + 1 + acc
      BY <1>1
    <3>2. npast + acc + 1 = req.prompt + Len(out) + acc - 0
      BY <1>1
    <3>3. acc <= Len(drafts) /\ Len(drafts) <= BlockSize /\ Len(tgt) = npast + 1 + acc
      BY <1>1
    <3>4. QED BY ONLY <1>2, <3>1, <3>2, <3>3
  <2>2. pending' = plain'[Len(out') + acc' - sent' + 1]
    <3>1. Len(out) + acc - 0 + 1 = Len(out) + acc + 1
      BY <1>1
    <3>2. QED BY <1>1, <1>2, <3>1
  <2>3. ASSUME NEW i \in 1..acc'
        PROVE  drafts'[i] = plain'[Len(out') - sent' + i]
    <3>1. drafts[i] = plain[Len(out) + i]
      BY <1>2 DEF Linked
    <3>2. Len(out) - 0 + i = Len(out) + i
      BY <1>1
    <3>3. QED BY <1>2, <3>1, <3>2
  <2>4. QED BY <1>2, <2>1, <2>2, <2>3 DEF Linked
<1>7. QED BY <1>3, <1>4, <1>5, <1>6

\* The numbers while the accepted drafts are offered.
LEMMA EmitFacts ==
  ASSUME IInv, pc = "emit"
  PROVE  /\ Len(out) < req.max /\ sent <= acc /\ sent <= Len(out) /\ acc <= Len(drafts)
         /\ Len(drafts) <= BlockSize
         /\ Len(tgt) = npast
         /\ npast = req.prompt + Len(out) + acc - sent
         /\ pending = plain[Len(out) + acc - sent + 1]
         /\ \A i \in 1..acc : drafts[i] = plain[Len(out) - sent + i]
         /\ Len(out) \in Nat /\ sent \in Nat /\ acc \in Nat /\ npast \in Nat
         /\ Len(drafts) \in Nat /\ req.prompt \in Nat /\ req.max \in Nat
<1>1. /\ Len(out) \in Nat /\ sent \in Nat /\ acc \in Nat /\ npast \in Nat
      /\ Len(drafts) \in Nat /\ req.prompt \in Nat /\ req.max \in Nat
  BY DEF IInv, TypeOK
<1>2. QED BY <1>1 DEF IInv, Linked

\* One more token delivered, one more draft offered: their difference stays.
LEMMA OfferedAndDelivered ==
  ASSUME NEW a \in Nat, NEW b \in Nat, NEW c \in Nat, NEW d \in Nat
  PROVE  /\ b + 1 + c - (d + 1) = b + c - d
         /\ a + (b + 1) + c - (d + 1) = a + b + c - d
OBVIOUS

LEMMA EmitDeliverStep ==
  ASSUME IInv, EmitDeliver
  PROVE  IInv'
<1>0. pc = "emit" /\ sent < acc /\ drafts[sent + 1] \notin Stop
  BY DEF EmitDeliver, IsStop
<1>k. \A i \in 1..acc : drafts[i] = plain[Len(out) - sent + i]
  BY <1>0, EmitFacts
<1>1. /\ Len(out) < req.max /\ sent < acc /\ sent <= Len(out) /\ acc <= Len(drafts)
      /\ Len(tgt) = npast
      /\ npast = req.prompt + Len(out) + acc - sent
      /\ pending = plain[Len(out) + acc - sent + 1]
      /\ Len(out) \in Nat /\ sent \in Nat /\ acc \in Nat /\ npast \in Nat
      /\ Len(drafts) \in Nat /\ Len(drafts) <= BlockSize
      /\ req.prompt \in Nat /\ req.max \in Nat
      /\ drafts[sent + 1] \notin Stop
  BY <1>0, EmitFacts
<1> USE DEF IInv, EmitDeliver
<1>n. Len(out) \in Nat /\ sent \in Nat /\ acc \in Nat /\ req.prompt \in Nat
  BY ONLY <1>1
<1>2. /\ UNCHANGED <<mode, req, plain, tgt, torn, rows, filled, npast, pending, drafts, acc>>
      /\ out' = Append(out, drafts[sent + 1]) /\ sent' = sent + 1
  BY DEF draftCache
<1>3. drafts[sent + 1] \in AnyToken /\ out \in Seq(AnyToken)
  BY <1>1 DEF TypeOK, AnyToken
<1>4. Len(out') = Len(out) + 1
  BY <1>2, <1>3
<1>5. /\ out' \in Seq(AnyToken)
      /\ out'[Len(out) + 1] = drafts[sent + 1]
      /\ \A i \in 1..Len(out) : out'[i] = out[i]
  BY <1>2, <1>3
<1>6. drafts[sent + 1] = plain[Len(out) + 1]
  <2>1. sent + 1 \in 1..acc /\ Len(out) - sent + (sent + 1) = Len(out) + 1
    BY ONLY <1>1
  <2>2. QED BY ONLY <1>k, <2>1
<1>7. \/ pc' = "emit" /\ Len(out) + 1 < req.max /\ UNCHANGED <<finish, reason>>
      \/ Finish("stop", "limit")
  <2>1. ~(Len(out) + 1 >= req.max) => Len(out) + 1 < req.max
    BY ONLY <1>1
  <2>2. QED BY <1>0, <2>1 DEF Spent
<1>8. TypeOK'
  <2>1. pc' \in Phases /\ finish' \in {"none", "stop", "length", "error"} /\ reason' \in Reasons
    BY <1>7 DEF Finish, TypeOK, Phases, Reasons
  <2>2. sent' \in Nat
    BY <1>1, <1>2
  <2>3. QED BY <1>2, <1>5, <2>1, <2>2 DEF TypeOK
<1>9. CachesHoldTheReply'
  BY <1>2, CachesUntouched
<1>10. TokenIdentity'
  <2>1. Len(out') <= req'.max
    BY ONLY <1>1, <1>2, <1>4
  <2>2. ASSUME NEW i \in 1..Len(out')
        PROVE  out'[i] = plain'[i] /\ out'[i] \notin Stop
    <3>1. CASE i = Len(out) + 1
      BY <1>1, <1>2, <1>5, <1>6, <3>1
    <3>2. CASE i \in 1..Len(out)
      BY <1>2, <1>5, <3>2 DEF TokenIdentity
    <3>3. QED BY <1>1, <1>4, <3>1, <3>2
  <2>3. QED BY <2>1, <2>2 DEF TokenIdentity
<1>11. Linked'
  <2>1. CASE pc' = "idle"
    BY <2>1 DEF Linked
  <2>2. CASE pc' = "emit" /\ Len(out) + 1 < req.max
    <3>1. /\ Len(out') < req'.max /\ sent' <= acc' /\ sent' <= Len(out')
          /\ acc' <= Len(drafts') /\ Len(drafts') <= BlockSize
          /\ Len(tgt') = npast'
      <4>1. sent + 1 <= acc /\ sent + 1 <= Len(out) + 1
        BY <1>1
      <4>2. acc <= Len(drafts) /\ Len(drafts) <= BlockSize /\ Len(tgt) = npast
        BY <1>1
      <4>3. sent' = sent + 1
        BY <1>2
      <4>4. QED BY ONLY <1>2, <1>4, <2>2, <4>1, <4>2, <4>3
    <3>2. Len(out') + acc' - sent' = Len(out) + acc - sent
      <4>1. Len(out) + 1 + acc - (sent + 1) = Len(out) + acc - sent
        BY ONLY <1>n, OfferedAndDelivered
      <4>2. acc' = acc /\ sent' = sent + 1
        BY ONLY <1>2
      <4>3. QED BY ONLY <1>4, <4>1, <4>2
    <3>3. npast' = req'.prompt + Len(out') + acc' - sent'
      <4>1. npast = req.prompt + (Len(out) + 1) + acc - (sent + 1)
        <5>1. npast = req.prompt + Len(out) + acc - sent
          BY <1>1
        <5>2. QED BY ONLY <5>1, <1>n, OfferedAndDelivered
      <4>2. UNCHANGED <<npast, req, acc>> /\ sent' = sent + 1
        BY ONLY <1>2
      <4>3. QED BY ONLY <1>4, <4>1, <4>2
    <3>4. pending' = plain'[Len(out') + acc' - sent' + 1]
      BY <1>1, <1>2, <3>2
    <3>5. ASSUME NEW i \in 1..acc'
          PROVE  drafts'[i] = plain'[Len(out') - sent' + i]
      <4>1. Len(out') - sent' + i = Len(out) - sent + i
        <5>1. i \in Int
          OBVIOUS
        <5>2. QED BY ONLY <1>1, <1>2, <1>4, <5>1
      <4>2. QED BY <1>k, <1>2, <4>1
    <3>6. QED BY <2>2, <3>1, <3>3, <3>4, <3>5 DEF Linked
  <2>3. QED BY <1>7, <2>1, <2>2 DEF Finish
<1>12. QED BY <1>8, <1>9, <1>10, <1>11

LEMMA EmitDoneStep ==
  ASSUME IInv, EmitDone
  PROVE  IInv'
<1> USE DEF IInv, EmitDone
<1>1. /\ Len(out) < req.max /\ sent = acc
      /\ Len(tgt) = npast
      /\ npast = req.prompt + Len(out) + acc - sent
      /\ pending = plain[Len(out) + acc - sent + 1]
      /\ Len(out) \in Nat /\ sent \in Nat /\ acc \in Nat /\ npast \in Nat /\ req.prompt \in Nat
  BY EmitFacts
<1>2. /\ UNCHANGED <<mode, req, plain, tgt, torn, rows, filled, npast, pending, drafts, acc,
                     sent, out, finish, reason>>
      /\ pc' = "top"
  BY DEF draftCache, round, reply
<1>3. TypeOK'
  BY <1>2 DEF TypeOK, Phases
<1>4. CachesHoldTheReply'
  BY <1>2, CachesUntouched
<1>5. TokenIdentity'
  BY <1>2 DEF TokenIdentity
<1>6. Linked'
  <2>1. npast = req.prompt + Len(out)
    BY <1>1
  <2>2. Len(out) + acc - sent + 1 = Len(out) + 1
    BY <1>1
  <2>3. pending = plain[Len(out) + 1]
    BY <1>1, <2>2
  <2>4. QED BY <1>1, <1>2, <2>1, <2>3 DEF Linked
<1>7. QED BY <1>3, <1>4, <1>5, <1>6

-----------------------------------------------------------------------------
LEMMA NextIInv == IInv /\ [Next]_vars => IInv'
<1> SUFFICES ASSUME IInv, [Next]_vars PROVE IInv'
  OBVIOUS
<1>1. CASE Refuse
  BY <1>1, RefuseStep
<1>2. ASSUME NEW r \in Requests, Start(r) PROVE IInv'
  BY <1>2, StartStep
<1>3. CASE Prefill
  BY <1>3, PrefillStep
<1>4. CASE ForwardFails
  BY <1>4, ForwardFailsStep
<1>5. CASE TopStop \/ TopRefused \/ EmitStop \/ EmitRefused
  BY <1>5, EndStep
  DEF TopStop, TopRefused, EmitStop, EmitRefused, draftCache, round, Reasons
<1>6. CASE TopDeliver
  BY <1>6, TopDeliverStep
<1>7. CASE PlainForward
  BY <1>7, PlainForwardStep
<1>8. CASE RoundForward
  BY <1>8, RoundForwardStep
<1>9. CASE ProposeFails
  BY <1>9, EndStep DEF ProposeFails, DraftError, Fail, draftCache, round, Reasons
<1>10. CASE Propose
  BY <1>10, ProposeStep
<1>11. CASE ObservePending
  BY <1>11, ObservePendingStep
<1>12. CASE Accept
  BY <1>12, AcceptStep
<1>13. CASE RoundDone
  BY <1>13, RoundDoneStep
<1>14. CASE EmitDeliver
  BY <1>14, EmitDeliverStep
<1>15. CASE EmitDone
  BY <1>15, EmitDoneStep
<1>16. CASE DrafterBreaks
  BY <1>16, DrafterBreaksStep
<1>17. CASE UNCHANGED vars
  <2>1. UNCHANGED <<mode, req, plain, pc, tgt, torn, rows, filled, npast, pending, drafts, acc,
                    sent, out, finish, reason>>
    BY <1>17 DEF vars
  <2>2. TypeOK'
    BY <2>1 DEF IInv, TypeOK
  <2>3. CachesHoldTheReply'
    BY <2>1 DEF IInv, CachesHoldTheReply, IsReply, Entry, TokenAt
  <2>4. TokenIdentity' /\ Linked'
    BY <2>1 DEF IInv, TokenIdentity, Linked, Delivered
  <2>5. QED BY <2>2, <2>3, <2>4 DEF IInv
<1>18. QED
  BY <1>1, <1>2, <1>3, <1>4, <1>5, <1>6, <1>7, <1>8, <1>9, <1>10, <1>11, <1>12, <1>13,
     <1>14, <1>15, <1>16, <1>17 DEF Next, Run

\* The inductive invariant holds in every reachable state.
THEOREM Invariance == Spec => []IInv
<1>1. QED BY InitIInv, NextIInv, PTL DEF Spec

\* Type correctness of Generate.
THEOREM TypeCorrect == Spec => []TypeOK
<1>1. IInv => TypeOK
  BY DEF IInv
<1>2. QED BY <1>1, Invariance, PTL

\* For every draft model and every sequence of proposals the reader gets a
\* prefix of the target's own continuation, without a stop token and within
\* max_tokens: speculation never changes what is delivered.
THEOREM SpeculationKeepsTokens == Spec => []TokenIdentity
<1>1. IInv => TokenIdentity
  BY DEF IInv
<1>2. QED BY <1>1, Invariance, PTL

\* The target's caches never hold anything but the reply's accepted sequence,
\* so no rollback is needed after a rejected draft.
THEOREM NoRollbackNeeded == Spec => []CachesHoldTheReply
<1>1. IInv => CachesHoldTheReply
  BY DEF IInv
<1>2. QED BY <1>1, Invariance, PTL

\* At every round boundary n_past, the caches and the pending token agree.
THEOREM BoundariesAgree == Spec => []RoundBoundary
<1>1. IInv => RoundBoundary
  BY DEF IInv, Linked, RoundBoundary
<1>2. QED BY <1>1, Invariance, PTL

\* The variables of the loop keep their types, and rounds begin where caches, reply
\* and pending token agree.
THEOREM LoopIsSound == Spec => []LoopInvariant
<1>1. TypeOK /\ RoundBoundary => LoopInvariant
  BY DEF LoopInvariant
<1>2. QED BY <1>1, TypeCorrect, BoundariesAgree, PTL

-----------------------------------------------------------------------------
(***************************************************************************)
(* What the draft model attends to, for every draft model, draft context,  *)
(* block size and combination of the switches.                             *)
(***************************************************************************)

\* The rows below n are the target's features of this reply's tokens.
RowsUpTo(n) == \A p \in Positions : p < n => rows[p] = Row(req.n, TokenAt(p))

\* How far the draft cache has got, at each place of the loop.
DraftLinked ==
  /\ pc = "prefill" /\ mode.drafter => RowsUpTo(npast) /\ filled = npast
  /\ pc \in {"forward", "propose", "observe", "verify", "emit"} => Speculative
  /\ pc = "plainForward" => ~Speculative
  /\ pc \in {"top", "forward", "emit"} /\ Speculative =>
       /\ RowsUpTo(npast)
       /\ filled = npast \/ (~mode.ref /\ filled = npast + 1)
  /\ pc = "propose" => RowsUpTo(BlockStart) /\ filled = BlockStart
  /\ pc = "observe" => /\ mode.ref
                       /\ RowsUpTo(npast)
                       /\ filled \in {npast, npast + 1}
  /\ pc = "verify" => /\ RowsUpTo(npast + 1 + acc)
                      /\ \/ filled = npast + 1 + acc
                         \/ ~mode.ref /\ acc = 0 /\ filled = npast + 2

DraftInv == IInv /\ DraftLinked

-----------------------------------------------------------------------------
\* Observing the reply's next token extends the rows by one.
LEMMA ObservedRows ==
  ASSUME TypeOK, NEW n \in Nat, RowsUpTo(n), NEW t, t = TokenAt(n), Observed(t, n),
         UNCHANGED <<req, plain>>
  PROVE  /\ \A p \in Positions : p < n + 1 => rows'[p] = Row(req'.n, TokenAt(p)')
         /\ filled' = MaxOf(filled, n + 1)
<1>1. /\ rows' = [rows EXCEPT ![n] = Row(req.n, t)]
      /\ filled' = MaxOf(filled, n + 1)
  BY DEF Observed
<1>2. ASSUME NEW p \in Positions, p < n + 1
      PROVE  rows'[p] = Row(req'.n, TokenAt(p)')
  <2>1. TokenAt(p)' = TokenAt(p)
    BY DEF TokenAt
  <2>2. DOMAIN rows = Positions
    BY DEF TypeOK
  <2>3. CASE p = n
    BY <1>1, <2>1, <2>2, <2>3
  <2>4. CASE p # n
    <3>1. p < n
      BY <1>2, <2>4, GenerateAssumption DEF Positions
    <3>2. rows'[p] = rows[p]
      BY <1>1, <2>2, <2>4
    <3>3. QED BY <2>1, <3>1, <3>2 DEF RowsUpTo
  <2>5. QED BY <2>3, <2>4
<1>3. QED BY <1>1, <1>2

\* The pending token of a round comes right after the caches of the reply.
LEMMA PendingToken ==
  ASSUME IInv, pc \in {"forward", "observe"}
  PROVE  pending = TokenAt(npast)
<1>1. /\ Len(out) \in 1..(req.max - 1)
      /\ npast + 1 = req.prompt + Len(out)
      /\ pending = plain[Len(out)]
  BY DEF IInv, Linked, Delivered
<1>2. npast \in Nat /\ req.prompt \in Nat /\ req.max \in Nat
  BY DEF IInv, TypeOK
<1>3. Len(out) \in Nat \ {0}
  BY <1>1, <1>2
<1>4. QED BY <1>1, <1>2, <1>3, TokenOfReply

\* Rows that are not written stay what they are.
LEMMA KeptRows ==
  ASSUME NEW n, RowsUpTo(n), UNCHANGED <<req, plain, rows>>
  PROVE  \A p \in Positions : p < n => rows'[p] = Row(req'.n, TokenAt(p)')
BY DEF RowsUpTo, TokenAt

\* A step to "idle" has nothing to show.
LEMMA IdleDraft == pc' = "idle" => DraftLinked'
BY DEF DraftLinked

-----------------------------------------------------------------------------
LEMMA PrefillDraft ==
  ASSUME DraftInv, Prefill
  PROVE  DraftLinked'
<1> USE DEF DraftInv, IInv
<1>1. /\ npast \in Nat /\ npast < req.prompt /\ TypeOK /\ pc = "prefill"
      /\ UNCHANGED <<mode, req, plain>>
  BY DEF Prefill, Linked, TypeOK
<1>2. CASE mode.drafter /\ ~Fits(npast)
  <2>1. pc' = "idle"
    BY <1>2 DEF Prefill, DraftError, Fail, Finish
  <2>2. QED BY <2>1, IdleDraft
<1>3. CASE ~mode.drafter
  <2>1. pc' \in {"prefill", "top"} /\ ~mode'.drafter
    BY <1>1, <1>3 DEF Prefill
  <2>2. QED BY <2>1 DEF DraftLinked, Speculative
<1>4. CASE mode.drafter /\ Fits(npast)
  <2>1. Observed(Prompt, npast) /\ npast' = npast + 1 /\ pc' \in {"prefill", "top"}
    BY <1>1, <1>4 DEF Prefill
  <2>2. Prompt = TokenAt(npast)
    BY <1>1 DEF TokenAt
  <2>3. RowsUpTo(npast) /\ filled = npast
    BY <1>1, <1>4 DEF DraftLinked
  <2>4. \A p \in Positions : p < npast + 1 => rows'[p] = Row(req'.n, TokenAt(p)')
    BY <1>1, <2>1, <2>2, <2>3, ObservedRows
  <2>5. filled' = MaxOf(filled, npast + 1)
    BY <2>1 DEF Observed
  <2>6. filled' = npast'
    BY ONLY <1>1, <2>1, <2>3, <2>5 DEF MaxOf
  <2>7. RowsUpTo(npast)'
    BY <2>1, <2>4 DEF RowsUpTo
  <2>8. QED BY <2>1, <2>6, <2>7 DEF DraftLinked
<1>5. QED BY <1>2, <1>3, <1>4

LEMMA RoundForwardDraft ==
  ASSUME DraftInv, RoundForward
  PROVE  DraftLinked'
<1> USE DEF DraftInv, IInv
<1>1. /\ npast \in Nat /\ TypeOK /\ pc = "forward" /\ mode.ref \in BOOLEAN
      /\ UNCHANGED <<mode, req, plain, npast>>
  BY GenerateAssumption DEF RoundForward, TypeOK
<1>2. /\ RowsUpTo(npast)
      /\ filled = npast \/ (~mode.ref /\ filled = npast + 1)
      /\ Speculative /\ Speculative'
  BY <1>1 DEF DraftLinked, Speculative
<1>3. CASE mode.ref
  <2>1. pc' = "propose" /\ UNCHANGED <<rows, filled>> /\ BlockStart' = npast
    BY <1>1, <1>3 DEF RoundForward, draftCache, BlockStart
  <2>2. filled' = BlockStart'
    BY <1>2, <1>3, <2>1
  <2>3. RowsUpTo(npast)'
    BY <1>1, <1>2, <2>1, KeptRows DEF RowsUpTo
  <2>4. RowsUpTo(BlockStart)'
    BY <1>1, <2>1, <2>3 DEF RowsUpTo
  <2>5. QED BY <1>2, <2>1, <2>2, <2>4 DEF DraftLinked
<1>4. CASE ~mode.ref /\ Fits(npast)
  <2>1. Observed(pending, npast) /\ pc' = "propose"
    BY <1>4 DEF RoundForward
  <2>2. BlockStart' = npast + 1
    BY <1>1, <1>4 DEF BlockStart
  <2>3. pending = TokenAt(npast)
    BY <1>1, PendingToken
  <2>4. /\ \A p \in Positions : p < npast + 1 => rows'[p] = Row(req'.n, TokenAt(p)')
        /\ filled' = MaxOf(filled, npast + 1)
    BY <1>1, <1>2, <2>1, <2>3, ObservedRows
  <2>5. filled' = npast + 1
    BY ONLY <1>1, <1>2, <2>4 DEF MaxOf
  <2>6. RowsUpTo(BlockStart)' /\ filled' = BlockStart'
    BY <2>2, <2>4, <2>5 DEF RowsUpTo
  <2>7. QED BY <1>2, <2>1, <2>6 DEF DraftLinked
<1>5. CASE ~mode.ref /\ ~Fits(npast)
  <2>1. pc' = "idle"
    BY <1>5 DEF RoundForward, DraftError, Fail, Finish
  <2>2. QED BY <2>1, IdleDraft
<1>6. QED BY <1>3, <1>4, <1>5

LEMMA ProposeDraft ==
  ASSUME DraftInv, Propose
  PROVE  DraftLinked'
<1> USE DEF DraftInv, IInv
<1>1. /\ npast \in Nat /\ TypeOK /\ pc = "propose" /\ mode.extra \in {0, 1}
      /\ BlockSize \in Nat \ {0} /\ UNCHANGED <<mode, req, plain, npast>> /\ acc' = 0
  BY GenerateAssumption DEF Propose, TypeOK
<1>2. RowsUpTo(BlockStart) /\ filled = BlockStart /\ Speculative /\ Speculative'
  BY <1>1 DEF DraftLinked, Speculative
<1>3. BlockStart \in Nat /\ Block \in Nat \ {0} /\ Keep \in {BlockStart, BlockStart + 1}
  BY <1>1 DEF BlockStart, Block, Keep
<1>4. filled' = Keep
  <2>1. filled' = MinOf(MaxOf(filled, BlockStart + Block), Keep)
    BY DEF Propose
  <2>2. QED BY ONLY <1>2, <1>3, <2>1 DEF MinOf, MaxOf
<1>5. ASSUME NEW p \in Positions, p < BlockStart
      PROVE  rows'[p] = Row(req'.n, TokenAt(p)')
  <2>1. p \notin BlockStart..(BlockStart + Block - 1)
    BY <1>3, <1>5, GenerateAssumption DEF Positions
  <2>2. rows'[p] = rows[p]
    BY <2>1 DEF Propose
  <2>3. rows[p] = Row(req.n, TokenAt(p))
    BY <1>2, <1>5 DEF RowsUpTo
  <2>4. TokenAt(p)' = TokenAt(p)
    BY <1>1 DEF TokenAt
  <2>5. QED BY <1>1, <2>2, <2>3, <2>4
<1>6. CASE mode.ref
  <2>1. pc' = "observe" /\ BlockStart = npast /\ mode'.ref
    BY <1>1, <1>6 DEF Propose, BlockStart
  <2>2. RowsUpTo(npast)' /\ filled' \in {npast', npast' + 1}
    BY <1>1, <1>3, <1>4, <1>5, <2>1 DEF RowsUpTo
  <2>3. QED BY <1>2, <2>1, <2>2 DEF DraftLinked
<1>7. CASE ~mode.ref
  <2>1. pc' = "verify" /\ BlockStart = npast + 1 /\ ~mode'.ref
    BY <1>1, <1>7 DEF Propose, BlockStart
  <2>2. npast' + 1 + acc' = npast + 1
    BY <1>1
  <2>3. RowsUpTo(npast + 1 + acc)'
    BY <1>5, <2>1, <2>2 DEF RowsUpTo
  <2>4. filled' = npast' + 1 + acc' \/ filled' = npast' + 2
    <3>1. filled' \in {npast + 1, npast + 1 + 1}
      BY <1>3, <1>4, <2>1
    <3>2. QED BY ONLY <1>1, <3>1
  <2>5. QED BY <1>1, <1>2, <2>1, <2>3, <2>4 DEF DraftLinked
<1>8. QED BY <1>6, <1>7

LEMMA ObservePendingDraft ==
  ASSUME DraftInv, ObservePending
  PROVE  DraftLinked'
<1> USE DEF DraftInv, IInv
<1>1. /\ npast \in Nat /\ TypeOK /\ pc = "observe" /\ acc = 0
      /\ UNCHANGED <<mode, req, plain, npast, acc>>
  BY DEF ObservePending, round, TypeOK, Linked
<1>2. /\ mode.ref /\ RowsUpTo(npast) /\ filled \in {npast, npast + 1}
      /\ Speculative /\ Speculative'
  BY <1>1 DEF DraftLinked, Speculative
<1>3. CASE Fits(npast)
  <2>1. Observed(pending, npast) /\ pc' = "verify"
    BY <1>3 DEF ObservePending
  <2>2. pending = TokenAt(npast)
    BY <1>1, PendingToken
  <2>3. /\ \A p \in Positions : p < npast + 1 => rows'[p] = Row(req'.n, TokenAt(p)')
        /\ filled' = MaxOf(filled, npast + 1)
    BY <1>1, <1>2, <2>1, <2>2, ObservedRows
  <2>4. filled' = npast + 1
    BY ONLY <1>1, <1>2, <2>3 DEF MaxOf
  <2>5. npast' + 1 + acc' = npast + 1
    BY <1>1
  <2>6. RowsUpTo(npast + 1 + acc)' /\ filled' = npast' + 1 + acc'
    BY <2>3, <2>4, <2>5 DEF RowsUpTo
  <2>7. QED BY <1>2, <2>1, <2>6 DEF DraftLinked
<1>4. CASE ~Fits(npast)
  <2>1. pc' = "idle"
    BY <1>4 DEF ObservePending, DraftError, Fail, Finish
  <2>2. QED BY <2>1, IdleDraft
<1>5. QED BY <1>3, <1>4

LEMMA AcceptDraft ==
  ASSUME DraftInv, Accept
  PROVE  DraftLinked'
<1> USE DEF DraftInv, IInv
<1>1. /\ npast \in Nat /\ acc \in Nat /\ TypeOK /\ pc = "verify"
      /\ UNCHANGED <<mode, req, plain, npast>> /\ acc' = acc + 1
  BY DEF Accept, TypeOK
<1>2. /\ RowsUpTo(npast + 1 + acc)
      /\ \/ filled = npast + 1 + acc
         \/ ~mode.ref /\ acc = 0 /\ filled = npast + 2
      /\ Speculative /\ Speculative'
  BY <1>1 DEF DraftLinked, Speculative
<1>3. CASE Fits(npast + 1 + acc)
  <2>1. Observed(drafts[acc + 1], npast + 1 + acc) /\ pc' = "verify"
    BY <1>1, <1>3 DEF Accept
  <2>2. drafts[acc + 1] = TokenAt(npast + 1 + acc)
    <3>1. /\ Argmax = plain[Len(out) + acc + 1]
          /\ npast + 1 = req.prompt + Len(out)
          /\ Len(out) \in Nat /\ req.prompt \in Nat
      BY <1>1, VerifyFacts
    <3>2. /\ npast + 1 + acc \in Nat
          /\ Len(out) + acc + 1 \in Nat \ {0}
          /\ npast + 1 + acc + 1 = req.prompt + (Len(out) + acc + 1)
      BY ONLY <1>1, <3>1
    <3>3. TokenAt(npast + 1 + acc) = plain[Len(out) + acc + 1]
      BY ONLY <3>1, <3>2, TokenOfReply
    <3>4. drafts[acc + 1] = Argmax
      BY DEF Accept, Verified
    <3>5. QED BY <3>1, <3>3, <3>4
  <2>3. npast + 1 + acc \in Nat
    BY <1>1
  <2>4. /\ \A p \in Positions : p < npast + 1 + acc + 1 => rows'[p] = Row(req'.n, TokenAt(p)')
        /\ filled' = MaxOf(filled, npast + 1 + acc + 1)
    BY <1>1, <1>2, <2>1, <2>2, <2>3, ObservedRows
  <2>5. npast' + 1 + acc' = npast + 1 + acc + 1
    BY <1>1
  <2>6. filled' = npast + 1 + acc + 1
    BY ONLY <1>1, <1>2, <2>4 DEF MaxOf
  <2>7. RowsUpTo(npast + 1 + acc)' /\ filled' = npast' + 1 + acc'
    BY <2>4, <2>5, <2>6 DEF RowsUpTo
  <2>8. QED BY <1>2, <2>1, <2>7 DEF DraftLinked
<1>4. CASE ~Fits(npast + 1 + acc)
  <2>1. pc' = "idle"
    BY <1>4 DEF Accept, DraftError, Fail, Finish
  <2>2. QED BY <2>1, IdleDraft
<1>5. QED BY <1>3, <1>4

LEMMA RoundDoneDraft ==
  ASSUME DraftInv, RoundDone
  PROVE  DraftLinked'
<1> USE DEF DraftInv, IInv
<1>1. /\ npast \in Nat /\ acc \in Nat /\ pc = "verify"
      /\ UNCHANGED <<mode, req, plain, rows, filled>>
      /\ npast' = npast + acc + 1 /\ pc' = "emit"
  BY DEF RoundDone, NextPast, draftCache, TypeOK
<1>2. /\ RowsUpTo(npast + 1 + acc)
      /\ \/ filled = npast + 1 + acc
         \/ ~mode.ref /\ acc = 0 /\ filled = npast + 2
      /\ Speculative /\ Speculative'
  BY <1>1 DEF DraftLinked, Speculative
<1>3. npast + 1 + acc = npast'
  BY <1>1
<1>4. RowsUpTo(npast)'
  BY <1>1, <1>2, <1>3, KeptRows DEF RowsUpTo
<1>5. filled' = npast' \/ (~mode'.ref /\ filled' = npast' + 1)
  BY ONLY <1>1, <1>2, <1>3
<1>6. QED BY <1>1, <1>2, <1>4, <1>5 DEF DraftLinked

\* Steps that touch neither the draft cache nor n_past.
LEMMA DraftUntouched ==
  ASSUME DraftInv,
         UNCHANGED <<mode, req, plain, rows, filled, npast>>,
         \/ pc' = "idle"
         \/ pc = "emit" /\ pc' \in {"top", "emit"}
         \/ pc = "top" /\ pc' = IF Speculative THEN "forward" ELSE "plainForward"
  PROVE  DraftLinked'
<1> USE DEF DraftInv
<1>1. CASE pc' = "idle"
  BY <1>1, IdleDraft
<1>2. CASE pc' = "plainForward"
  BY <1>2 DEF DraftLinked, Speculative
<1>3. CASE pc \in {"top", "emit"} /\ pc' \in {"top", "emit", "forward"}
  <2>1. Speculative' = Speculative
    BY DEF Speculative
  <2>2. pc' \in {"emit", "forward"} => Speculative'
    BY <1>3, <2>1 DEF DraftLinked
  <2>3. ASSUME Speculative'
        PROVE  RowsUpTo(npast)' /\ (filled' = npast' \/ (~mode'.ref /\ filled' = npast' + 1))
    <3>1. RowsUpTo(npast) /\ (filled = npast \/ (~mode.ref /\ filled = npast + 1))
      BY <1>3, <2>1, <2>3 DEF DraftLinked
    <3>2. RowsUpTo(npast)'
      BY <3>1, KeptRows DEF RowsUpTo
    <3>3. QED BY <3>1, <3>2
  <2>4. QED BY <1>3, <2>2, <2>3 DEF DraftLinked
<1>4. QED BY <1>1, <1>2, <1>3

-----------------------------------------------------------------------------
LEMMA InitDraft == Init => DraftInv
<1> SUFFICES ASSUME Init PROVE DraftLinked
  BY InitIInv DEF DraftInv
<1>1. QED BY DEF Init, DraftLinked

LEMMA NextDraft == DraftInv /\ [Next]_vars => DraftInv'
<1> SUFFICES ASSUME DraftInv, [Next]_vars PROVE DraftLinked'
  BY NextIInv DEF DraftInv
<1> USE DEF DraftInv
<1>1. CASE Refuse
  BY <1>1, IdleDraft DEF Refuse
<1>2. ASSUME NEW r \in Requests, Start(r) PROVE DraftLinked'
  <2>1. pc' = "prefill" /\ npast' = 0 /\ mode' = mode /\ (mode.drafter => filled' = 0)
    BY <1>2 DEF Start, Reset, ResetDrafts
  <2>2. RowsUpTo(npast)'
    BY <2>1, GenerateAssumption DEF RowsUpTo, Positions
  <2>3. QED BY <2>1, <2>2 DEF DraftLinked
<1>3. CASE ForwardFails
  BY <1>3, IdleDraft DEF ForwardFails, Fail, Finish
<1>4. CASE TopStop \/ TopRefused \/ EmitStop \/ EmitRefused
  BY <1>4, IdleDraft DEF TopStop, TopRefused, EmitStop, EmitRefused, Finish
<1>5. CASE TopDeliver
  <2>1. /\ UNCHANGED <<mode, req, plain, rows, filled, npast>>
        /\ pc = "top"
        /\ \/ pc' = "idle"
           \/ pc' = (IF Speculative THEN "forward" ELSE "plainForward")
    BY <1>5 DEF TopDeliver, Finish, draftCache
  <2>2. QED BY <2>1, DraftUntouched
<1>6. CASE PlainForward
  <2>1. pc = "plainForward" /\ pc' = "top" /\ UNCHANGED <<mode, req>>
    BY <1>6 DEF PlainForward
  <2>2. ~Speculative'
    BY <2>1 DEF DraftLinked, Speculative
  <2>3. QED BY <2>1, <2>2 DEF DraftLinked
<1>7. CASE ProposeFails \/ DrafterBreaks
  BY <1>7, IdleDraft DEF ProposeFails, DrafterBreaks, DraftError, Fail, Finish
<1>8. CASE EmitDeliver
  <2>1. /\ UNCHANGED <<mode, req, plain, rows, filled, npast>>
        /\ pc = "emit" /\ pc' \in {"idle", "emit"}
    BY <1>8 DEF EmitDeliver, Finish, draftCache
  <2>2. QED BY <2>1, DraftUntouched
<1>9. CASE EmitDone
  <2>1. /\ UNCHANGED <<mode, req, plain, rows, filled, npast>>
        /\ pc = "emit" /\ pc' = "top"
    BY <1>9 DEF EmitDone, draftCache
  <2>2. QED BY <2>1, DraftUntouched
<1>10. CASE UNCHANGED vars
  <2>1. UNCHANGED <<mode, req, plain, pc, rows, filled, npast, acc>>
    BY <1>10 DEF vars
  <2>2. QED BY <2>1 DEF DraftLinked, Speculative, RowsUpTo, TokenAt, BlockStart
<1>11. QED
  BY <1>1, <1>2, <1>3, <1>4, <1>5, <1>6, <1>7, <1>8, <1>9, <1>10, PrefillDraft,
     RoundForwardDraft, ProposeDraft, ObservePendingDraft, AcceptDraft, RoundDoneDraft
  DEF Next, Run

\* The draft cache is in step with the reply in every reachable state.
THEOREM DraftInvariance == Spec => []DraftInv
<1>1. QED BY InitDraft, NextDraft, PTL DEF Spec

\* Whatever was drafted and rejected before, in this reply or an earlier one,
\* draft_block attends to the target's features of this reply only: neither
\* draft noise nor rows of an earlier request is ever read below a block.
THEOREM DraftSeesReplyOnly == Spec => []DraftContext
<1>1. DraftInv => DraftContext
  BY DEF DraftInv, DraftLinked, DraftContext, RowsUpTo
<1>2. QED BY <1>1, DraftInvariance, PTL

-----------------------------------------------------------------------------
(***************************************************************************)
(* Where a reply ends.                                                     *)
(***************************************************************************)

\* Why a reply ended, and what it had delivered when it did.
Ended ==
  /\ pc # "idle" => reason = "none"
  /\ reason = "eos" => plain[Len(out) + 1] \in Stop
  /\ reason = "limit" => Len(out) = req.max
  /\ ContextSuffices => reason # "draft"

EndInv == IInv /\ Ended

\* A step inside the reply that does not end it has nothing to show.
LEMMA GoesOn ==
  ASSUME Ended, pc # "idle", UNCHANGED reason
  PROVE  Ended'
BY DEF Ended

\* A step that ends it, unless with a full reply, at a stop token or by the drafter.
LEMMA EndsOtherwise == pc' = "idle" /\ reason' \in {"gone", "target", "empty"} => Ended'
BY DEF Ended

\* Where the draft context suffices, every position of a round fits.
LEMMA PositionsFit ==
  ASSUME IInv, ContextSuffices
  PROVE  /\ pc = "prefill" => Fits(npast)
         /\ pc \in {"forward", "observe"} => Fits(npast)
         /\ pc = "propose" => mode.nDraft \in 1..BlockSize /\ BlockStart + Block <= NCtx
         /\ pc = "verify" /\ acc < Len(drafts) => Fits(npast + 1 + acc)
<1>1. /\ npast \in Nat /\ acc \in Nat /\ req.prompt \in Nat /\ req.max \in Nat \ {0}
      /\ mode.extra \in {0, 1} /\ BlockSize \in Nat \ {0} /\ NCtx \in Nat
      /\ Len(out) \in Nat /\ Len(drafts) \in Nat
  BY GenerateAssumption DEF IInv, TypeOK
<1>2. PICK b \in Nat \ {0} : b = Block /\ BlockSize <= b
  BY <1>1 DEF Block
<1>3. req.prompt + req.max + b <= NCtx /\ mode.nDraft \in 1..BlockSize
  BY <1>2 DEF ContextSuffices
<1>4. CASE pc = "prefill"
  <2>1. npast < req.prompt
    BY <1>4 DEF IInv, Linked
  <2>2. QED BY <1>1, <1>2, <1>3, <1>4, <2>1 DEF Fits
<1>5. CASE pc \in {"forward", "observe", "propose", "verify"}
  <2>1. npast + 1 = req.prompt + Len(out) /\ Len(out) <= req.max - 1
    BY <1>1, <1>5 DEF IInv, Linked, Delivered
  <2>2. npast + 2 + b <= NCtx
    BY <1>1, <1>2, <1>3, <2>1
  <2>3. Fits(npast)
    BY <1>1, <1>2, <2>2 DEF Fits
  <2>4. BlockStart + Block <= NCtx
    <3>1. BlockStart \in {npast, npast + 1}
      BY DEF BlockStart
    <3>2. QED BY <1>1, <1>2, <2>2, <3>1
  <2>5. pc = "verify" /\ acc < Len(drafts) => Fits(npast + 1 + acc)
    <3>1. pc = "verify" => Len(drafts) <= BlockSize
      BY DEF IInv, Linked
    <3>2. QED BY <1>1, <1>2, <2>2, <3>1 DEF Fits
  <2>6. QED BY <1>3, <1>5, <2>3, <2>4, <2>5
<1>6. QED BY <1>4, <1>5

\* The drafter's error, which needs a position that does not fit or a sidecar
\* that lacks something.
LEMMA DraftErrorEnds ==
  ASSUME DraftError, UNCHANGED <<mode, req>>, ~ContextSuffices
  PROVE  Ended'
<1>1. pc' = "idle" /\ reason' = "draft"
  BY DEF DraftError, Fail, Finish
<1>2. ~ContextSuffices'
  BY DEF ContextSuffices, Block
<1>3. QED BY <1>1, <1>2 DEF Ended

LEMMA InitEnds == Init => EndInv
<1>1. Init => Ended
  BY DEF Init, Ended
<1>2. QED BY <1>1, InitIInv DEF EndInv

LEMMA NextEnds == EndInv /\ [Next]_vars => EndInv'
<1> SUFFICES ASSUME EndInv, [Next]_vars PROVE Ended'
  BY NextIInv DEF EndInv
<1> USE DEF EndInv
<1>1. /\ Len(out) \in Nat /\ req.max \in Nat /\ out \in Seq(AnyToken) /\ pending \in AnyToken
  BY GenerateAssumption DEF IInv, TypeOK
<1>2. CASE Refuse
  BY <1>2, EndsOtherwise DEF Refuse
<1>3. ASSUME NEW r \in Requests, Start(r) PROVE Ended'
  BY <1>3 DEF Start, Ended
<1>4. CASE ForwardFails
  BY <1>4, EndsOtherwise DEF ForwardFails, Fail, Finish
<1>5. CASE TopRefused \/ EmitRefused
  BY <1>5, EndsOtherwise DEF TopRefused, EmitRefused, Finish
<1>6. CASE TopStop
  <2>1. pending \in Stop /\ pending = plain[Len(out) + 1]
    BY <1>6 DEF TopStop, IsStop, IInv, Linked
  <2>2. pc' = "idle" /\ reason' = "eos" /\ UNCHANGED <<plain, out>>
    BY <1>6 DEF TopStop, Finish
  <2>3. QED BY <2>1, <2>2 DEF Ended
<1>7. CASE EmitStop
  <2>1. /\ drafts[sent + 1] \in Stop /\ sent < acc /\ sent \in Nat /\ acc \in Nat
        /\ \A i \in 1..acc : drafts[i] = plain[Len(out) - sent + i]
    BY <1>7 DEF EmitStop, IsStop, IInv, Linked, TypeOK
  <2>2. sent + 1 \in 1..acc /\ Len(out) - sent + (sent + 1) = Len(out) + 1
    BY <1>1, <2>1
  <2>3. plain[Len(out) + 1] \in Stop
    BY <2>1, <2>2
  <2>4. pc' = "idle" /\ reason' = "eos" /\ UNCHANGED <<plain, out>>
    BY <1>7 DEF EmitStop, Finish
  <2>5. QED BY <2>3, <2>4 DEF Ended
<1>8. ASSUME NEW t \in AnyToken, NEW f, pc # "idle", Len(out) < req.max, UNCHANGED req,
             out' = Append(out, t),
             IF Spent THEN Finish(f, "limit") ELSE UNCHANGED reason
      PROVE  Ended'
  <2>1. CASE Spent
    <3>1. Len(out') = Len(out) + 1
      BY <1>1, <1>8
    <3>2. Len(out') = req'.max
      BY <1>1, <1>8, <2>1, <3>1 DEF Spent
    <3>3. pc' = "idle" /\ reason' = "limit"
      BY <1>8, <2>1 DEF Finish
    <3>4. QED BY <3>2, <3>3 DEF Ended
  <2>2. CASE ~Spent
    BY <1>8, <2>2, GoesOn
  <2>3. QED BY <2>1, <2>2
<1>9. CASE TopDeliver
  <2>1. pc = "top" /\ Len(out) < req.max
    BY <1>9 DEF TopDeliver, IInv, Linked
  <2>2. /\ UNCHANGED req /\ out' = Append(out, pending)
        /\ IF Spent THEN Finish("length", "limit") ELSE UNCHANGED reason
    BY <1>9 DEF TopDeliver
  <2>3. QED BY <1>1, <1>8, <2>1, <2>2
<1>10. CASE EmitDeliver
  <2>1. /\ pc = "emit" /\ Len(out) < req.max /\ sent \in Nat /\ acc \in Nat /\ sent < acc
        /\ acc <= Len(drafts) /\ drafts \in Seq(Token)
    BY <1>10 DEF EmitDeliver, IInv, Linked, TypeOK
  <2>2. drafts[sent + 1] \in AnyToken
    <3>1. sent + 1 \in 1..Len(drafts)
      BY <2>1
    <3>2. QED BY <2>1, <3>1 DEF AnyToken
  <2>3. /\ UNCHANGED req /\ out' = Append(out, drafts[sent + 1])
        /\ IF Spent THEN Finish("stop", "limit") ELSE UNCHANGED reason
    BY <1>10 DEF EmitDeliver
  <2>4. QED BY <1>1, <1>8, <2>1, <2>2, <2>3
<1>11. CASE PlainForward \/ EmitDone
  BY <1>11, GoesOn DEF PlainForward, EmitDone, reply
<1>12. CASE Propose \/ RoundDone
  BY <1>12, GoesOn DEF Propose, RoundDone, reply
<1>13. CASE ProposeFails
  <2>1. ~(mode.nDraft \in 1..BlockSize /\ BlockStart + Block <= NCtx)
    <3>1. /\ npast \in Nat /\ mode.extra \in {0, 1}
          /\ BlockSize \in Nat \ {0} /\ NCtx \in Nat
      BY GenerateAssumption DEF IInv, TypeOK
    <3>2. BlockStart \in Nat /\ Block \in Nat
      BY <3>1 DEF BlockStart, Block
    <3>3. QED BY <1>13, <3>1, <3>2 DEF ProposeFails
  <2>2. QED BY <1>13, <2>1, PositionsFit, DraftErrorEnds DEF ProposeFails
<1>14. CASE DrafterBreaks
  BY <1>14, DraftErrorEnds DEF DrafterBreaks, ContextSuffices
<1>15. CASE Prefill
  <2>1. pc = "prefill" /\ UNCHANGED <<mode, req>>
    BY <1>15 DEF Prefill
  <2>2. CASE mode.drafter /\ ~Fits(npast)
    BY <1>15, <2>1, <2>2, PositionsFit, DraftErrorEnds DEF Prefill
  <2>3. CASE ~(mode.drafter /\ ~Fits(npast))
    BY <1>15, <2>1, <2>3, GoesOn DEF Prefill, reply
  <2>4. QED BY <2>2, <2>3
<1>16. CASE RoundForward
  <2>1. pc = "forward" /\ UNCHANGED <<mode, req>>
    BY <1>16 DEF RoundForward
  <2>2. CASE mode.ref \/ Fits(npast)
    BY <1>16, <2>1, <2>2, GoesOn DEF RoundForward
  <2>3. CASE ~mode.ref /\ ~Fits(npast)
    BY <1>16, <2>1, <2>3, PositionsFit, DraftErrorEnds DEF RoundForward
  <2>4. QED BY <2>2, <2>3
<1>17. CASE ObservePending
  <2>1. pc = "observe" /\ UNCHANGED <<mode, req>>
    BY <1>17 DEF ObservePending
  <2>2. CASE Fits(npast)
    BY <1>17, <2>1, <2>2, GoesOn DEF ObservePending
  <2>3. CASE ~Fits(npast)
    BY <1>17, <2>1, <2>3, PositionsFit, DraftErrorEnds DEF ObservePending
  <2>4. QED BY <2>2, <2>3
<1>18. CASE Accept
  <2>1. pc = "verify" /\ acc < Len(drafts) /\ UNCHANGED <<mode, req>>
    BY <1>18 DEF Accept, Verified
  <2>2. CASE Fits(npast + 1 + acc)
    BY <1>18, <2>1, <2>2, GoesOn DEF Accept
  <2>3. CASE ~Fits(npast + 1 + acc)
    BY <1>18, <2>1, <2>3, PositionsFit, DraftErrorEnds DEF Accept
  <2>4. QED BY <2>2, <2>3
<1>19. CASE UNCHANGED vars
  <2>1. UNCHANGED <<mode, req, plain, pc, out, reason>>
    BY <1>19 DEF vars
  <2>2. QED BY <2>1 DEF Ended, ContextSuffices, Block
<1>20. QED
  BY <1>2, <1>3, <1>4, <1>5, <1>6, <1>7, <1>9, <1>10, <1>11, <1>12, <1>13, <1>15, <1>16,
     <1>14, <1>17, <1>18, <1>19
  DEF Next, Run

\* A speculative reply ends where a plain one does (src/spec.rs:3-5): at
\* max_tokens or at the target's stop token, whichever drafts were accepted;
\* and where the draft context holds prompt, reply and one block and the sidecar
\* lacks nothing, the drafter never ends it (the check at dspark.rs:721 is never
\* met).  Either condition dropped, it may: generate_context shows the first.
THEOREM EndsAsPlainDoes == Spec => []EndsWhereContextSuffices
<1>1. EndInv => EndsWhereContextSuffices
  BY DEF EndInv, Ended, EndsWhereContextSuffices, EndsAsPlain
<1>2. Spec => []EndInv
  BY InitEnds, NextEnds, PTL DEF Spec
<1>3. QED BY <1>1, <1>2, PTL

-----------------------------------------------------------------------------
(***************************************************************************)
(* Generate implements the safety part of GreedyDecode: a reply is the     *)
(* target's own tokens in order, whichever loop produced them.             *)
(***************************************************************************)

\* The abstract reply a step may change.
GreedyView == <<plain, req.max, out, ReplyState>>

\* Between two replies the abstract state is a final one.
LEMMA IdleState ==
  ASSUME TypeOK, pc = "idle"
  PROVE  ReplyState \in Greedy!Ended \union {"idle"}
BY DEF TypeOK, ReplyState, Reasons, Greedy!Ended

LEMMA RunningState == pc # "idle" => ReplyState = "running"
BY DEF ReplyState

\* A step that keeps the reply and only moves within the loop is a stutter.
LEMMA Stutter ==
  ASSUME pc # "idle", pc' # "idle", UNCHANGED <<plain, req, out>>
  PROVE  UNCHANGED GreedyView
BY DEF GreedyView, ReplyState

\* Ending without the next token: a stop token, a reader gone or an error.
LEMMA EndRefines ==
  ASSUME IInv, pc # "idle", pc' = "idle", UNCHANGED <<plain, req, out>>,
         \/ reason' \in {"gone", "target", "draft"}
         \/ reason' = "eos" /\ plain[Len(out) + 1] \in Stop
  PROVE  Greedy!Next
<1>1. ReplyState = "running"
  BY RunningState
<1>2. CASE reason' \in {"gone", "target", "draft"}
  <2>1. ReplyState' \in {"gone", "error"}
    BY <1>2 DEF ReplyState
  <2>2. QED BY <1>1, <2>1 DEF Greedy!Next, Greedy!CutShort
<1>3. CASE reason' = "eos" /\ plain[Len(out) + 1] \in Stop
  <2>1. ReplyState' = "eos"
    BY <1>3 DEF ReplyState
  <2>2. QED BY <1>1, <1>3, <2>1 DEF Greedy!Next, Greedy!HitStop
<1>4. QED BY <1>2, <1>3

\* Delivering the target's next token.
LEMMA DeliverRefines ==
  ASSUME IInv, pc # "idle", UNCHANGED <<plain, req>>,
         Len(out) < req.max, plain[Len(out) + 1] \notin Stop,
         out' = Append(out, plain[Len(out) + 1]),
         IF Len(out) + 1 >= req.max THEN pc' = "idle" /\ reason' = "limit"
         ELSE pc' # "idle"
  PROVE  Greedy!Next
<1>1. ReplyState = "running"
  BY RunningState
<1>2. Len(out) \in Nat /\ req.max \in Nat
  BY GenerateAssumption DEF IInv, TypeOK
<1>3. Len(out) + 1 >= req.max <=> Len(out) + 1 = req.max
  BY ONLY <1>2, Len(out) < req.max
<1>4. ReplyState' = IF Len(out) + 1 = req.max THEN "limit" ELSE "running"
  <2>1. CASE Len(out) + 1 = req.max
    BY <1>3, <2>1 DEF ReplyState
  <2>2. CASE Len(out) + 1 # req.max
    BY <1>3, <2>2 DEF ReplyState
  <2>3. QED BY <2>1, <2>2
<1>5. QED BY <1>1, <1>4 DEF Greedy!Next, Greedy!Deliver

\* The accepted draft offered next is the reply's next token.
LEMMA EmittedToken ==
  ASSUME IInv, pc = "emit", sent < acc
  PROVE  drafts[sent + 1] = plain[Len(out) + 1]
<1>1. /\ sent \in Nat /\ acc \in Nat /\ Len(out) \in Nat
      /\ \A i \in 1..acc : drafts[i] = plain[Len(out) - sent + i]
  BY EmitFacts
<1>2. sent + 1 \in 1..acc /\ Len(out) - sent + (sent + 1) = Len(out) + 1
  BY <1>1
<1>3. QED BY <1>1, <1>2

-----------------------------------------------------------------------------
LEMMA InitRefines == Init => Greedy!Init
BY GenerateAssumption DEF Init, Greedy!Init, ReplyState

LEMMA NextRefines == IInv /\ [Next]_vars => [Greedy!Next]_GreedyView
<1> SUFFICES ASSUME IInv, [Next]_vars PROVE Greedy!Next \/ UNCHANGED GreedyView
  OBVIOUS
<1>1. CASE Refuse
  <2>1. ReplyState \in Greedy!Ended \union {"idle"}
    BY <1>1, IdleState DEF Refuse, IInv
  <2>2. /\ out' = <<>> /\ ReplyState' = "error" /\ UNCHANGED <<plain, req>>
    BY <1>1 DEF Refuse, ReplyState
  <2>3. QED BY <2>1, <2>2 DEF Greedy!Next, Greedy!Refused
<1>2. ASSUME NEW r \in Requests, Start(r) PROVE Greedy!Next
  <2>1. ReplyState \in Greedy!Ended \union {"idle"}
    BY <1>2, IdleState DEF Start, IInv
  <2>2. /\ out' = <<>> /\ ReplyState' = "running"
        /\ plain' \in [1..Horizon -> Token] /\ req'.max \in 1..MaxTokens
    BY <1>2 DEF Start, ReplyState, Requests
  <2>3. QED BY <2>1, <2>2 DEF Greedy!Next, Greedy!Begin
<1>3. CASE ForwardFails
  <2>1. pc # "idle" /\ pc' = "idle" /\ reason' = "target" /\ UNCHANGED <<plain, req, out>>
    BY <1>3 DEF ForwardFails, Fail, Finish
  <2>2. QED BY <2>1, EndRefines
<1>4. CASE \/ Prefill \/ RoundForward \/ ObservePending \/ Accept
             \/ ProposeFails \/ DrafterBreaks
  <2>1. /\ pc # "idle" /\ UNCHANGED <<plain, req, out>>
        /\ pc' # "idle" \/ (pc' = "idle" /\ reason' = "draft")
    BY <1>4 DEF Prefill, RoundForward, ObservePending, Accept, ProposeFails,
                DrafterBreaks, DraftError, Fail, Finish, reply, round
  <2>2. QED BY <2>1, EndRefines, Stutter
<1>5. CASE PlainForward \/ Propose \/ RoundDone \/ EmitDone
  <2>1. pc # "idle" /\ pc' # "idle" /\ UNCHANGED <<plain, req, out>>
    BY <1>5 DEF PlainForward, Propose, RoundDone, EmitDone, reply
  <2>2. QED BY <2>1, Stutter
<1>6. CASE TopRefused \/ EmitRefused
  <2>1. pc # "idle" /\ pc' = "idle" /\ reason' = "gone" /\ UNCHANGED <<plain, req, out>>
    BY <1>6 DEF TopRefused, EmitRefused, Finish
  <2>2. QED BY <2>1, EndRefines
<1>7. CASE TopStop
  <2>1. pending = plain[Len(out) + 1]
    BY <1>7 DEF IInv, Linked, TopStop
  <2>2. /\ pc # "idle" /\ pc' = "idle" /\ UNCHANGED <<plain, req, out>>
        /\ reason' = "eos" /\ plain[Len(out) + 1] \in Stop
    BY <1>7, <2>1 DEF TopStop, IsStop, Finish
  <2>3. QED BY <2>2, EndRefines
<1>8. CASE EmitStop
  <2>1. drafts[sent + 1] = plain[Len(out) + 1]
    BY <1>8, EmittedToken DEF EmitStop
  <2>2. /\ pc # "idle" /\ pc' = "idle" /\ UNCHANGED <<plain, req, out>>
        /\ reason' = "eos" /\ plain[Len(out) + 1] \in Stop
    BY <1>8, <2>1 DEF EmitStop, IsStop, Finish
  <2>3. QED BY <2>2, EndRefines
<1>9. CASE TopDeliver
  <2>1. pending = plain[Len(out) + 1] /\ Len(out) < req.max
    BY <1>9 DEF IInv, Linked, TopDeliver
  <2>2. /\ pc # "idle" /\ UNCHANGED <<plain, req>>
        /\ plain[Len(out) + 1] \notin Stop
        /\ out' = Append(out, plain[Len(out) + 1])
        /\ IF Len(out) + 1 >= req.max THEN pc' = "idle" /\ reason' = "limit"
           ELSE pc' # "idle"
    BY <1>9, <2>1 DEF TopDeliver, IsStop, Spent, Finish
  <2>3. QED BY <2>1, <2>2, DeliverRefines
<1>10. CASE EmitDeliver
  <2>1. drafts[sent + 1] = plain[Len(out) + 1] /\ Len(out) < req.max
    BY <1>10, EmittedToken, EmitFacts DEF EmitDeliver
  <2>2. /\ pc # "idle" /\ UNCHANGED <<plain, req>>
        /\ plain[Len(out) + 1] \notin Stop
        /\ out' = Append(out, plain[Len(out) + 1])
        /\ IF Len(out) + 1 >= req.max THEN pc' = "idle" /\ reason' = "limit"
           ELSE pc' # "idle"
    BY <1>10, <2>1 DEF EmitDeliver, IsStop, Spent, Finish
  <2>3. QED BY <2>1, <2>2, DeliverRefines
<1>11. CASE UNCHANGED vars
  BY <1>11 DEF vars, GreedyView, ReplyState
<1>12. QED
  BY <1>1, <1>2, <1>3, <1>4, <1>5, <1>6, <1>7, <1>8, <1>9, <1>10, <1>11 DEF Next, Run

\* Every step of a generation, speculative or plain, is a step of GreedyDecode
\* or leaves what the reader sees unchanged.
THEOREM GenerateImplementsGreedy == Spec => Greedy!Init /\ [][Greedy!Next]_GreedyView
<1>1. QED BY InitRefines, NextRefines, Invariance, PTL DEF Spec
=============================================================================
