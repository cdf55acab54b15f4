--------------------------------- MODULE Chat ---------------------------------
(***************************************************************************)
(* bonsai-run (src/main.rs): one prompt, one reply on standard output, by  *)
(* plain decoding or, where a draft model is given and nothing is drawn at *)
(* random, by the rounds of spec::round.  It counts positions and tokens   *)
(* in its own way, and is held to the promise of Engine::generate.         *)
(*                                                                         *)
(* As in Generate, the target's choice after a context is the next token   *)
(* of "reply" when the caches hold the prompt and the reply so far, each   *)
(* token at its position.  A round verifies its drafts one forward at a     *)
(* time; Generate has the draft model's side of it, and where its context  *)
(* ends.                                                                   *)
(***************************************************************************)
EXTENDS Integers, Sequences

CONSTANTS
  Vocab,      \* the tokens of a reply
  StopIds,    \* the chat end markers and eos
  PromptTok,  \* stands for any token of the prompt
  WrongTok,   \* the target's choice after any other context
  PromptLens,   \* tokens of a prompt, 0 among them
  Predicts,   \* values of --n-predict
  MaxPredict, \* the largest of them
  MaxDraft    \* the longest proposal

ASSUME ChatAssumption ==
  /\ StopIds \subseteq Vocab /\ PromptTok \notin Vocab /\ WrongTok \notin Vocab
  /\ PromptLens \subseteq Nat /\ MaxDraft \in Nat
  /\ MaxPredict \in Nat \ {0} /\ Predicts \subseteq 0..MaxPredict

VARIABLES
  chAt,      \* "begin", "prefill", "top", "next", "round", "emit", "ended" or "off"
  cli,       \* the arguments: tokens of the prompt, n_predict, drafting, temp > 0
  reply,     \* what the target picks or draws, one after the other
  caches,    \* the target's caches: token and position of each forward
  nPast,     \* n_past of the speculative loop
  pick,      \* pending, or id: chosen and not yet printed
  drafted,   \* the round's accepted drafts that are not printed yet
  printed,    \* the tokens on standard output (n_gen is their number)
  ending     \* "none", "eos", "limit" or "error"

chVars == <<chAt, cli, reply, caches, nPast, pick, drafted, printed, ending>>

ChHorizon == MaxPredict + MaxDraft + 2

\* The sidecar is loaded only where the temperature is 0.
Drafting == cli.sidecar /\ ~cli.random

TokenOf(i) == IF i < cli.prompt THEN PromptTok ELSE reply[i - cli.prompt + 1]
Choice(ctx) ==
  IF /\ Len(ctx) \in cli.prompt..(cli.prompt + ChHorizon - 1)
     /\ \A i \in 1..Len(ctx) : ctx[i] = <<TokenOf(i - 1), i - 1>>
  THEN TokenOf(Len(ctx)) ELSE WrongTok
\* A round compares and picks by argmax, whatever the sampler would draw.
Argmax(ctx) == IF cli.random THEN WrongTok ELSE Choice(ctx)

-----------------------------------------------------------------------------
ChRest == /\ caches = <<>> /\ nPast = 0 /\ pick = PromptTok /\ drafted = <<>>
          /\ printed = <<>> /\ ending = "none"
Args == [prompt : PromptLens, predict : Predicts, sidecar : BOOLEAN, random : BOOLEAN]

ChInit == chAt = "begin" /\ cli \in Args /\ reply \in [1..ChHorizon -> Vocab] /\ ChRest
ChIdle ==
  /\ chAt = "off" /\ cli = (CHOOSE c \in Args : c.prompt = 0)
  /\ reply = [i \in 1..ChHorizon |-> CHOOSE t \in Vocab : TRUE] /\ ChRest

End(how) == chAt' = "ended" /\ ending' = how

\* A prompt without a token ends the program.
NoPrompt ==
  /\ chAt = "begin" /\ cli.prompt = 0
  /\ End("error")
  /\ UNCHANGED <<cli, reply, caches, nPast, pick, drafted, printed>>

BeginPrefill ==
  /\ chAt = "begin" /\ cli.prompt > 0
  /\ chAt' = "prefill"
  /\ UNCHANGED <<cli, reply, caches, nPast, pick, drafted, printed, ending>>

\* The prompt's tokens in turn; then the first choice, by the sampler.
PrefillNext ==
  /\ chAt = "prefill" /\ Len(caches) < cli.prompt
  /\ caches' = Append(caches, <<PromptTok, Len(caches)>>)
  /\ UNCHANGED <<chAt, cli, reply, nPast, pick, drafted, printed, ending>>

FirstChoice ==
  /\ chAt = "prefill" /\ Len(caches) = cli.prompt
  /\ pick' = Choice(caches) /\ nPast' = cli.prompt
  /\ chAt' = "top"
  /\ UNCHANGED <<cli, reply, caches, drafted, printed, ending>>

\* Any forward, head or draft that fails ends the program.
ChError ==
  /\ chAt \in {"prefill", "next", "round"}
  /\ End("error")
  /\ UNCHANGED <<cli, reply, caches, nPast, pick, drafted, printed>>

\* The head of both loops: a stop token ends the reply; another is printed, and
\* ends it too when it is the last one asked for.
Budget == Len(printed) + 1 >= cli.predict
TopStops ==
  /\ chAt = "top" /\ pick \in StopIds
  /\ End("eos")
  /\ UNCHANGED <<cli, reply, caches, nPast, pick, drafted, printed>>

TopWrites ==
  /\ chAt = "top" /\ pick \notin StopIds
  /\ printed' = Append(printed, pick)
  /\ IF Budget THEN End("limit") ELSE chAt' = "next" /\ UNCHANGED ending
  /\ UNCHANGED <<cli, reply, caches, nPast, pick, drafted>>

\* forward_hidden at toks.len() + n_gen - 1, and the next draw.
PlainNext ==
  /\ chAt = "next" /\ ~Drafting
  /\ LET ctx == Append(caches, <<pick, cli.prompt + Len(printed) - 1>>)
     IN  caches' = ctx /\ pick' = Choice(ctx)
  /\ chAt' = "top"
  /\ UNCHANGED <<cli, reply, nPast, drafted, printed, ending>>

\* spec::round: the pending token at n_past.
RoundForward ==
  /\ chAt = "next" /\ Drafting
  /\ caches' = Append(caches, <<pick, nPast>>)
  /\ chAt' = "round"
  /\ UNCHANGED <<cli, reply, nPast, pick, drafted, printed, ending>>

\* The next draft, whatever it is, is forwarded if the target agrees with it.
RoundAccept ==
  /\ chAt = "round" /\ Len(drafted) < MaxDraft
  /\ \E draft \in Vocab :
       /\ draft = Argmax(caches)
       /\ caches' = Append(caches, <<draft, nPast + 1 + Len(drafted)>>)
       /\ drafted' = Append(drafted, draft)
  /\ UNCHANGED <<chAt, cli, reply, nPast, pick, printed, ending>>

\* The pending token was forwarded too.
Advanced_Drafts(accepted) == nPast + accepted
Advanced(accepted) == nPast + accepted + 1

\* The first draft that does not agree, or their end: the target's own token.
RoundDone ==
  /\ chAt = "round"
  /\ pick' = Argmax(caches) /\ nPast' = Advanced(Len(drafted))
  /\ chAt' = "emit"
  /\ UNCHANGED <<cli, reply, caches, drafted, printed, ending>>

\* The accepted drafts, under the same two tests.
EmitStops ==
  /\ chAt = "emit" /\ drafted # <<>> /\ Head(drafted) \in StopIds
  /\ End("eos")
  /\ UNCHANGED <<cli, reply, caches, nPast, pick, drafted, printed>>

EmitWrites ==
  /\ chAt = "emit" /\ drafted # <<>> /\ Head(drafted) \notin StopIds
  /\ printed' = Append(printed, Head(drafted)) /\ drafted' = Tail(drafted)
  /\ IF Budget THEN End("limit") ELSE UNCHANGED <<chAt, ending>>
  /\ UNCHANGED <<cli, reply, caches, nPast, pick>>

EmitDone ==
  /\ chAt = "emit" /\ drafted = <<>>
  /\ chAt' = "top"
  /\ UNCHANGED <<cli, reply, caches, nPast, pick, drafted, printed, ending>>

ChNext ==
  \/ NoPrompt \/ BeginPrefill \/ PrefillNext \/ FirstChoice \/ ChError
  \/ TopStops \/ TopWrites \/ PlainNext \/ RoundForward \/ RoundAccept \/ RoundDone
  \/ EmitStops \/ EmitWrites \/ EmitDone

\* The program goes on.
ChFair == WF_chVars(ChNext)
ChSpec == ChInit /\ [][ChNext]_chVars /\ ChFair

-----------------------------------------------------------------------------
\* What is printed is a greedy reply: the target's own tokens in their order, up to
\* a stop token or the number asked for, whichever of the two loops (src/main.rs:310
\* and 362) prints it and whatever is drafted.  The first token is printed before
\* the number is looked at, so that --n-predict 0 asks for one.
Promise == INSTANCE GreedyDecode WITH
  Token <- Vocab, Stop <- StopIds, Horizon <- ChHorizon, MaxTokens <- MaxPredict,
  plain <- reply, limit <- IF cli.predict = 0 THEN 1 ELSE cli.predict, out <- printed,
  state <- IF chAt \in {"begin", "off"} THEN "idle"
           ELSE IF chAt = "ended" THEN ending ELSE "running"
ChatKeepsPromise == Promise!Spec
=============================================================================
