---------------------------- MODULE GreedyDecode ----------------------------
(***************************************************************************)
(* What one reply of the program promises its reader, whichever decoding   *)
(* loop produces it: the tokens of the target model, one at a time, in the *)
(* model's own order, none after a stop token and never more than asked    *)
(* for.  "plain" is the sequence the target picks when every token it      *)
(* picks is fed back to it (greedy, or with the draws of its sampler).     *)
(***************************************************************************)
EXTENDS Naturals, Sequences

CONSTANTS
  Token,      \* the vocabulary
  Stop,       \* the tokens that end a reply
  Horizon,    \* how far ahead plain is defined
  MaxTokens   \* the largest max_tokens a request may ask for

VARIABLES
  plain,      \* the target's own continuation of the prompt
  limit,      \* max_tokens of the request
  out,        \* the tokens delivered so far
  state       \* "idle", "running", or how the last reply ended

vars == <<plain, limit, out, state>>

Ended == {"eos", "limit", "gone", "error"}

Init ==
  /\ plain \in [1..Horizon -> Token]
  /\ limit \in 1..MaxTokens
  /\ out = <<>>
  /\ state = "idle"

Begin ==
  /\ state \in Ended \union {"idle"}
  /\ plain' \in [1..Horizon -> Token]
  /\ limit' \in 1..MaxTokens
  /\ out' = <<>>
  /\ state' = "running"

\* The next token of the target is delivered; the last one allowed ends it.
Deliver ==
  /\ state = "running"
  /\ Len(out) < limit
  /\ plain[Len(out) + 1] \notin Stop
  /\ out' = Append(out, plain[Len(out) + 1])
  /\ state' = IF Len(out) + 1 = limit THEN "limit" ELSE "running"
  /\ UNCHANGED <<plain, limit>>

HitStop ==
  /\ state = "running"
  /\ plain[Len(out) + 1] \in Stop
  /\ state' = "eos"
  /\ UNCHANGED <<plain, limit, out>>

\* The reader hung up, or the engine failed: the reply is cut short.
CutShort ==
  /\ state = "running"
  /\ state' \in {"gone", "error"}
  /\ UNCHANGED <<plain, limit, out>>

\* The prompt is empty: an error, and no reply.
Refused ==
  /\ state \in Ended \union {"idle"}
  /\ out' = <<>>
  /\ state' = "error"
  /\ UNCHANGED <<plain, limit>>

Next == Begin \/ Refused \/ Deliver \/ HitStop \/ CutShort

Spec == Init /\ [][Next]_vars /\ WF_vars(Deliver \/ HitStop \/ CutShort)
=============================================================================
