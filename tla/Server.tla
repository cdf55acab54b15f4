------------------------------- MODULE Server -------------------------------
(***************************************************************************)
(* The HTTP server of src/server.rs: one thread per connection, one request *)
(* per connection, one engine behind a mutex.  A thread runs handle and,    *)
(* for a completion, run_completion, which takes the mutex for the model's  *)
(* name, lets it go, and takes it again for the whole generation, the       *)
(* writing of the answer included.                                          *)
(*                                                                          *)
(* The mutex is its holder; a thread that panics while it holds the mutex   *)
(* poisons it.  A reply is abstracted to whose tokens the engine's caches   *)
(* held when its pieces were computed (Generate says what the pieces are,   *)
(* ReplyStream how they become frames).                                     *)
(***************************************************************************)
EXTENDS Integers, Sequences

CONSTANTS
  Conns,       \* the connections
  Requests,    \* what they may ask
  MaxPieces,   \* bound: pieces of one reply
  None         \* nobody holds the mutex

Paths == {"options", "health", "models", "chat", "text", "other"}
\* sound: a chat body that parses, a text prompt that has tokens.
\* expect: the header "Expect: 100-continue".
AnyRequest == [path : Paths, stream : BOOLEAN, sound : BOOLEAN, expect : BOOLEAN]

ASSUME ServerAssumption ==
  /\ Requests \subseteq AnyRequest
  /\ MaxPieces \in Nat
  /\ None \notin Conns

Unread == [path |-> "unread", stream |-> FALSE, sound |-> FALSE, expect |-> FALSE]

VARIABLES
  pc,         \* where each connection's thread is
  request,    \* what was read
  client,     \* "reading", "stalled" (its buffers are full), "gone"
  owner,      \* holder of the mutex
  poisoned,
  context,    \* whose tokens the engine's caches hold
  made,       \* whose tokens the reply under way was computed from
  count,      \* pieces of the reply under way
  sent        \* what was written to each client

vars == <<pc, request, client, owner, poisoned, context, made, count, sent>>
engine == <<owner, poisoned, context, made, count>>

\* Places of a thread that holds the mutex for its generation.
Generating == {"entered", "prefill", "decode", "answer", "failed"}
Places == {"new", "reading", "handle", "named", "enter", "closed", "panicked"} \cup Generating

IsCompletion(r) == r.path = "text" \/ (r.path = "chat" /\ r.sound)

Frame(what, of) == [what |-> what, of |-> of]
Goto(c, place) == pc' = [pc EXCEPT ![c] = place]
\* Writes to a client that hung up are ignored.
Write(c, frames) ==
  sent' = IF client[c] = "gone" THEN sent ELSE [sent EXCEPT ![c] = @ \o frames]

-----------------------------------------------------------------------------
Init ==
  /\ pc = [c \in Conns |-> "new"]
  /\ request = [c \in Conns |-> Unread]
  /\ client = [c \in Conns |-> "reading"]
  /\ owner = None /\ poisoned = FALSE
  /\ context = {} /\ made = {} /\ count = 0
  /\ sent = [c \in Conns |-> <<>>]

\* serve: a thread of its own for every connection.
Accept(c) ==
  /\ pc[c] = "new"
  /\ Goto(c, "reading")
  /\ UNCHANGED <<request, client, engine, sent>>

\* read_request.
Read(c, r) ==
  /\ pc[c] = "reading" /\ client[c] # "gone"
  /\ request' = [request EXCEPT ![c] = r]
  /\ Goto(c, "handle")
  /\ Write(c, IF r.expect THEN <<Frame("continue", {})>> ELSE <<>>)
  /\ UNCHANGED <<client, engine>>

\* An unreadable request, or a client that left: no answer.
ReadFails(c) ==
  /\ pc[c] = "reading"
  /\ Goto(c, "closed")
  /\ UNCHANGED <<request, client, engine, sent>>

\* The answers that need no engine: OPTIONS, health, 400 and 404.  Health asks
\* nothing of the mutex.
HealthNeeds_Lock(c) == request[c].path = "health" => owner = None
HealthNeeds(c) == TRUE

Plain(c) ==
  /\ pc[c] = "handle"
  /\ request[c].path \in {"options", "health", "other"} \/ (request[c].path = "chat" /\ ~request[c].sound)
  /\ HealthNeeds(c)
  /\ Write(c, <<Frame("whole", {})>>)
  /\ Goto(c, "closed")
  /\ UNCHANGED <<request, client, engine>>

\* GET /v1/models: the name under the mutex, or an empty name.
Models(c) ==
  /\ pc[c] = "handle" /\ request[c].path = "models"
  /\ owner = None
  /\ Write(c, <<Frame("whole", {})>>)
  /\ Goto(c, "closed")
  /\ UNCHANGED <<request, client, engine>>

\* POST /v1/chat/completions: the prompt is built under the mutex.
BuildPrompt(c) ==
  /\ pc[c] = "handle" /\ request[c].path = "chat" /\ request[c].sound
  /\ owner = None
  /\ Goto(c, IF poisoned THEN "closed" ELSE "named")
  /\ UNCHANGED <<request, client, engine, sent>>

\* J::parse panics on an unpaired surrogate where overflow is checked (debug
\* builds): on a body, and on a tool call's arguments, which are parsed with the
\* mutex held (server.rs:244).  A poisoned mutex is noticed first.
ParsePanics(c) ==
  /\ pc[c] = "handle" /\ request[c].path \in {"chat", "text"}
  /\ Goto(c, "panicked")
  /\ UNCHANGED <<request, client, engine, sent>>

PromptPanics(c) ==
  /\ pc[c] = "handle" /\ request[c].path = "chat" /\ request[c].sound
  /\ owner = None /\ ~poisoned
  /\ poisoned' = TRUE
  /\ Goto(c, "panicked")
  /\ UNCHANGED <<request, client, owner, context, made, count, sent>>

\* run_completion: the name under the mutex.
Name(c) ==
  /\ pc[c] = "named" \/ (pc[c] = "handle" /\ request[c].path = "text")
  /\ owner = None
  /\ Goto(c, "enter")
  /\ UNCHANGED <<request, client, engine, sent>>

\* run_completion: the mutex for the whole generation; a poisoned one gives up.
Entry_IntoInner == "entered"
Entry == IF poisoned THEN "closed" ELSE "entered"

FreeMutex == owner = None

Enter(c) ==
  /\ pc[c] = "enter"
  /\ FreeMutex
  /\ Goto(c, Entry)
  /\ owner' = IF Entry = "entered" THEN c ELSE owner
  /\ made' = {} /\ count' = 0
  /\ Write(c, IF Entry = "entered" /\ request[c].stream THEN <<Frame("head", {})>> ELSE <<>>)
  /\ UNCHANGED <<request, client, poisoned, context>>

-----------------------------------------------------------------------------
\* Engine::generate: a prompt without tokens is refused, any other resets the
\* engine before its prefill.
Cleared_Kept == context
Cleared == {}

Reset(c) ==
  /\ pc[c] = "entered"
  /\ IF request[c].sound
     THEN Goto(c, "prefill") /\ context' = Cleared
     ELSE Goto(c, "failed") /\ UNCHANGED context
  /\ UNCHANGED <<request, client, owner, poisoned, made, count, sent>>

Prefill(c) ==
  /\ pc[c] = "prefill"
  /\ context' = context \cup {c}
  /\ Goto(c, "decode")
  /\ UNCHANGED <<request, client, owner, poisoned, made, count, sent>>

HasBudget == count < MaxPieces

\* A piece, and the forward of its token.  The filters may hold it back; a
\* frame waits for a client that stalls; a write to a client that hung up may
\* be noticed, which ends the generation.
Piece(c) ==
  /\ pc[c] = "decode" /\ HasBudget
  /\ count' = count + 1
  /\ made' = made \cup context
  /\ context' = context \cup {c}
  /\ \/ Goto(c, "decode") /\ UNCHANGED sent
     \/ /\ request[c].stream /\ client[c] # "stalled"
        /\ Write(c, <<Frame("delta", context)>>)
        /\ IF client[c] = "gone" THEN Goto(c, "decode") \/ Goto(c, "answer") ELSE Goto(c, "decode")
  /\ UNCHANGED <<request, client, owner, poisoned>>

\* A stop token, or max_tokens.
Stop(c) ==
  /\ pc[c] = "decode"
  /\ Goto(c, "answer")
  /\ UNCHANGED <<request, client, engine, sent>>

\* generate returns an error.
Fail(c) ==
  /\ pc[c] \in {"prefill", "decode"}
  /\ Goto(c, "failed")
  /\ context' \in {context, context \cup {c}}
  /\ UNCHANGED <<request, client, owner, poisoned, made, count, sent>>

\* The end of run_completion: a streaming answer is closed in every case, behind
\* the n frames of what was held back (text, and a chat's tool calls), a one-shot
\* answer is the reply or an error object.  The mutex is still held.
Tails(c) == IF ~request[c].stream \/ count = 0 THEN {0}
            ELSE IF request[c].path = "chat" THEN 0..2 ELSE 0..1
Deltas(n) == [i \in 1..n |-> Frame("delta", made)]

Closing_NoErrorEnd(c, n) ==
  IF ~request[c].stream THEN <<Frame("whole", made)>>
  ELSE IF pc[c] = "failed" THEN Deltas(n) \o <<Frame("last", {})>>
  ELSE Deltas(n) \o <<Frame("last", made), Frame("[DONE]", {}), Frame("end", {})>>
Closing(c, n) ==
  IF request[c].stream
  THEN Deltas(n) \o <<Frame("last", made), Frame("[DONE]", {}), Frame("end", {})>>
  ELSE <<Frame("whole", IF pc[c] = "failed" THEN {} ELSE made)>>

Answer(c) ==
  /\ pc[c] \in {"answer", "failed"} /\ client[c] # "stalled"
  /\ \E n \in Tails(c) : Write(c, Closing(c, n))
  /\ owner' = None
  /\ Goto(c, "closed")
  /\ UNCHANGED <<request, client, poisoned, context, made, count>>

\* A panic in generate, in the callback or in the splitting of the answer.
AfterPanic_Held(c) == owner' = c
AfterPanic(c) == owner' = None

Panic(c) ==
  /\ pc[c] \in Generating
  /\ poisoned' = TRUE
  /\ AfterPanic(c)
  /\ Goto(c, "panicked")
  /\ context' \in {context, context \cup {c}}
  /\ UNCHANGED <<request, client, made, count, sent>>

-----------------------------------------------------------------------------
\* The client stops reading, reads again, or hangs up.
Stall(c) ==
  /\ pc[c] \notin {"closed", "panicked"} /\ client[c] = "reading"
  /\ client' = [client EXCEPT ![c] = "stalled"]
  /\ UNCHANGED <<pc, request, engine, sent>>

Resume(c) ==
  /\ client[c] = "stalled"
  /\ client' = [client EXCEPT ![c] = "reading"]
  /\ UNCHANGED <<pc, request, engine, sent>>

HangUp(c) ==
  /\ pc[c] \notin {"closed", "panicked"} /\ client[c] # "gone"
  /\ client' = [client EXCEPT ![c] = "gone"]
  /\ UNCHANGED <<pc, request, engine, sent>>

Lock(c) == Models(c) \/ BuildPrompt(c) \/ Name(c) \/ Enter(c)
Panics(c) == ParsePanics(c) \/ PromptPanics(c) \/ Panic(c)
Compute(c) == Reset(c) \/ Prefill(c) \/ Piece(c) \/ Stop(c) \/ Fail(c)
Next ==
  \E c \in Conns :
    \/ Accept(c) \/ (\E r \in Requests : Read(c, r)) \/ ReadFails(c)
    \/ Plain(c) \/ Lock(c) \/ Compute(c) \/ Answer(c) \/ Panics(c)
    \/ Stall(c) \/ Resume(c) \/ HangUp(c)

\* Threads run, and no panic is counted on; a writer goes on when its client
\* reads again and again.
Fairness ==
  \A c \in Conns :
    /\ WF_vars(Plain(c)) /\ WF_vars(Lock(c)) /\ WF_vars(Compute(c))
    /\ SF_vars(Answer(c))

Spec == Init /\ [][Next]_vars /\ Fairness
-----------------------------------------------------------------------------
\* Type invariant.
TypeOK ==
  /\ pc \in [Conns -> Places]
  /\ request \in [Conns -> Requests \cup {Unread}]
  /\ client \in [Conns -> {"reading", "stalled", "gone"}]
  /\ owner \in Conns \cup {None}
  /\ poisoned \in BOOLEAN
  /\ context \subseteq Conns
  /\ made \subseteq Conns
  /\ count \in 0..MaxPieces
  /\ sent \in [Conns -> Seq([what : {"continue", "whole", "head", "delta", "last", "[DONE]", "end"},
                             of : SUBSET Conns])]

\* README.md:218, "Requests are serialized ... each request rebuilds the
\* context from scratch": nothing a client is sent was computed from the tokens
\* of another request, whatever the earlier ones left in the caches.
OwnAnswer ==
  \A c \in Conns : \A i \in 1..Len(sent[c]) : sent[c][i].of \subseteq {c}

\* At most one thread is between Enter and the end of its answer, and it is the
\* one the mutex belongs to: a thread that panics does not keep it.
OneGeneration ==
  \A c \in Conns : pc[c] \in Generating <=> owner = c

\* Requests are isolated by the engine's mutex: one generation at a time, and a
\* client is sent only what was computed from its own tokens.
Isolated == TypeOK /\ OwnAnswer /\ OneGeneration

What(c) == [i \in 1..Len(sent[c]) |-> sent[c][i].what]
Streamed(s) ==
  /\ Len(s) >= 4 /\ s[1] = "head"
  /\ \A i \in 2..(Len(s) - 3) : s[i] = "delta"
  /\ SubSeq(s, Len(s) - 2, Len(s)) = <<"last", "[DONE]", "end">>
OneAnswer(s) == s = <<"whole">> \/ Streamed(s)

\* A client that stays gets exactly one complete answer: after an error in any
\* step of generate too, streaming or not.  The only threads that close without
\* one could not read the request, or found the mutex poisoned.
Answered ==
  \A c \in Conns : pc[c] = "closed" /\ client[c] # "gone" =>
    \/ request[c] = Unread
    \/ OneAnswer(What(c))
    \/ request[c].expect /\ OneAnswer(Tail(What(c)))
    \/ poisoned /\ IsCompletion(request[c])

\* A panic ends the service of completions: a thread that waited for the mutex
\* and one that comes later get nothing, not even a head (src/server.rs:780).
PoisonSilences ==
  [][poisoned => \A c \in Conns : IsCompletion(request[c]) => sent'[c] = sent[c]]_vars

HealthAnswered ==
  \A c \in Conns :
    (pc[c] = "handle" /\ request[c].path = "health") ~> pc[c] = "closed"
RequestsEnd ==
  (\A c \in Conns : []<>(client[c] # "stalled")) =>
    \A c \in Conns : pc[c] = "handle" ~> pc[c] \in {"closed", "panicked"}

\* Every request that was read is done with, by an answer or by giving up, if no
\* client stays stalled for ever: the mutex is let go on every path.  Health is
\* answered even if one does, with the engine in its hands, and although the mutex
\* is poisoned (src/server.rs:728).
EveryoneServed == RequestsEnd /\ HealthAnswered
=============================================================================
