---------------------------- MODULE Requests_proof ----------------------------
(***************************************************************************)
(* Proofs about the two programs that answer: Server, for any set of        *)
(* connections, any requests and any length of the replies, and Chat, the    *)
(* command-line chat, which implements the safety part of GreedyDecode for   *)
(* any vocabulary, prompt, --n-predict and length of the proposals; and      *)
(* about ReplyStream, what Server sends of a reply, for any pieces, tags,    *)
(* setups and lengths.                                                       *)
(***************************************************************************)
EXTENDS Server, Chat, ReplyStream, Pieces_proof, FiniteSetTheorems, TLAPS

-----------------------------------------------------------------------------
\* Server.

Words == {"continue", "whole", "head", "delta", "last", "[DONE]", "end"}
AnyFrame == [what : {"continue", "whole", "head", "delta", "last", "[DONE]", "end"},
             of : SUBSET Conns]

\* TypeOK without what was written.
TypeOfEngine ==
  /\ pc \in [Conns -> Places]
  /\ request \in [Conns -> Requests \cup {Unread}]
  /\ client \in [Conns -> {"reading", "stalled", "gone"}]
  /\ owner \in Conns \cup {None}
  /\ poisoned \in BOOLEAN
  /\ context \subseteq Conns
  /\ made \subseteq Conns
  /\ count \in 0..MaxPieces

\* While a thread generates, the caches and the reply hold its tokens only;
\* before Reset and after a refusal the caches are still another's.  A poisoned
\* mutex is free, and a thread that has read nothing has no request.
Clean ==
  /\ \A c \in Conns : pc[c] \in {"prefill", "decode", "answer"} => context \subseteq {c}
  /\ \A c \in Conns : pc[c] \in Generating => made \subseteq {c}
  /\ \A c \in Conns : pc[c] \in {"new", "reading"} => request[c] = Unread
  /\ poisoned => owner = None

Control == TypeOfEngine /\ OneGeneration /\ Clean
Writing == sent \in [Conns -> Seq(AnyFrame)] /\ OwnAnswer
IInv == Control /\ Writing

-----------------------------------------------------------------------------
LEMMA Initially == Init => IInv
<1> SUFFICES ASSUME Init PROVE IInv
  OBVIOUS
<1> USE ServerAssumption DEF Init
<1>0. 0 \in 0..MaxPieces /\ "new" \in Places
  BY DEF Places
<1>1. TypeOfEngine
  BY <1>0 DEF TypeOfEngine
<1>2. OneGeneration /\ Clean
  BY DEF OneGeneration, Clean, Generating
<1>3. Writing
  BY DEF Writing, OwnAnswer
<1> QED
  BY <1>1, <1>2, <1>3 DEF IInv, Control

\* A thread without the mutex moves between places outside the generation.
LEMMA OutsideKeepsControl ==
  ASSUME Control, NEW c \in Conns, NEW p \in Places \ Generating,
         pc[c] \notin Generating, p \notin {"new", "reading"} \/ request'[c] = Unread,
         pc' = [pc EXCEPT ![c] = p],
         request' \in [Conns -> Requests \cup {Unread}],
         \A d \in Conns : d # c => request'[d] = request[d],
         UNCHANGED <<client, engine>>
  PROVE  Control'
<1> USE DEF Control, engine
<1>1. TypeOfEngine'
  BY DEF TypeOfEngine, Places, Generating
<1>2. \A d \in Conns : pc'[d] = IF d = c THEN p ELSE pc[d]
  BY DEF TypeOfEngine
<1>3. OneGeneration'
  BY <1>2 DEF OneGeneration, TypeOfEngine
<1>4. Clean'
  BY <1>2 DEF Clean, Generating, TypeOfEngine
<1> QED
  BY <1>1, <1>3, <1>4

\* A generating thread that keeps the mutex and moves inside the generation.
LEMMA InsideKeepsControl ==
  ASSUME Control, NEW c \in Conns, NEW p \in Generating, pc[c] \in Generating,
         pc' = [pc EXCEPT ![c] = p],
         UNCHANGED <<request, client, owner, poisoned>>,
         count' \in 0..MaxPieces,
         context' \subseteq Conns,
         p \in {"prefill", "decode", "answer"} => context' \subseteq {c},
         made' \subseteq {c}
  PROVE  Control'
<1> USE DEF Control
<1>1. TypeOfEngine'
  BY DEF TypeOfEngine, Places, Generating
<1>2. \A d \in Conns : pc'[d] = IF d = c THEN p ELSE pc[d]
  BY DEF TypeOfEngine
<1>3. owner = c
  BY DEF OneGeneration
<1>4. OneGeneration'
  BY <1>2 DEF OneGeneration, TypeOfEngine
<1>5. \A d \in Conns : pc'[d] \in Generating => d = c
  BY <1>3, <1>4 DEF OneGeneration
<1>6. Clean'
  BY <1>2, <1>5 DEF Clean, Generating, TypeOfEngine
<1> QED
  BY <1>1, <1>4, <1>6

\* A generating thread that lets the mutex go.
LEMMA LeavingKeepsControl ==
  ASSUME Control, NEW c \in Conns, NEW p \in {"closed", "panicked"}, pc[c] \in Generating,
         pc' = [pc EXCEPT ![c] = p],
         UNCHANGED <<request, client, made, count>>,
         owner' = None, poisoned' \in BOOLEAN, context' \subseteq Conns
  PROVE  Control'
<1> USE DEF Control
<1>1. TypeOfEngine'
  BY DEF TypeOfEngine, Places, Generating
<1>2. \A d \in Conns : pc'[d] = IF d = c THEN p ELSE pc[d]
  BY DEF TypeOfEngine
<1>3. \A d \in Conns : pc[d] \in Generating => d = c
  BY DEF OneGeneration
<1>4. \A d \in Conns : pc'[d] \notin Generating
  BY <1>2, <1>3 DEF Generating
<1>5. OneGeneration'
  BY <1>4, ServerAssumption DEF OneGeneration
<1>6. Clean'
  BY <1>2, <1>4 DEF Clean, Generating, TypeOfEngine
<1> QED
  BY <1>1, <1>5, <1>6

-----------------------------------------------------------------------------
LEMMA NextKeepsControl == Control /\ Next => Control'
<1> SUFFICES ASSUME Control, NEW c \in Conns,
                    \/ Accept(c) \/ (\E r \in Requests : Read(c, r)) \/ ReadFails(c)
                    \/ Plain(c) \/ Lock(c) \/ Compute(c) \/ Answer(c) \/ Panics(c)
                    \/ Stall(c) \/ Resume(c) \/ HangUp(c)
             PROVE  Control'
  BY DEF Next
<1> USE DEF Goto
<1>t. pc[c] \in Places /\ request[c] \in Requests \cup {Unread}
  BY DEF Control, TypeOfEngine
<1>u. pc[c] \in {"new", "reading"} => request[c] = Unread
  BY DEF Control, Clean
<1>o. pc[c] \in Generating => owner = c /\ made \subseteq {c}
  BY DEF Control, OneGeneration, Clean
<1>x. pc[c] \in {"prefill", "decode", "answer"} => context \subseteq {c}
  BY DEF Control, Clean
<1>e. context \subseteq Conns /\ made \subseteq Conns /\ count \in 0..MaxPieces /\ MaxPieces \in Nat
  BY ServerAssumption DEF Control, TypeOfEngine
<1>r. request \in [Conns -> Requests \cup {Unread}]
  BY DEF Control, TypeOfEngine
<1>1. CASE Accept(c)
  <2>1. pc[c] \notin Generating /\ "reading" \in Places \ Generating
    BY <1>1 DEF Accept, Places, Generating
  <2> QED
    BY <1>1, <1>u, <1>r, <2>1, OutsideKeepsControl DEF Accept
<1>2. ASSUME NEW r \in Requests, Read(c, r) PROVE Control'
  <2>1. pc[c] \notin Generating /\ "handle" \in Places \ Generating
    BY <1>2 DEF Read, Places, Generating
  <2>2. /\ request' \in [Conns -> Requests \cup {Unread}]
        /\ \A d \in Conns : d # c => request'[d] = request[d]
    BY <1>2, <1>r DEF Read
  <2> QED
    BY <1>2, <2>1, <2>2, OutsideKeepsControl DEF Read
<1>3. CASE ReadFails(c) \/ Plain(c) \/ Models(c)
  <2>1. pc[c] \notin Generating /\ "closed" \in Places \ Generating
    BY <1>3 DEF ReadFails, Plain, Models, Places, Generating
  <2> QED
    BY <1>3, <1>r, <2>1, OutsideKeepsControl DEF ReadFails, Plain, Models
<1>4. CASE BuildPrompt(c)
  <2>1. pc[c] \notin Generating /\ {"closed", "named"} \subseteq Places \ Generating
    BY <1>4 DEF BuildPrompt, Places, Generating
  <2> QED
    BY <1>4, <1>r, <2>1, OutsideKeepsControl DEF BuildPrompt
<1>5. CASE Name(c)
  <2>1. pc[c] \notin Generating /\ "enter" \in Places \ Generating
    BY <1>5 DEF Name, Places, Generating
  <2> QED
    BY <1>5, <1>r, <2>1, OutsideKeepsControl DEF Name
<1>6. CASE Enter(c)
  <2>1. /\ pc[c] \notin Generating /\ owner = None
        /\ {"closed", "entered"} \subseteq Places
        /\ "closed" \notin Generating /\ "entered" \in Generating
    BY <1>6 DEF Enter, FreeMutex, Places, Generating
  <2>2. \A d \in Conns : pc[d] \notin Generating
    BY <2>1, ServerAssumption DEF Control, OneGeneration
  <2>3. \A d \in Conns : pc'[d] = IF d = c THEN Entry ELSE pc[d]
    BY <1>6 DEF Enter, Control, TypeOfEngine
  <2>4. TypeOfEngine'
    BY <1>6, <1>e, <2>1 DEF Enter, Control, TypeOfEngine, Entry
  <2>5. CASE poisoned
    <3>1. OneGeneration'
      BY <1>6, <2>1, <2>2, <2>3, <2>5, ServerAssumption DEF Enter, OneGeneration, Entry
    <3>2. Clean'
      BY <1>6, <2>1, <2>2, <2>3, <2>5 DEF Enter, Clean, Entry, Control, Generating
    <3> QED
      BY <2>4, <3>1, <3>2 DEF Control
  <2>6. CASE ~poisoned
    <3>1. OneGeneration'
      BY <1>6, <2>1, <2>2, <2>3, <2>6, ServerAssumption DEF Enter, OneGeneration, Entry
    <3>2. Clean'
      BY <1>6, <2>1, <2>2, <2>3, <2>6 DEF Enter, Clean, Entry, Control, Generating
    <3> QED
      BY <2>4, <3>1, <3>2 DEF Control
  <2> QED
    BY <2>5, <2>6
<1>7. CASE Reset(c)
  <2>1. pc[c] \in Generating /\ {"prefill", "failed"} \subseteq Generating
    BY <1>7 DEF Reset, Generating
  <2>2. CASE request[c].sound
    BY <1>7, <2>1, <2>2, <1>o, <1>e, InsideKeepsControl DEF Reset, Cleared
  <2>3. CASE ~request[c].sound
    BY <1>7, <2>1, <2>3, <1>o, <1>e, InsideKeepsControl DEF Reset
  <2> QED
    BY <2>2, <2>3
<1>8. CASE Prefill(c)
  <2>1. pc[c] \in Generating /\ "decode" \in Generating
    BY <1>8 DEF Prefill, Generating
  <2> QED
    BY <1>8, <2>1, <1>o, <1>e, <1>x, InsideKeepsControl DEF Prefill
<1>9. CASE Piece(c)
  <2>1. pc[c] \in Generating /\ {"decode", "answer"} \subseteq Generating
    BY <1>9 DEF Piece, Generating
  <2>2. count' \in 0..MaxPieces
    BY <1>9, <1>e DEF Piece, HasBudget
  <2>3. context' \subseteq {c} /\ made' \subseteq {c}
    BY <1>9, <1>o, <1>x, <2>1 DEF Piece
  <2>4. \/ pc' = [pc EXCEPT ![c] = "decode"]
        \/ pc' = [pc EXCEPT ![c] = "answer"]
    BY <1>9 DEF Piece
  <2> QED
    BY <1>9, <2>1, <2>2, <2>3, <2>4, InsideKeepsControl DEF Piece
<1>10. CASE Stop(c)
  <2>1. pc[c] \in Generating /\ "answer" \in Generating
    BY <1>10 DEF Stop, Generating
  <2> QED
    BY <1>10, <2>1, <1>o, <1>e, <1>x, InsideKeepsControl DEF Stop, engine
<1>11. CASE Fail(c)
  <2>1. pc[c] \in Generating /\ "failed" \in Generating
    BY <1>11 DEF Fail, Generating
  <2> QED
    BY <1>11, <2>1, <1>o, <1>e, InsideKeepsControl DEF Fail
<1>12. CASE Answer(c)
  <2>1. pc[c] \in Generating
    BY <1>12 DEF Answer, Generating
  <2>2. poisoned \in BOOLEAN
    BY DEF Control, TypeOfEngine
  <2> QED
    BY <1>12, <2>1, <2>2, <1>e, LeavingKeepsControl DEF Answer
<1>13. CASE Panic(c)
  BY <1>13, <1>e, LeavingKeepsControl DEF Panic, AfterPanic
<1>15. CASE ParsePanics(c) \/ PromptPanics(c)
  <2>1. pc[c] \notin Generating /\ "panicked" \in Places \ Generating
    BY <1>15 DEF ParsePanics, PromptPanics, Places, Generating
  <2>2. CASE ParsePanics(c)
    BY <2>1, <2>2, <1>r, OutsideKeepsControl DEF ParsePanics
  <2>3. CASE PromptPanics(c)
    <3>1. owner = None /\ owner' = None /\ UNCHANGED <<request, client, context, made, count>> /\ poisoned' = TRUE
      BY <2>3 DEF PromptPanics
    <3>2. \A d \in Conns : pc'[d] = IF d = c THEN "panicked" ELSE pc[d]
      BY <2>3 DEF PromptPanics, Control, TypeOfEngine
    <3>3. \A d \in Conns : pc[d] \notin Generating
      BY <3>1, ServerAssumption DEF Control, OneGeneration
    <3>4. TypeOfEngine'
      BY <2>1, <2>3, <3>1 DEF PromptPanics, Control, TypeOfEngine
    <3>5. OneGeneration'
      BY <2>1, <3>1, <3>2, <3>3, ServerAssumption DEF OneGeneration
    <3>6. Clean'
      BY <3>1, <3>2, <3>3 DEF Clean, Control, Generating
    <3> QED
      BY <3>4, <3>5, <3>6 DEF Control
  <2> QED
    BY <1>15, <2>2, <2>3
<1>14. CASE Stall(c) \/ Resume(c) \/ HangUp(c)
  <2>1. client' \in [Conns -> {"reading", "stalled", "gone"}]
    BY <1>14 DEF Control, TypeOfEngine, Stall, Resume, HangUp
  <2>2. UNCHANGED <<pc, request, engine>>
    BY <1>14 DEF Stall, Resume, HangUp
  <2> QED
    BY <2>1, <2>2 DEF Control, TypeOfEngine, OneGeneration, Clean, engine
<1> QED
  BY <1>1, <1>2, <1>3, <1>4, <1>5, <1>6, <1>7, <1>8, <1>9, <1>10, <1>11, <1>12, <1>13, <1>14, <1>15
     DEF Lock, Compute, Panics

-----------------------------------------------------------------------------
\* What is written for a connection is appended, if at all, and its own.
LEMMA WriteKeepsWriting ==
  ASSUME Writing, NEW c \in Conns, NEW frames \in Seq(AnyFrame),
         \A i \in 1..Len(frames) : frames[i].of \subseteq {c},
         Write(c, frames)
  PROVE  Writing'
<1>1. CASE client[c] = "gone"
  BY <1>1 DEF Writing, Write, OwnAnswer
<1>2. CASE client[c] # "gone"
  <2> DEFINE joined == sent[c] \o frames
  <2>1. sent[c] \in Seq(AnyFrame)
    BY DEF Writing
  <2>2. /\ joined \in Seq(AnyFrame)
        /\ Len(joined) = Len(sent[c]) + Len(frames)
        /\ \A i \in 1..(Len(sent[c]) + Len(frames)) :
             joined[i] = IF i <= Len(sent[c]) THEN sent[c][i] ELSE frames[i - Len(sent[c])]
    BY <2>1, ConcatProperties
  <2>3. sent' = [sent EXCEPT ![c] = joined]
    BY <1>2 DEF Write
  <2>4. \A d \in Conns : sent'[d] = IF d = c THEN joined ELSE sent[d]
    BY <2>3 DEF Writing
  <2>5. \A i \in 1..Len(joined) : joined[i].of \subseteq {c}
    <3> SUFFICES ASSUME NEW i \in 1..Len(joined) PROVE joined[i].of \subseteq {c}
      OBVIOUS
    <3> HIDE DEF joined
    <3>1. Len(sent[c]) \in Nat /\ Len(frames) \in Nat
      BY <2>1
    <3>2. CASE i <= Len(sent[c])
      <4>1. joined[i] = sent[c][i] /\ i \in 1..Len(sent[c])
        BY <2>2, <3>1, <3>2
      <4> QED
        BY <4>1 DEF Writing, OwnAnswer
    <3>3. CASE i > Len(sent[c])
      <4>1. joined[i] = frames[i - Len(sent[c])] /\ i - Len(sent[c]) \in 1..Len(frames)
        BY <2>2, <3>1, <3>3
      <4> QED
        BY <4>1
    <3> QED
      BY <3>1, <3>2, <3>3
  <2> HIDE DEF joined
  <2> QED
    BY <2>2, <2>3, <2>4, <2>5 DEF Writing, OwnAnswer
<1> QED
  BY <1>1, <1>2

LEMMA WriteOne ==
  ASSUME Writing, NEW c \in Conns, NEW f \in AnyFrame, f.of \subseteq {c}, Write(c, <<f>>)
  PROVE  Writing'
<1>1. /\ <<f>> \in Seq(AnyFrame)
      /\ \A i \in 1..Len(<<f>>) : <<f>>[i].of \subseteq {c}
  OBVIOUS
<1> QED
  BY <1>1, WriteKeepsWriting

LEMMA WriteNone ==
  ASSUME Writing, NEW c \in Conns, Write(c, <<>>)
  PROVE  UNCHANGED sent
<1>1. sent[c] \in Seq(AnyFrame)
  BY DEF Writing
<1>2. sent[c] \o <<>> = sent[c]
  BY <1>1, ConcatEmptySeq
<1> QED
  BY <1>2 DEF Write, Writing

\* Every frame but a delta, a last one and a whole one says nothing.
LEMMA Silent ==
  ASSUME NEW c \in Conns, NEW what \in {"continue", "whole", "head", "[DONE]", "end"}
  PROVE  Frame(what, {}) \in AnyFrame /\ Frame(what, {}).of \subseteq {c}
BY DEF Frame, AnyFrame

\* The frames behind the last piece.
LEMMA DeltasAre ==
  ASSUME NEW c \in Conns, made \subseteq Conns, NEW n \in Nat
  PROVE  /\ Deltas(n) \in Seq(AnyFrame) /\ Len(Deltas(n)) = n
         /\ \A i \in 1..n : Deltas(n)[i].what = "delta" /\ Deltas(n)[i].of = made
<1>1. Frame("delta", made) \in AnyFrame /\ Frame("delta", made).what = "delta" /\ Frame("delta", made).of = made
  BY DEF Frame, AnyFrame
<1> QED
  BY <1>1 DEF Deltas

\* What ends a streaming answer: n deltas and the three last frames.
LEMMA ClosingIs ==
  ASSUME NEW c \in Conns, request[c].stream, made \subseteq Conns, NEW n \in Nat
  PROVE  /\ Closing(c, n) \in Seq(AnyFrame) /\ Len(Closing(c, n)) = n + 3
         /\ \A i \in 1..(n + 3) :
              /\ Closing(c, n)[i].what = IF i <= n THEN "delta" ELSE IF i = n + 1 THEN "last"
                                         ELSE IF i = n + 2 THEN "[DONE]" ELSE "end"
              /\ Closing(c, n)[i].of \in {made, {}}
<1> DEFINE a == Frame("last", made)
           b == Frame("[DONE]", {})
           e == Frame("end", {})
           t == <<a, b, e>>
           d == Deltas(n)
<1>1. /\ a \in AnyFrame /\ b \in AnyFrame /\ e \in AnyFrame
      /\ a.what = "last" /\ b.what = "[DONE]" /\ e.what = "end"
      /\ a.of = made /\ b.of = {} /\ e.of = {}
  BY DEF Frame, AnyFrame
<1>2. Closing(c, n) = d \o t
  BY DEF Closing
<1> HIDE DEF a, b, e
<1>3. t \in Seq(AnyFrame) /\ Len(t) = 3 /\ t[1] = a /\ t[2] = b /\ t[3] = e
  BY <1>1
<1>4. d \in Seq(AnyFrame) /\ Len(d) = n /\ \A i \in 1..n : d[i].what = "delta" /\ d[i].of = made
  BY DeltasAre
<1> HIDE DEF t, d
<1>7. PICK j : j = d \o t
  OBVIOUS
<1>8. /\ j \in Seq(AnyFrame) /\ Len(j) = Len(d) + Len(t)
      /\ \A i \in 1..(Len(d) + Len(t)) : j[i] = IF i <= Len(d) THEN d[i] ELSE t[i - Len(d)]
  BY ONLY <1>3, <1>4, <1>7, ConcatProperties
<1>5. /\ j \in Seq(AnyFrame) /\ Len(j) = n + 3
      /\ \A i \in 1..(n + 3) : j[i] = IF i <= n THEN d[i] ELSE t[i - n]
  BY <1>3, <1>4, <1>8
<1>6. ASSUME NEW i \in 1..(n + 3)
      PROVE  /\ j[i].what = IF i <= n THEN "delta" ELSE IF i = n + 1 THEN "last"
                                   ELSE IF i = n + 2 THEN "[DONE]" ELSE "end"
             /\ j[i].of \in {made, {}}
  <2>1. CASE i <= n
    BY <1>4, <1>5, <2>1
  <2>2. CASE i > n
    <3>1. j[i] = t[i - n] /\ i - n \in {1, 2, 3}
      BY <1>5, <2>2
    <3> QED
      BY <1>1, <1>3, <2>2, <3>1
  <2> QED
    BY <2>1, <2>2
<1> QED
  BY <1>2, <1>5, <1>6, <1>7

LEMMA ClosingIsOwn ==
  ASSUME NEW c \in Conns, made \subseteq {c}, NEW n \in Nat
  PROVE  /\ Closing(c, n) \in Seq(AnyFrame)
         /\ \A i \in 1..Len(Closing(c, n)) : Closing(c, n)[i].of \subseteq {c}
<1>1. CASE request[c].stream
  BY <1>1, ClosingIs
<1>2. CASE ~request[c].stream
  <2>1. PICK f : f = Frame("whole", IF pc[c] = "failed" THEN {} ELSE made)
    OBVIOUS
  <2>2. f \in AnyFrame /\ f.of \subseteq {c} /\ Closing(c, n) = <<f>>
    BY <1>2, <2>1 DEF Closing, Frame, AnyFrame
  <2> QED
    BY <2>2
<1> QED
  BY <1>1, <1>2

LEMMA NextKeepsWriting == IInv /\ Next => Writing'
<1> SUFFICES ASSUME IInv, NEW c \in Conns,
                    \/ Accept(c) \/ (\E r \in Requests : Read(c, r)) \/ ReadFails(c)
                    \/ Plain(c) \/ Lock(c) \/ Compute(c) \/ Answer(c) \/ Panics(c)
                    \/ Stall(c) \/ Resume(c) \/ HangUp(c)
             PROVE  Writing'
  BY DEF Next
<1>w. Writing
  BY DEF IInv
<1>h. UNCHANGED sent => Writing'
  BY <1>w DEF Writing, OwnAnswer
<1>1. CASE Accept(c) \/ ReadFails(c) \/ BuildPrompt(c) \/ Name(c) \/ Reset(c) \/ Prefill(c)
           \/ Stop(c) \/ Fail(c) \/ Panics(c) \/ Stall(c) \/ Resume(c) \/ HangUp(c)
  BY <1>1, <1>h DEF Accept, ReadFails, BuildPrompt, Name, Reset, Prefill, Stop, Fail, Panics,
                    ParsePanics, PromptPanics, Panic, Stall, Resume, HangUp
<1>2. ASSUME NEW r \in Requests, Read(c, r) PROVE Writing'
  <2>1. Write(c, <<Frame("continue", {})>>) \/ Write(c, <<>>)
    BY <1>2 DEF Read
  <2> QED
    BY <1>w, <1>h, <2>1, WriteOne, WriteNone, Silent
<1>3. CASE Plain(c) \/ Models(c)
  <2>1. Write(c, <<Frame("whole", {})>>)
    BY <1>3 DEF Plain, Models
  <2> QED
    BY <1>w, <2>1, WriteOne, Silent
<1>4. CASE Enter(c)
  <2>1. Write(c, <<Frame("head", {})>>) \/ Write(c, <<>>)
    BY <1>4 DEF Enter
  <2> QED
    BY <1>w, <1>h, <2>1, WriteOne, WriteNone, Silent
<1>5. CASE Piece(c)
  <2>1. context \subseteq {c}
    BY <1>5 DEF Piece, IInv, Control, Clean
  <2>2. Frame("delta", context) \in AnyFrame /\ Frame("delta", context).of \subseteq {c}
    BY <2>1 DEF Frame, AnyFrame
  <2>3. UNCHANGED sent \/ Write(c, <<Frame("delta", context)>>)
    BY <1>5 DEF Piece
  <2> QED
    BY <1>w, <1>h, <2>2, <2>3, WriteOne
<1>6. CASE Answer(c)
  <2>1. made \subseteq {c}
    BY <1>6 DEF Answer, IInv, Control, Clean, Generating
  <2>2. PICK n \in Nat : Write(c, Closing(c, n))
    BY <1>6 DEF Answer, Tails
  <2> QED
    BY <1>w, <2>1, <2>2, ClosingIsOwn, WriteKeepsWriting
<1> QED
  BY <1>1, <1>2, <1>3, <1>4, <1>5, <1>6 DEF Lock, Compute

LEMMA Invariance == Spec => []IInv
<1>1. ASSUME IInv, UNCHANGED vars PROVE IInv'
  <2> USE <1>1 DEF vars
  <2>1. TypeOfEngine'
    BY DEF IInv, Control, TypeOfEngine
  <2>2. OneGeneration'
    BY DEF IInv, Control, OneGeneration
  <2>3. Clean'
    BY DEF IInv, Control, Clean
  <2>4. Writing'
    BY DEF IInv, Writing, OwnAnswer
  <2> QED
    BY <2>1, <2>2, <2>3, <2>4 DEF IInv, Control
<1>2. IInv /\ [Next]_vars => IInv'
  BY <1>1, NextKeepsControl, NextKeepsWriting DEF IInv
<1> QED
  BY <1>2, Initially, PTL DEF Spec

-----------------------------------------------------------------------------
\* How far a client that stays has been answered: nothing before its request is
\* read, the "continue" it asked for, and in a generation that streams the head
\* and deltas.
Greeted(c) == IF request[c].expect THEN 1 ELSE 0

Opened(c) ==
  /\ Len(sent[c]) > Greeted(c)
  /\ sent[c][Greeted(c) + 1].what = "head"
  /\ \A i \in (Greeted(c) + 2)..Len(sent[c]) : sent[c][i].what = "delta"

InStep(c) ==
  /\ pc[c] \in {"named", "enter"} => IsCompletion(request[c])
  /\ pc[c] \in {"new", "reading"} => Len(sent[c]) = 0
  /\ pc[c] \in {"handle", "named", "enter"} => Len(sent[c]) = Greeted(c)
  /\ pc[c] \in Generating =>
       IF request[c].stream THEN Opened(c) ELSE Len(sent[c]) = Greeted(c)

Ending(c) ==
  pc[c] = "closed" =>
    \/ request[c] = Unread
    \/ OneAnswer(What(c))
    \/ request[c].expect /\ OneAnswer(Tail(What(c)))
    \/ poisoned /\ IsCompletion(request[c])

Attending == \A c \in Conns : client[c] # "gone" => InStep(c) /\ Ending(c)

AnyRequestOf(c) == request[c].expect \in BOOLEAN /\ request[c].stream \in BOOLEAN

\* The kinds of the frames a client has, as a sequence.
LEMMA WhatIsSaid ==
  ASSUME NEW s \in Seq(AnyFrame)
  PROVE  LET w == [i \in 1..Len(s) |-> s[i].what]
         IN  w \in Seq(Words) /\ Len(w) = Len(s) /\ \A i \in 1..Len(s) : w[i] = s[i].what
<1>1. \A i \in 1..Len(s) : s[i] \in AnyFrame
  OBVIOUS
<1>2. \A i \in 1..Len(s) : s[i].what \in Words
  BY <1>1 DEF AnyFrame, Words
<1> QED
  BY <1>2

\* A whole answer behind the g frames of a greeting.
LEMMA AnswerBehindContinue ==
  ASSUME NEW w \in Seq(Words), NEW g \in {0, 1}, NEW b \in Seq(Words), OneAnswer(b),
         Len(w) = g + Len(b), \A i \in 1..Len(b) : w[g + i] = b[i]
  PROVE  IF g = 0 THEN OneAnswer(w) ELSE OneAnswer(Tail(w))
<1>1. CASE g = 1
  <2>1. Len(w) = 1 + Len(b) /\ \A i \in 1..Len(b) : w[i + 1] = b[i]
    BY <1>1
  <2>2. /\ Tail(w) \in Seq(Words) /\ Len(Tail(w)) = Len(b)
        /\ \A i \in 1..Len(b) : Tail(w)[i] = b[i]
    BY <2>1, HeadTailProperties
  <2>3. Tail(w) = b
    BY <2>2, SeqEqual
  <2>4. OneAnswer(Tail(w))
    BY <2>3, Zenon
  <2>5. g # 0
    BY <1>1
  <2> QED
    BY <2>4, <2>5, Zenon
<1>2. CASE g = 0
  <2>1. Len(w) = Len(b) /\ \A i \in 1..Len(b) : w[i] = b[i]
    BY <1>2
  <2>2. w = b
    BY <2>1, SeqEqual
  <2> QED
    BY <1>2, <2>2, Zenon
<1> QED
  BY <1>1, <1>2

LEMMA WholeAnswer ==
  ASSUME NEW w \in Seq(Words), NEW g \in {0, 1}, Len(w) = g + 1, w[g + 1] = "whole"
  PROVE  IF g = 0 THEN OneAnswer(w) ELSE OneAnswer(Tail(w))
<1> DEFINE b == <<"whole">>
<1>1. b \in Seq(Words) /\ Len(b) = 1 /\ b[1] = "whole" /\ OneAnswer(b)
  BY DEF OneAnswer, Words
<1> HIDE DEF b
<1>2. \A i \in 1..Len(b) : w[g + i] = b[i]
  BY <1>1
<1> QED
  BY <1>1, <1>2, AnswerBehindContinue

LEMMA StreamedAnswer ==
  ASSUME NEW w \in Seq(Words), NEW g \in {0, 1}, NEW n \in Nat, n >= 1, Len(w) = g + n + 3,
         \A i \in 1..(n + 3) :
           w[g + i] = IF i = 1 THEN "head" ELSE IF i <= n THEN "delta"
                      ELSE IF i = n + 1 THEN "last" ELSE IF i = n + 2 THEN "[DONE]" ELSE "end"
  PROVE  IF g = 0 THEN OneAnswer(w) ELSE OneAnswer(Tail(w))
<1> DEFINE b == [i \in 1..(n + 3) |-> w[g + i]]
<1>1. \A i \in 1..(n + 3) : w[g + i] \in Words
  BY DEF Words
<1>2. b \in Seq(Words) /\ Len(b) = n + 3 /\ \A i \in 1..(n + 3) : b[i] = w[g + i]
  BY <1>1
<1> HIDE DEF b
<1>3. SubSeq(b, n + 1, n + 3) = <<"last", "[DONE]", "end">>
  <2> DEFINE t == SubSeq(b, n + 1, n + 3)
             e == <<"last", "[DONE]", "end">>
  <2>1. \A i \in (n + 1)..(n + 3) : b[i] \in Words
    BY <1>2
  <2>2. /\ t \in Seq(Words) /\ Len(t) = 3
        /\ \A i \in 1..3 : t[i] = b[n + i]
    <3>1. /\ n + 1 \in Int /\ n + 3 \in Int /\ n + 1 <= n + 3
          /\ (n + 3) - (n + 1) + 1 = 3
          /\ \A i \in 1..3 : n + 1 + i - 1 = n + i
      OBVIOUS
    <3> QED
      BY <2>1, <3>1, SubSeqProperties
  <2>3. b[n + 1] = "last" /\ b[n + 2] = "[DONE]" /\ b[n + 3] = "end"
    <3>1. \A i \in (n + 1)..(n + 3) : b[i] = IF i = n + 1 THEN "last" ELSE IF i = n + 2 THEN "[DONE]" ELSE "end"
      BY <1>2
    <3>2. n + 1 \in (n + 1)..(n + 3) /\ n + 2 \in (n + 1)..(n + 3) /\ n + 3 \in (n + 1)..(n + 3)
      OBVIOUS
    <3> QED
      BY <3>1, <3>2
  <2>4. e \in Seq(Words) /\ Len(e) = 3 /\ e[1] = "last" /\ e[2] = "[DONE]" /\ e[3] = "end"
    BY DEF Words
  <2> HIDE DEF t, e
  <2>5. \A i \in 1..3 : t[i] = e[i]
    BY <2>2, <2>3, <2>4
  <2>6. t = e
    BY <2>2, <2>4, <2>5, SeqEqual
  <2> QED
    BY <2>6 DEF t, e
<1>4. OneAnswer(b)
  <2>1. Len(b) >= 4 /\ b[1] = "head"
    BY <1>2
  <2>3. \A i \in 2..(Len(b) - 3) : b[i] = "delta"
    BY <1>2
  <2>2. Len(b) - 2 = n + 1 /\ Len(b) = n + 3
    BY <1>2
  <2> QED
    BY <1>3, <2>1, <2>2, <2>3 DEF Streamed, OneAnswer
<1>5. Len(w) = g + Len(b) /\ \A i \in 1..Len(b) : w[g + i] = b[i]
  BY <1>2
<1> QED
  BY <1>2, <1>4, <1>5, AnswerBehindContinue

\* What a step of c's thread does to the other connections: nothing, and a
\* poisoned mutex stays poisoned.
LEMMA OthersStay ==
  ASSUME IInv, NEW c \in Conns,
         \/ Accept(c) \/ (\E r \in Requests : Read(c, r)) \/ ReadFails(c)
         \/ Plain(c) \/ Lock(c) \/ Compute(c) \/ Answer(c) \/ Panics(c)
         \/ Stall(c) \/ Resume(c) \/ HangUp(c)
  PROVE  /\ \A d \in Conns : d # c =>
              /\ pc'[d] = pc[d] /\ request'[d] = request[d]
              /\ client'[d] = client[d] /\ sent'[d] = sent[d]
         /\ poisoned => poisoned'
<1> USE DEF Goto, engine
<1>t. /\ pc \in [Conns -> Places] /\ request \in [Conns -> Requests \cup {Unread}]
      /\ client \in [Conns -> {"reading", "stalled", "gone"}] /\ sent \in [Conns -> Seq(AnyFrame)]
  BY DEF IInv, Control, TypeOfEngine, Writing
<1>w. ASSUME NEW frames, Write(c, frames), NEW d \in Conns, d # c PROVE sent'[d] = sent[d]
  BY <1>w, <1>t DEF Write
<1>1. CASE Accept(c) \/ ReadFails(c) \/ BuildPrompt(c) \/ Name(c)
  BY <1>1, <1>t DEF Accept, ReadFails, BuildPrompt, Name
<1>2. CASE \E r \in Requests : Read(c, r)
  BY <1>2, <1>t, <1>w DEF Read
<1>3. CASE Plain(c) \/ Models(c)
  BY <1>3, <1>t, <1>w DEF Plain, Models
<1>4. CASE Enter(c)
  BY <1>4, <1>t, <1>w DEF Enter
<1>5. CASE Reset(c) \/ Prefill(c) \/ Stop(c) \/ Fail(c) \/ Panics(c)
  BY <1>5, <1>t DEF Reset, Prefill, Stop, Fail, Panics, ParsePanics, PromptPanics, Panic
<1>6. CASE Piece(c)
  BY <1>6, <1>t, <1>w DEF Piece
<1>7. CASE Answer(c)
  BY <1>7, <1>t, <1>w DEF Answer
<1>8. CASE Stall(c) \/ Resume(c) \/ HangUp(c)
  BY <1>8, <1>t DEF Stall, Resume, HangUp
<1> QED
  BY <1>1, <1>2, <1>3, <1>4, <1>5, <1>6, <1>7, <1>8 DEF Lock, Compute

\* A write appends its frames behind what the client has.
LEMMA WriteAppends ==
  ASSUME Writing, NEW c \in Conns, client[c] # "gone", NEW frames \in Seq(AnyFrame),
         Write(c, frames)
  PROVE  /\ sent'[c] \in Seq(AnyFrame)
         /\ Len(sent'[c]) = Len(sent[c]) + Len(frames)
         /\ \A i \in 1..Len(sent'[c]) :
              sent'[c][i] = IF i <= Len(sent[c]) THEN sent[c][i] ELSE frames[i - Len(sent[c])]
<1>1. sent[c] \in Seq(AnyFrame) /\ sent'[c] = sent[c] \o frames
  BY DEF Write, Writing
<1> QED
  BY <1>1, ConcatProperties

LEMMA WriteOneAppends ==
  ASSUME Writing, NEW c \in Conns, client[c] # "gone", NEW f \in AnyFrame, Write(c, <<f>>)
  PROVE  /\ Len(sent'[c]) = Len(sent[c]) + 1
         /\ sent'[c][Len(sent[c]) + 1] = f
         /\ \A i \in 1..Len(sent[c]) : sent'[c][i] = sent[c][i]
<1>1. sent[c] \in Seq(AnyFrame) /\ sent'[c] = sent[c] \o <<f>>
  BY DEF Write, Writing
<1>2. sent'[c] = Append(sent[c], f)
  BY <1>1
<1> QED
  BY <1>1, <1>2

LEMMA WholeEnds ==
  ASSUME NEW c \in Conns, sent'[c] \in Seq(AnyFrame), AnyRequestOf(c)', pc'[c] = "closed",
         Len(sent'[c]) = Greeted(c)' + 1, sent'[c][Greeted(c)' + 1].what = "whole"
  PROVE  InStep(c)' /\ Ending(c)'
<1>1. /\ What(c)' \in Seq(Words) /\ Len(What(c)') = Len(sent'[c])
      /\ \A i \in 1..Len(sent'[c]) : What(c)'[i] = sent'[c][i].what
  BY WhatIsSaid DEF What
<1>2. Greeted(c)' \in {0, 1} /\ (Greeted(c)' = 1 => request'[c].expect)
  BY DEF Greeted, AnyRequestOf
<1>4. Len(What(c)') = Greeted(c)' + 1 /\ What(c)'[Greeted(c)' + 1] = "whole"
  <2>1. Greeted(c)' + 1 \in 1..Len(sent'[c])
    BY <1>2
  <2> QED
    BY <1>1, <2>1
<1>3. IF Greeted(c)' = 0 THEN OneAnswer(What(c)') ELSE OneAnswer(Tail(What(c)'))
  BY <1>1, <1>2, <1>4, WholeAnswer
<1> QED
  BY <1>2, <1>3 DEF InStep, Ending, Generating

LEMMA StreamEnds ==
  ASSUME NEW c \in Conns, Writing, client[c] # "gone", Opened(c), request[c].stream,
         made \subseteq Conns, sent'[c] \in Seq(AnyFrame), AnyRequestOf(c)', pc'[c] = "closed",
         Greeted(c)' = Greeted(c), NEW k \in Nat, Write(c, Closing(c, k))
  PROVE  InStep(c)' /\ Ending(c)'
<1> DEFINE tail == Closing(c, k)
           g == Greeted(c)'
           h == Len(sent[c]) - g
           n == h + k
<1>1. /\ tail \in Seq(AnyFrame) /\ Len(tail) = k + 3
      /\ \A i \in 1..(k + 3) : tail[i].what = IF i <= k THEN "delta" ELSE IF i = k + 1 THEN "last"
                                             ELSE IF i = k + 2 THEN "[DONE]" ELSE "end"
  BY ClosingIs
<1>2. /\ sent[c] \in Seq(AnyFrame) /\ Len(sent[c]) \in Nat /\ g \in {0, 1}
      /\ g = 1 => request'[c].expect
  BY DEF Writing, Greeted, AnyRequestOf
<1>3. /\ h \in Nat /\ h >= 1 /\ Len(sent[c]) = g + h
      /\ sent[c][g + 1].what = "head"
      /\ \A i \in (g + 2)..Len(sent[c]) : sent[c][i].what = "delta"
  BY <1>2 DEF Opened
<1>w. Write(c, tail)
  OBVIOUS
<1> HIDE DEF tail, h, g
<1>4. /\ Len(sent'[c]) = Len(sent[c]) + (k + 3)
      /\ \A i \in 1..Len(sent'[c]) :
           sent'[c][i] = IF i <= Len(sent[c]) THEN sent[c][i] ELSE tail[i - Len(sent[c])]
  BY <1>1, <1>w, WriteAppends
<1> DEFINE w == What(c)'
<1>5. /\ w \in Seq(Words) /\ Len(w) = Len(sent'[c])
      /\ \A i \in 1..Len(sent'[c]) : w[i] = sent'[c][i].what
  BY WhatIsSaid DEF What
<1> HIDE DEF w
<1>n. n \in Nat /\ n >= 1 /\ n = h + k
  BY <1>3
<1> HIDE DEF n
<1>6. ASSUME NEW i \in 1..(n + 3)
      PROVE  w[g + i] = IF i = 1 THEN "head" ELSE IF i <= n THEN "delta"
                        ELSE IF i = n + 1 THEN "last" ELSE IF i = n + 2 THEN "[DONE]" ELSE "end"
  <2>0. g + i \in 1..Len(sent'[c])
    <3>1. PICK L, M : L = Len(sent[c]) /\ M = Len(sent'[c])
      OBVIOUS
    <3>2. L = g + h /\ M = L + (k + 3) /\ g \in {0, 1} /\ h \in Nat /\ k \in Nat /\ n = h + k
      BY <1>2, <1>3, <1>4, <1>n, <3>1
    <3>3. i \in 1..(n + 3)
      OBVIOUS
    <3>4. g + i \in 1..M
      BY ONLY <3>2, <3>3
    <3> QED
      BY <3>1, <3>4
  <2>1. g + i \in 1..Len(sent'[c]) /\ w[g + i] = sent'[c][g + i].what
    BY <1>5, <2>0
  <2>2. CASE i <= h
    <3>1. sent'[c][g + i] = sent[c][g + i]
      BY <1>2, <1>3, <1>4, <2>1, <2>2
    <3>2. i = 1 \/ g + i \in (g + 2)..Len(sent[c])
      BY <1>2, <1>3, <2>2
    <3>3. i <= n
      BY <1>3, <1>n, <2>2
    <3> QED
      BY <1>3, <2>1, <2>2, <3>1, <3>2, <3>3
  <2>3. CASE i > h
    <3>0. PICK j \in 1..Len(sent'[c]) : j = g + i
      BY <2>1
    <3>3. ~(j <= Len(sent[c])) /\ j - Len(sent[c]) = i - h
      BY <1>2, <1>3, <2>3, <3>0
    <3>4. sent'[c][j] = tail[j - Len(sent[c])]
      BY <1>4, <3>3
    <3>1. sent'[c][g + i] = tail[i - h]
      BY <3>0, <3>3, <3>4
    <3>2. i - h \in 1..(k + 3) /\ i # 1
      BY <1>3, <1>n, <2>3
    <3>5. PICK q : q = i - h
      OBVIOUS
    <3>6. tail[q].what = IF q <= k THEN "delta" ELSE IF q = k + 1 THEN "last"
                         ELSE IF q = k + 2 THEN "[DONE]" ELSE "end"
      BY <1>1, <3>2, <3>5
    <3>7. (q <= k <=> i <= n) /\ (q = k + 1 <=> i = n + 1) /\ (q = k + 2 <=> i = n + 2)
      <4>1. h \in Nat /\ k \in Nat /\ n = h + k /\ q = i - h /\ i \in 1..(n + 3)
        BY <1>3, <1>n, <3>5
      <4> QED
        BY ONLY <4>1
    <3> QED
      BY ONLY <2>1, <3>1, <3>2, <3>5, <3>6, <3>7
  <2> QED
    BY <1>3, <2>2, <2>3
<1>7. Len(w) = g + n + 3
  <2>1. PICK L, M : L = Len(sent[c]) /\ M = Len(sent'[c])
    OBVIOUS
  <2>2. L = g + h /\ M = L + (k + 3) /\ g \in {0, 1} /\ h \in Nat /\ k \in Nat /\ n = h + k
    BY <1>2, <1>3, <1>4, <1>n, <2>1
  <2>3. M = g + n + 3
    BY ONLY <2>2
  <2> QED
    BY <1>5, <2>1, <2>3
<1>8. IF g = 0 THEN OneAnswer(w) ELSE OneAnswer(Tail(w))
  <2>1. w \in Seq(Words) /\ g \in {0, 1} /\ n \in Nat /\ n >= 1
    BY ONLY <1>2, <1>n, <1>5
  <2> QED
    BY ONLY <1>6, <1>7, <2>1, StreamedAnswer, Zenon
<1> QED
  BY <1>2, <1>8 DEF InStep, Ending, Generating, w, g

\* The one connection whose thread moved.
LEMMA NextKeepsAttending == IInv /\ IInv' /\ Attending /\ Next => Attending'
<1> SUFFICES ASSUME IInv, IInv', Attending, NEW c \in Conns,
                    \/ Accept(c) \/ (\E r \in Requests : Read(c, r)) \/ ReadFails(c)
                    \/ Plain(c) \/ Lock(c) \/ Compute(c) \/ Answer(c) \/ Panics(c)
                    \/ Stall(c) \/ Resume(c) \/ HangUp(c)
             PROVE  Attending'
  BY DEF Next
<1>o. \A d \in Conns : d # c /\ client'[d] # "gone" => InStep(d)' /\ Ending(d)'
  <2> SUFFICES ASSUME NEW d \in Conns, d # c, client'[d] # "gone"
               PROVE  InStep(d)' /\ Ending(d)'
    OBVIOUS
  <2>1. /\ pc'[d] = pc[d] /\ request'[d] = request[d]
        /\ client'[d] = client[d] /\ sent'[d] = sent[d] /\ (poisoned => poisoned')
    BY OthersStay
  <2>2. InStep(d) /\ Ending(d)
    BY <2>1 DEF Attending
  <2>3. InStep(d)'
    BY <2>1, <2>2 DEF InStep, Opened, Greeted
  <2>4. What(d)' = What(d)
    BY <2>1 DEF What
  <2>5. Ending(d)'
    BY <2>1, <2>2, <2>4 DEF Ending, IsCompletion
  <2> QED
    BY <2>3, <2>5
<1> SUFFICES ASSUME client'[c] # "gone" PROVE InStep(c)' /\ Ending(c)'
  BY <1>o DEF Attending
<1> USE DEF Goto, engine
<1>t. /\ pc \in [Conns -> Places] /\ request \in [Conns -> Requests \cup {Unread}]
      /\ client \in [Conns -> {"reading", "stalled", "gone"}] /\ sent \in [Conns -> Seq(AnyFrame)]
      /\ Writing
  BY DEF IInv, Control, TypeOfEngine, Writing
<1>tt. sent'[c] \in Seq(AnyFrame) /\ request'[c] \in Requests \cup {Unread}
  BY DEF IInv, Control, TypeOfEngine, Writing
<1>a. AnyRequestOf(c) /\ AnyRequestOf(c)'
  <2>1. ASSUME NEW r \in Requests \cup {Unread} PROVE r.expect \in BOOLEAN /\ r.stream \in BOOLEAN
    <3>1. CASE r = Unread
      BY <3>1 DEF Unread
    <3>2. CASE r \in AnyRequest
      BY <3>2 DEF AnyRequest
    <3> QED
      BY <3>1, <3>2, ServerAssumption
  <2> QED
    BY <1>t, <1>tt, <2>1 DEF AnyRequestOf
<1>c. client[c] # "gone"
  BY <1>t DEF Accept, Read, ReadFails, Plain, Lock, Models, BuildPrompt, Name, Enter, Compute, Reset,
              Prefill, Piece, Stop, Fail, Answer, Panics, ParsePanics, PromptPanics, Panic, Stall, Resume, HangUp
<1>s. InStep(c) /\ Ending(c)
  BY <1>c DEF Attending
<1>y. Writing
  BY DEF IInv
<1>g. Greeted(c) \in {0, 1} /\ Len(sent[c]) \in Nat
  BY <1>t DEF Greeted
<1>i. pc[c] \in {"named", "enter"} => IsCompletion(request[c])
  BY <1>c DEF Attending, InStep
<1>k. context \subseteq Conns /\ made \subseteq Conns
  BY DEF IInv, Control, TypeOfEngine
<1>1. CASE Accept(c)
  <2>1. pc'[c] = "reading" /\ pc[c] = "new" /\ sent' = sent
    BY <1>1, <1>t DEF Accept
  <2> QED
    BY <2>1, <1>s DEF InStep, Ending, Generating
<1>2. ASSUME NEW r \in Requests, Read(c, r) PROVE InStep(c)' /\ Ending(c)'
  <2>1. pc'[c] = "handle" /\ pc[c] = "reading" /\ request'[c] = r /\ Len(sent[c]) = 0
    BY <1>2, <1>t, <1>s DEF Read, InStep
  <2>2. CASE r.expect
    <3>1. PICK f \in AnyFrame : Write(c, <<f>>)
      BY <1>2, <2>2, Silent DEF Read
    <3>3. Len(sent'[c]) = Len(sent[c]) + 1
      BY <1>y, <1>c, <3>1, WriteOneAppends
    <3>2. Len(sent'[c]) = 1
      BY <2>1, <3>3
    <3> QED
      BY <2>1, <2>2, <3>2 DEF InStep, Ending, Greeted, Generating
  <2>3. CASE ~r.expect
    <3>1. Write(c, <<>>)
      BY <1>2, <2>3 DEF Read
    <3>2. Len(sent'[c]) = 0
      BY <1>t, <2>1, <3>1, WriteNone
    <3> QED
      BY <2>1, <2>3, <3>2 DEF InStep, Ending, Greeted, Generating
  <2> QED
    BY <2>2, <2>3
<1>3. CASE ReadFails(c)
  <2>1. pc'[c] = "closed" /\ request'[c] = Unread
    BY <1>3, <1>t DEF ReadFails, IInv, Control, Clean
  <2> QED
    BY <2>1 DEF InStep, Ending, Generating
<1>4. CASE Plain(c) \/ Models(c)
  <2>1. /\ pc'[c] = "closed" /\ pc[c] = "handle" /\ request' = request
        /\ Write(c, <<Frame("whole", {})>>) /\ Len(sent[c]) = Greeted(c)
    BY <1>4, <1>t, <1>s DEF Plain, Models, InStep
  <2> DEFINE f == Frame("whole", {})
  <2>2. f \in AnyFrame /\ f.what = "whole" /\ Write(c, <<f>>)
    BY <2>1, Silent DEF Frame
  <2> HIDE DEF f
  <2>3. Greeted(c)' = Greeted(c)
    BY <2>1 DEF Greeted
  <2>4. Len(sent'[c]) = Greeted(c) + 1 /\ sent'[c][Greeted(c) + 1] = f
    BY <1>t, <1>c, <1>g, <2>1, <2>2, WriteOneAppends
  <2> QED
    BY <1>a, <1>tt, <2>1, <2>2, <2>3, <2>4, WholeEnds
<1>5. CASE BuildPrompt(c)
  <2>1. /\ pc'[c] = (IF poisoned THEN "closed" ELSE "named") /\ pc[c] = "handle"
        /\ IsCompletion(request[c]) /\ request' = request /\ sent' = sent /\ poisoned' = poisoned
    BY <1>5, <1>t DEF BuildPrompt, IsCompletion
  <2> QED
    BY <2>1, <1>s DEF InStep, Ending, Generating, Greeted, IsCompletion
<1>6. CASE Name(c)
  <2>1. /\ pc'[c] = "enter" /\ pc[c] \in {"handle", "named"} /\ request' = request /\ sent' = sent
        /\ IsCompletion(request[c])
    BY <1>6, <1>t, <1>i DEF Name, IsCompletion
  <2> QED
    BY <2>1, <1>s DEF InStep, Ending, Generating, Greeted
<1>7. CASE Enter(c)
  <2>1. pc[c] = "enter" /\ Len(sent[c]) = Greeted(c) /\ request' = request /\ poisoned' = poisoned
    BY <1>7, <1>s DEF Enter, InStep
  <2>2. Greeted(c)' = Greeted(c)
    BY <2>1 DEF Greeted
  <2>3. CASE poisoned
    <3>1. pc'[c] = "closed" /\ Write(c, <<>>)
      BY <1>7, <1>t, <2>3 DEF Enter, Entry
    <3>2. IsCompletion(request[c])
      BY <1>i, <2>1
    <3> QED
      BY <2>1, <2>3, <3>1, <3>2 DEF InStep, Ending, Generating, IsCompletion
  <2>4. CASE ~poisoned
    <3>1. pc'[c] = "entered"
      BY <1>7, <1>t, <2>4 DEF Enter, Entry
    <3>2. CASE request[c].stream
      <4>1. Write(c, <<Frame("head", {})>>)
        BY <1>7, <2>4, <3>2 DEF Enter, Entry
      <4>2. PICK f \in AnyFrame : Write(c, <<f>>) /\ f.what = "head"
        BY <4>1, Silent DEF Frame
      <4>3. Len(sent'[c]) = Greeted(c) + 1 /\ sent'[c][Greeted(c) + 1] = f
        BY <1>t, <1>c, <1>g, <2>1, <4>2, WriteOneAppends
      <4>4. Opened(c)'
        BY <1>g, <2>2, <4>2, <4>3 DEF Opened
      <4> QED
        BY <2>1, <3>1, <3>2, <4>4 DEF InStep, Ending, Generating
    <3>3. CASE ~request[c].stream
      <4>1. Write(c, <<>>)
        BY <1>7, <3>3 DEF Enter
      <4>2. sent' = sent
        BY <1>t, <4>1, WriteNone
      <4> QED
        BY <2>1, <2>2, <3>1, <3>3, <4>2 DEF InStep, Ending, Generating
    <3> QED
      BY <3>2, <3>3
  <2> QED
    BY <2>3, <2>4
<1>8. ASSUME pc[c] \in Generating, pc'[c] \in Generating \cup {"panicked"}, request' = request, sent' = sent
      PROVE  InStep(c)' /\ Ending(c)'
  BY <1>8, <1>s DEF InStep, Ending, Generating, Opened, Greeted
<1>13. CASE ParsePanics(c) \/ PromptPanics(c)
  <2>1. pc'[c] = "panicked"
    BY <1>13, <1>t DEF ParsePanics, PromptPanics
  <2> QED
    BY <2>1 DEF InStep, Ending, Generating
<1>9. CASE Reset(c) \/ Prefill(c) \/ Stop(c) \/ Fail(c) \/ Panic(c)
  BY <1>8, <1>9, <1>t DEF Reset, Prefill, Stop, Fail, Panic, Generating
<1>10. CASE Piece(c)
  <2>1. pc[c] \in Generating /\ pc'[c] \in Generating /\ request' = request
    BY <1>10, <1>t DEF Piece, Generating
  <2>2. CASE sent' = sent
    BY <1>8, <2>1, <2>2
  <2>3. CASE request[c].stream /\ Write(c, <<Frame("delta", context)>>)
    <3>1. PICK f \in AnyFrame : Write(c, <<f>>) /\ f.what = "delta"
      BY <2>3, <1>k DEF Frame, AnyFrame
    <3>2. Opened(c)
      BY <1>s, <2>1, <2>3 DEF InStep
    <3>3. /\ Len(sent'[c]) = Len(sent[c]) + 1 /\ sent'[c][Len(sent[c]) + 1] = f
          /\ \A i \in 1..Len(sent[c]) : sent'[c][i] = sent[c][i]
      BY <1>t, <1>c, <3>1, WriteOneAppends
    <3>4. Greeted(c)' = Greeted(c)
      BY <2>1 DEF Greeted
    <3>5. Opened(c)'
      <4>1. Len(sent'[c]) > Greeted(c) /\ sent'[c][Greeted(c) + 1].what = "head"
        BY <1>g, <3>2, <3>3 DEF Opened
      <4>2. ASSUME NEW i \in (Greeted(c) + 2)..Len(sent'[c]) PROVE sent'[c][i].what = "delta"
        <5>1. i = Len(sent[c]) + 1 \/ i \in (Greeted(c) + 2)..Len(sent[c])
          BY <1>g, <3>3
        <5>2. i \in (Greeted(c) + 2)..Len(sent[c]) => i \in 1..Len(sent[c])
          BY <1>g
        <5> QED
          BY <3>1, <3>2, <3>3, <5>1, <5>2 DEF Opened
      <4> QED
        BY <3>4, <4>1, <4>2 DEF Opened
    <3> QED
      BY <2>1, <2>3, <3>5 DEF InStep, Ending, Generating
  <2> QED
    BY <1>10, <2>2, <2>3 DEF Piece
<1>11. CASE Answer(c)
  <2>1. /\ pc[c] \in Generating /\ pc'[c] = "closed" /\ request' = request
    BY <1>11, <1>t DEF Answer, Generating
  <2>5. PICK n \in Nat : Write(c, Closing(c, n))
    BY <1>11 DEF Answer, Tails
  <2>2. Greeted(c)' = Greeted(c)
    BY <2>1 DEF Greeted
  <2>3. CASE ~request[c].stream
    <3>1. PICK f \in AnyFrame : Write(c, <<f>>) /\ f.what = "whole"
      BY <2>5, <2>3, <1>k DEF Closing, Frame, AnyFrame
    <3>2. Len(sent[c]) = Greeted(c)
      BY <1>s, <2>1, <2>3 DEF InStep
    <3>3. Len(sent'[c]) = Greeted(c) + 1 /\ sent'[c][Greeted(c) + 1] = f
      BY <1>t, <1>c, <1>g, <3>1, <3>2, WriteOneAppends
    <3> QED
      BY <1>a, <1>tt, <2>1, <2>2, <3>1, <3>3, WholeEnds
  <2>4. CASE request[c].stream
    <3>2. Opened(c)
      BY <1>s, <2>1, <2>4 DEF InStep
    <3> QED
      BY <1>a, <1>tt, <1>t, <1>c, <1>k, <2>1, <2>2, <2>4, <2>5, <3>2, StreamEnds
  <2> QED
    BY <1>a, <2>3, <2>4 DEF AnyRequestOf
<1>12. CASE Stall(c) \/ Resume(c) \/ HangUp(c)
  BY <1>12, <1>s DEF Stall, Resume, HangUp, InStep, Opened, Greeted, Ending, What, IsCompletion
<1> QED
  BY <1>1, <1>2, <1>3, <1>4, <1>5, <1>6, <1>7, <1>9, <1>10, <1>11, <1>12, <1>13 DEF Lock, Compute, Panics

-----------------------------------------------------------------------------
\* Type correctness of the server's threads, its engine and what they write.
THEOREM TypeCorrect == Spec => []TypeOK
<1>1. IInv => TypeOK
  BY DEF IInv, Control, Writing, TypeOfEngine, TypeOK, AnyFrame
<1> QED
  BY <1>1, Invariance, PTL

\* Requests are serialized: the mutex belongs to the one thread between Enter
\* and the end of its answer, on every path, a panic included.
THEOREM Serialized == Spec => []OneGeneration
<1>1. IInv => OneGeneration
  BY DEF IInv, Control
<1> QED
  BY <1>1, Invariance, PTL

\* Nothing a client is sent was computed from another request's tokens.
THEOREM AnswersAreOwn == Spec => []OwnAnswer
<1>1. IInv => OwnAnswer
  BY DEF IInv, Writing
<1> QED
  BY <1>1, Invariance, PTL

\* Once the mutex is poisoned no completion is sent anything.
THEOREM PoisonedIsSilent == Spec => PoisonSilences
<1> DEFINE Mute == poisoned => \A c \in Conns : IsCompletion(request[c]) => sent'[c] = sent[c]
<1>1. IInv /\ [Next]_vars => [Mute]_vars
  <2> SUFFICES ASSUME IInv, Next, poisoned, NEW d \in Conns, IsCompletion(request[d])
               PROVE  sent'[d] = sent[d]
    OBVIOUS
  <2>1. PICK c \in Conns :
           \/ Accept(c) \/ (\E r \in Requests : Read(c, r)) \/ ReadFails(c)
           \/ Plain(c) \/ Lock(c) \/ Compute(c) \/ Answer(c) \/ Panics(c)
           \/ Stall(c) \/ Resume(c) \/ HangUp(c)
    BY DEF Next
  <2>2. /\ pc[c] \notin Generating
        /\ pc[c] = "reading" => ~IsCompletion(request[c])
    BY ServerAssumption DEF IInv, Control, OneGeneration, Clean, IsCompletion, Unread
  <2>3. ASSUME NEW frames, Write(c, frames), d # c PROVE sent'[d] = sent[d]
    BY <2>3 DEF Write, IInv, Writing
  <2>4. CASE \E r \in Requests : Read(c, r)
    BY <2>2, <2>3, <2>4 DEF Read
  <2>5. CASE Plain(c) \/ Models(c)
    <3>1. ~IsCompletion(request[c])
      BY <2>5 DEF Plain, Models, IsCompletion
    <3> QED
      BY <2>3, <2>5, <3>1 DEF Plain, Models
  <2>6. CASE Enter(c)
    <3>1. Write(c, <<>>)
      BY <2>6 DEF Enter, Entry
    <3> QED
      BY <3>1, WriteNone DEF IInv
  <2>7. CASE Compute(c) \/ Answer(c) \/ Panics(c)
    BY <2>2, <2>7 DEF Compute, Reset, Prefill, Piece, Stop, Fail, Panics, ParsePanics, PromptPanics, Panic, Answer, Generating
  <2>8. CASE Accept(c) \/ ReadFails(c) \/ BuildPrompt(c) \/ Name(c)
             \/ Stall(c) \/ Resume(c) \/ HangUp(c)
    BY <2>8 DEF Accept, ReadFails, BuildPrompt, Name, Stall, Resume, HangUp
  <2> QED
    BY <2>1, <2>4, <2>5, <2>6, <2>7, <2>8 DEF Lock
<1> QED
  BY <1>1, Invariance, PTL DEF Spec, PoisonSilences

\* Each client that stays gets exactly one complete answer, and a thread that
\* ends without one could not read its request or met a poisoned mutex.
THEOREM EachIsAnswered == Spec => []Answered
<1>1. Init => Attending
  BY DEF Init, Attending, InStep, Ending, Generating
<1>2. ASSUME Attending, UNCHANGED vars PROVE Attending'
  BY <1>2 DEF vars, Attending, InStep, Opened, Greeted, Ending, What, IsCompletion
<1>3. IInv /\ IInv' /\ Attending /\ [Next]_vars => Attending'
  BY <1>2, NextKeepsAttending
<1>4. Attending => Answered
  BY DEF Attending, Ending, Answered
<1> QED
  BY <1>1, <1>3, <1>4, Invariance, PTL DEF Spec

\* The mutex isolates the requests of src/server.rs from each other.
THEOREM RequestsAreIsolated == Spec => []Isolated
<1>1. TypeOK /\ OwnAnswer /\ OneGeneration => Isolated
  BY DEF Isolated
<1> QED
  BY <1>1, TypeCorrect, AnswersAreOwn, Serialized, PTL

-----------------------------------------------------------------------------
\* Chat.

ChPlaces == {"begin", "prefill", "top", "next", "round", "emit", "ended"}
AnyToken == Vocab \cup {PromptTok, WrongTok}
Limit == IF cli.predict = 0 THEN 1 ELSE cli.predict

ChTypeOK ==
  /\ chAt \in ChPlaces
  /\ cli \in Args
  /\ reply \in [1..ChHorizon -> Vocab]
  /\ caches \in Seq(AnyToken \X Nat)
  /\ nPast \in Nat
  /\ pick \in AnyToken
  /\ drafted \in Seq(Vocab)
  /\ printed \in Seq(Vocab)
  /\ ending \in {"none", "eos", "limit", "error"}

\* Where the loops are: the caches hold the prompt and the reply up to the last
\* token forwarded, n_past counts them at the head of the speculative loop, and
\* what is about to be printed is the reply's next token.
AtTop ==
  /\ Len(caches) = cli.prompt + Len(printed)
  /\ Drafting => nPast = Len(caches)
  /\ pick = reply[Len(printed) + 1]
  /\ drafted = <<>>

AtNext ==
  /\ Len(printed) > 0
  /\ Len(caches) = cli.prompt + Len(printed) - 1
  /\ Drafting => nPast = Len(caches)
  /\ pick = reply[Len(printed)]
  /\ drafted = <<>>

InRound ==
  /\ Drafting
  /\ Len(printed) > 0
  /\ Len(drafted) <= MaxDraft
  /\ nPast = cli.prompt + Len(printed) - 1
  /\ Len(caches) = nPast + 1 + Len(drafted)
  /\ \A i \in 1..Len(drafted) : drafted[i] = reply[Len(printed) + i]

InEmit ==
  /\ Drafting
  /\ Len(printed) + Len(drafted) < MaxPredict + MaxDraft
  /\ Len(caches) = cli.prompt + (Len(printed) + Len(drafted))
  /\ nPast = Len(caches)
  /\ \A i \in 1..Len(drafted) : drafted[i] = reply[Len(printed) + i]
  /\ pick = reply[Len(printed) + Len(drafted) + 1]

ChWhere ==
  /\ chAt = "begin" => caches = <<>>
  /\ chAt \in {"begin", "prefill"} => printed = <<>> /\ drafted = <<>>
  /\ chAt = "prefill" => cli.prompt > 0 /\ Len(caches) <= cli.prompt
  /\ chAt \in {"top", "next", "round", "emit"} => cli.prompt > 0 /\ Len(printed) < Limit
  /\ chAt = "top" => AtTop
  /\ chAt = "next" => AtNext
  /\ chAt = "round" => InRound
  /\ chAt = "emit" => InEmit

CachesHoldTheReply ==
  chAt # "ended" => \A i \in 1..Len(caches) : caches[i] = <<TokenOf(i - 1), i - 1>>

ChInv == ChTypeOK /\ ChWhere /\ CachesHoldTheReply

\* What a step may change without touching a context.
Holds(ctx) == \A i \in 1..Len(ctx) : ctx[i] = <<TokenOf(i - 1), i - 1>>

-----------------------------------------------------------------------------
LEMMA Numbers ==
  ASSUME ChTypeOK
  PROVE  /\ cli.prompt \in Nat /\ cli.predict \in 0..MaxPredict
         /\ cli.sidecar \in BOOLEAN /\ cli.random \in BOOLEAN
         /\ Limit \in 1..MaxPredict /\ MaxDraft \in Nat /\ MaxPredict \in Nat
         /\ ChHorizon \in Nat /\ ChHorizon = MaxPredict + MaxDraft + 2
         /\ Len(caches) \in Nat /\ Len(printed) \in Nat /\ Len(drafted) \in Nat
         /\ (Budget <=> Len(printed) + 1 >= Limit)
         /\ Drafting \in BOOLEAN
<1>1. cli.prompt \in Nat /\ cli.predict \in 0..MaxPredict /\ cli.sidecar \in BOOLEAN /\ cli.random \in BOOLEAN
  BY ChatAssumption DEF ChTypeOK, Args
<1>2. /\ Limit \in 1..MaxPredict /\ MaxDraft \in Nat /\ MaxPredict \in Nat
      /\ ChHorizon \in Nat /\ ChHorizon = MaxPredict + MaxDraft + 2
  BY <1>1, ChatAssumption DEF Limit, ChHorizon
<1>3. Len(caches) \in Nat /\ Len(printed) \in Nat /\ Len(drafted) \in Nat
  BY DEF ChTypeOK
<1>4. Budget <=> Len(printed) + 1 >= Limit
  BY <1>1, <1>2, <1>3 DEF Budget, Limit
<1>5. Drafting \in BOOLEAN
  BY DEF Drafting
<1> QED
  BY <1>1, <1>2, <1>3, <1>4, <1>5

\* The token of a position of the reply.
LEMMA ReplyAt ==
  ASSUME ChTypeOK, NEW n \in Nat
  PROVE  TokenOf(cli.prompt + n) = reply[n + 1]
<1>0. PICK p \in Nat : p = cli.prompt
  BY Numbers
<1>1. PICK k \in Nat : k = p + n
  BY <1>0
<1>4. ~(k < p) /\ k - p + 1 = n + 1
  BY <1>1
<1>2. ~(k < cli.prompt) /\ k - cli.prompt + 1 = n + 1
  BY <1>0, <1>4
<1>3. TokenOf(k) = reply[k - cli.prompt + 1]
  BY <1>2, Zenon DEF TokenOf
<1> QED
  BY <1>0, <1>1, <1>2, <1>3

\* After a context of the prompt and n tokens of the reply the target picks the
\* next one, and the argmax of a round is that choice.
LEMMA ChoiceIsTheReply ==
  ASSUME ChTypeOK, Holds(caches), NEW n \in Nat, Len(caches) = cli.prompt + n, n < ChHorizon
  PROVE  /\ Choice(caches) = reply[n + 1] /\ reply[n + 1] \in Vocab
         /\ Drafting => Argmax(caches) = reply[n + 1]
<1>1. Len(caches) \in cli.prompt..(cli.prompt + ChHorizon - 1)
  BY Numbers
<1>2. TokenOf(Len(caches)) = reply[n + 1]
  BY ReplyAt
<1>3. Choice(caches) = reply[n + 1]
  BY <1>1, <1>2 DEF Choice, Holds
<1>4. reply[n + 1] \in Vocab
  <2>1. n + 1 \in 1..ChHorizon
    BY Numbers
  <2> QED
    BY <2>1 DEF ChTypeOK
<1>5. Drafting => Argmax(caches) = Choice(caches)
  BY DEF Argmax, Drafting
<1> QED
  BY <1>3, <1>4, <1>5

\* A forward of the token that belongs to the next position, at that position.
LEMMA ForwardHolds ==
  ASSUME ChTypeOK, Holds(caches), NEW t \in AnyToken, t = TokenOf(Len(caches)),
         caches' = Append(caches, <<t, Len(caches)>>), UNCHANGED <<cli, reply>>
  PROVE  Holds(caches)' /\ Len(caches') = Len(caches) + 1 /\ caches' \in Seq(AnyToken \X Nat)
<1>1. caches \in Seq(AnyToken \X Nat) /\ Len(caches) \in Nat
  BY DEF ChTypeOK
<1>2. <<t, Len(caches)>> \in AnyToken \X Nat
  BY <1>1
<1> DEFINE e == <<t, Len(caches)>>
<1>3. e \in AnyToken \X Nat /\ caches' = Append(caches, e)
  BY <1>2
<1> HIDE DEF e
<1>4. /\ caches' \in Seq(AnyToken \X Nat) /\ Len(caches') = Len(caches) + 1
      /\ caches'[Len(caches) + 1] = e
      /\ \A i \in 1..Len(caches) : caches'[i] = caches[i]
  BY <1>1, <1>3
<1>5. ASSUME NEW i \in 1..Len(caches') PROVE caches'[i] = <<TokenOf(i - 1)', i - 1>>
  <2>1. TokenOf(i - 1)' = TokenOf(i - 1)
    BY DEF TokenOf
  <2>2. CASE i \in 1..Len(caches)
    BY <1>4, <2>1, <2>2 DEF Holds
  <2>3. CASE i = Len(caches) + 1
    <3>1. i - 1 = Len(caches)
      BY <1>1, <2>3
    <3> QED
      BY <1>4, <2>1, <2>3, <3>1 DEF e
  <2> QED
    BY <1>1, <1>4, <2>2, <2>3
<1> QED
  BY <1>4, <1>5 DEF Holds

\* The token printed last is the one its forward's position wants.
LEMMA PickIsNext ==
  ASSUME ChTypeOK, AtNext
  PROVE  pick = TokenOf(Len(caches)) /\ pick \in AnyToken
<1> DEFINE n == Len(printed) - 1
<1>1. n \in Nat /\ Len(caches) = cli.prompt + n /\ n + 1 = Len(printed)
  BY Numbers DEF AtNext
<1> HIDE DEF n
<1>2. TokenOf(Len(caches)) = reply[Len(printed)]
  BY <1>1, ReplyAt
<1> QED
  BY <1>2 DEF AtNext, ChTypeOK

\* ChoiceIsTheReply of the context a forward leaves.
LEMMA ChoiceAfterForward ==
  ASSUME ChTypeOK, UNCHANGED <<cli, reply>>, Holds(caches)',
         NEW n \in Nat, Len(caches') = cli.prompt + n, n < ChHorizon
  PROVE  Choice(caches') = reply[n + 1] /\ reply[n + 1] \in Vocab
<1>1. Len(caches') \in cli.prompt..(cli.prompt + ChHorizon - 1)
  <2>1. PICK p : p = cli.prompt
    OBVIOUS
  <2>2. PICK h : h = ChHorizon
    OBVIOUS
  <2>3. p \in Nat /\ h \in Nat /\ n < h /\ Len(caches') = p + n
    BY <2>1, <2>2, Numbers
  <2>4. p + n \in p..(p + h - 1)
    BY ONLY <2>3
  <2>5. QED BY <2>1, <2>2, <2>3, <2>4
<1>2. \A i \in 1..Len(caches') : caches'[i] = <<TokenOf(i - 1), i - 1>>
  BY DEF Holds, TokenOf
<1>3. TokenOf(Len(caches')) = reply[n + 1]
  BY ReplyAt
<1>4. Choice(caches') = reply[n + 1]
  BY <1>1, <1>2, <1>3 DEF Choice
<1>5. n + 1 \in 1..ChHorizon
  BY Numbers
<1> QED
  BY <1>4, <1>5 DEF ChTypeOK

-----------------------------------------------------------------------------
LEMMA InitInv == ChInit => ChInv
<1> SUFFICES ASSUME ChInit PROVE ChInv
  OBVIOUS
<1>1. ChTypeOK
  BY DEF ChInit, ChRest, ChTypeOK, ChPlaces, AnyToken
<1>2. ChWhere /\ CachesHoldTheReply
  BY DEF ChInit, ChRest, ChWhere, CachesHoldTheReply
<1> QED
  BY <1>1, <1>2 DEF ChInv

LEMMA NextInv == ChInv /\ ChNext => ChInv'
<1> SUFFICES ASSUME ChInv, ChNext PROVE ChInv'
  OBVIOUS
<1>i. ChTypeOK /\ ChWhere /\ CachesHoldTheReply
  BY DEF ChInv
<1>h. chAt # "ended" => Holds(caches)
  BY <1>i DEF CachesHoldTheReply, Holds
<1>k. (chAt' # "ended" => Holds(caches)') => CachesHoldTheReply'
  BY DEF CachesHoldTheReply, Holds
<1>n. /\ cli.prompt \in Nat /\ Limit \in 1..MaxPredict /\ MaxDraft \in Nat /\ MaxPredict \in Nat
      /\ ChHorizon \in Nat /\ ChHorizon = MaxPredict + MaxDraft + 2
      /\ Len(caches) \in Nat /\ Len(printed) \in Nat /\ Len(drafted) \in Nat
      /\ (Budget <=> Len(printed) + 1 >= Limit)
  BY <1>i, Numbers
<1>s. ASSUME UNCHANGED <<cli, reply, caches>>, chAt # "ended" PROVE Holds(caches)'
  BY <1>h, <1>s DEF Holds, TokenOf
<1>l. cli' = cli => Limit' = Limit /\ Drafting' = Drafting
  BY DEF Limit, Drafting
<1>1. CASE NoPrompt \/ ChError \/ TopStops \/ EmitStops
  <2>1. ChTypeOK'
    BY <1>1, <1>i DEF NoPrompt, ChError, TopStops, EmitStops, End, ChTypeOK, ChPlaces
  <2>2. chAt' = "ended"
    BY <1>1 DEF NoPrompt, ChError, TopStops, EmitStops, End
  <2> QED
    BY <2>1, <2>2 DEF ChInv, ChWhere, CachesHoldTheReply
<1>2. CASE BeginPrefill
  <2>1. ChTypeOK'
    BY <1>2, <1>i DEF BeginPrefill, ChTypeOK, ChPlaces
  <2>2. ChWhere'
    BY <1>2, <1>i, <1>n DEF BeginPrefill, ChWhere
  <2>3. Holds(caches)'
    BY <1>2, <1>s DEF BeginPrefill
  <2> QED
    BY <1>k, <2>1, <2>2, <2>3 DEF ChInv
<1>3. CASE PrefillNext
  <2>1. PromptTok \in AnyToken /\ TokenOf(Len(caches)) = PromptTok
    BY <1>3 DEF PrefillNext, TokenOf, AnyToken
  <2>2. Holds(caches)' /\ Len(caches') = Len(caches) + 1 /\ caches' \in Seq(AnyToken \X Nat)
    BY <1>3, <1>i, <1>h, <2>1, ForwardHolds DEF PrefillNext
  <2>3. ChTypeOK'
    BY <1>3, <1>i, <2>2 DEF PrefillNext, ChTypeOK
  <2>4. ChWhere'
    BY <1>3, <1>i, <1>n, <2>2 DEF PrefillNext, ChWhere
  <2> QED
    BY <1>k, <2>2, <2>3, <2>4 DEF ChInv
<1>4. CASE FirstChoice
  <2>1. /\ chAt = "prefill" /\ chAt' = "top" /\ Len(caches) = cli.prompt /\ cli.prompt > 0
        /\ printed = <<>> /\ drafted = <<>>
        /\ UNCHANGED <<cli, reply, caches, drafted, printed, ending>>
        /\ pick' = Choice(caches) /\ nPast' = cli.prompt
    BY <1>4, <1>i DEF FirstChoice, ChWhere
  <2>2. Choice(caches) = reply[1] /\ reply[1] \in Vocab
    <3>1. 0 \in Nat /\ 0 < ChHorizon /\ Len(caches) = cli.prompt + 0 /\ 0 + 1 = 1
      BY <1>n, <2>1
    <3>2. Choice(caches) = reply[0 + 1] /\ reply[0 + 1] \in Vocab
      BY <1>i, <1>h, <2>1, <3>1, ChoiceIsTheReply
    <3> QED
      BY <3>1, <3>2
  <2>3. ChTypeOK'
    BY <1>i, <1>n, <2>1, <2>2 DEF ChTypeOK, ChPlaces, AnyToken
  <2>4. ChWhere'
    BY <1>n, <1>l, <2>1, <2>2 DEF ChWhere, AtTop
  <2> QED
    BY <1>k, <1>s, <2>1, <2>3, <2>4 DEF ChInv
<1>5. CASE TopWrites
  <2>1. /\ chAt = "top" /\ AtTop /\ cli.prompt > 0 /\ Len(printed) < Limit
        /\ UNCHANGED <<cli, reply, caches, nPast, pick, drafted>>
        /\ printed' = Append(printed, pick)
    BY <1>5, <1>i DEF TopWrites, ChWhere
  <2>2. pick = reply[Len(printed) + 1] /\ pick \in Vocab
    BY <1>i, <1>n, <2>1 DEF AtTop, ChTypeOK
  <2>3. Len(printed') = Len(printed) + 1 /\ printed' \in Seq(Vocab)
    BY <1>i, <2>1, <2>2 DEF ChTypeOK
  <2>4. \/ chAt' = "ended" /\ ending' = "limit"
        \/ chAt' = "next" /\ ending' = ending /\ Len(printed) + 1 < Limit
    BY <1>5, <1>n DEF TopWrites, End
  <2>5. ChTypeOK'
    BY <1>i, <2>1, <2>3, <2>4 DEF ChTypeOK, ChPlaces
  <2>6. ChWhere'
    BY <1>n, <1>l, <2>1, <2>2, <2>3, <2>4 DEF ChWhere, AtTop, AtNext
  <2> QED
    BY <1>k, <1>s, <2>1, <2>5, <2>6 DEF ChInv
<1>6. CASE PlainNext
  <2>1. /\ chAt = "next" /\ chAt' = "top" /\ AtNext /\ ~Drafting /\ cli.prompt > 0 /\ Len(printed) < Limit
        /\ UNCHANGED <<cli, reply, nPast, drafted, printed, ending>>
        /\ caches' = Append(caches, <<pick, cli.prompt + Len(printed) - 1>>)
        /\ pick' = Choice(caches')
    BY <1>6, <1>i DEF PlainNext, ChWhere
  <2>2. Len(caches) = cli.prompt + Len(printed) - 1
    BY <2>1 DEF AtNext
  <2>3. pick = TokenOf(Len(caches))
    BY <1>i, <1>n, <2>1, <2>2, PickIsNext
  <2>4. Holds(caches)' /\ Len(caches') = Len(caches) + 1 /\ caches' \in Seq(AnyToken \X Nat)
    BY <1>i, <1>h, <2>1, <2>2, <2>3, ForwardHolds DEF ChTypeOK
  <2>5. Choice(caches') = reply[Len(printed) + 1] /\ reply[Len(printed) + 1] \in Vocab
    <3>1. Len(caches') = cli.prompt + Len(printed)
      BY <1>n, <2>2, <2>4
    <3>2. Len(printed) < ChHorizon
      BY <1>n, <2>1
    <3> QED
      BY <1>i, <1>n, <2>1, <2>4, <3>1, <3>2, ChoiceAfterForward
  <2>6. ChTypeOK'
    BY <1>i, <2>1, <2>4, <2>5 DEF ChTypeOK, ChPlaces, AnyToken
  <2>7. ChWhere'
    BY <1>n, <1>l, <2>1, <2>2, <2>4, <2>5 DEF ChWhere, AtTop, AtNext
  <2> QED
    BY <1>k, <2>4, <2>6, <2>7 DEF ChInv
<1>7. CASE RoundForward
  <2>1. /\ chAt = "next" /\ chAt' = "round" /\ AtNext /\ Drafting /\ cli.prompt > 0 /\ Len(printed) < Limit
        /\ UNCHANGED <<cli, reply, nPast, pick, drafted, printed, ending>>
        /\ caches' = Append(caches, <<pick, nPast>>)
    BY <1>7, <1>i DEF RoundForward, ChWhere
  <2>2. Len(caches) = cli.prompt + Len(printed) - 1 /\ nPast = Len(caches)
    BY <2>1 DEF AtNext
  <2>3. pick = TokenOf(Len(caches))
    BY <1>i, <1>n, <2>1, <2>2, PickIsNext
  <2>4. Holds(caches)' /\ Len(caches') = Len(caches) + 1 /\ caches' \in Seq(AnyToken \X Nat)
    BY <1>i, <1>h, <2>1, <2>2, <2>3, ForwardHolds DEF ChTypeOK
  <2>5. ChTypeOK'
    BY <1>i, <2>1, <2>4 DEF ChTypeOK, ChPlaces
  <2>6. InRound'
    <3>1. drafted = <<>> /\ Len(printed) > 0
      BY <2>1 DEF AtNext
    <3> QED
      BY <1>n, <1>l, <2>1, <2>2, <2>4, <3>1 DEF InRound
  <2>7. ChWhere'
    BY <1>n, <1>l, <2>1, <2>6 DEF ChWhere
  <2> QED
    BY <1>k, <2>4, <2>5, <2>7 DEF ChInv
<1>8. CASE RoundAccept
  <2>1. /\ chAt = "round" /\ InRound /\ Len(drafted) < MaxDraft /\ cli.prompt > 0 /\ Len(printed) < Limit
        /\ UNCHANGED <<chAt, cli, reply, nPast, pick, printed, ending>>
    BY <1>8, <1>i DEF RoundAccept, ChWhere
  <2>2. PICK draft \in Vocab :
           /\ draft = Argmax(caches)
           /\ caches' = Append(caches, <<draft, nPast + 1 + Len(drafted)>>)
           /\ drafted' = Append(drafted, draft)
    BY <1>8 DEF RoundAccept
  <2>3. /\ Drafting /\ nPast = cli.prompt + Len(printed) - 1
        /\ Len(printed) > 0 /\ Len(caches) = nPast + 1 + Len(drafted)
        /\ \A i \in 1..Len(drafted) : drafted[i] = reply[Len(printed) + i]
    BY <2>1 DEF InRound
  <2> DEFINE n == Len(printed) + Len(drafted)
  <2>4. n \in Nat /\ Len(caches) = cli.prompt + n /\ n < ChHorizon
    <3>1. n \in Nat /\ Len(caches) = cli.prompt + n
      BY <1>n, <2>3
    <3>2. Len(printed) < MaxPredict
      BY <1>n, <2>1
    <3> QED
      BY <1>n, <2>1, <3>1, <3>2
  <2> HIDE DEF n
  <2>5. draft = reply[n + 1] /\ TokenOf(Len(caches)) = reply[n + 1]
    BY <1>i, <1>h, <2>1, <2>2, <2>3, <2>4, ChoiceIsTheReply, ReplyAt
  <2>6. Holds(caches)' /\ Len(caches') = Len(caches) + 1 /\ caches' \in Seq(AnyToken \X Nat)
    <3>1. draft \in AnyToken /\ draft = TokenOf(Len(caches)) /\ caches' = Append(caches, <<draft, Len(caches)>>)
      BY <2>2, <2>3, <2>5 DEF AnyToken
    <3> QED
      BY <1>i, <1>h, <2>1, <3>1, ForwardHolds
  <2>7. /\ drafted' \in Seq(Vocab) /\ Len(drafted') = Len(drafted) + 1
        /\ drafted'[Len(drafted) + 1] = draft
        /\ \A i \in 1..Len(drafted) : drafted'[i] = drafted[i]
    BY <1>i, <2>2 DEF ChTypeOK
  <2>8. ChTypeOK'
    BY <1>i, <2>1, <2>6, <2>7 DEF ChTypeOK
  <2>9. ASSUME NEW i \in 1..Len(drafted') PROVE drafted'[i] = reply[Len(printed) + i]
    <3>1. CASE i \in 1..Len(drafted)
      BY <2>3, <2>7, <3>1
    <3>2. CASE i = Len(drafted) + 1
      <4>1. Len(printed) + i = n + 1
        BY <1>n, <3>2 DEF n
      <4> QED
        BY <2>5, <2>7, <3>2, <4>1
    <3> QED
      BY <1>n, <2>7, <3>1, <3>2
  <2>10. InRound'
    <3>1. nPast \in Nat
      BY <1>i DEF ChTypeOK
    <3>5. Len(drafted) < MaxDraft
      BY <2>1
    <3>6. Len(drafted') <= MaxDraft
      BY <1>n, <2>7, <3>5
    <3>7. Len(caches') = nPast + 1 + Len(drafted')
      <4>1. Len(caches') = Len(caches) + 1
        BY <2>6
      <4>2. Len(caches) = nPast + 1 + Len(drafted) /\ Len(drafted') = Len(drafted) + 1
        BY <2>3, <2>7
      <4>3. Len(drafted) \in Nat
        BY <1>n
      <4> HIDE DEF n
      <4> QED
        BY <3>1, <4>1, <4>2, <4>3
    <3>2. Len(drafted') <= MaxDraft /\ Len(caches') = nPast + 1 + Len(drafted')
      BY <3>6, <3>7
    <3>3. Drafting' /\ Len(printed') > 0 /\ nPast' = cli'.prompt + Len(printed') - 1
      BY <1>l, <2>1, <2>3
    <3>4. \A i \in 1..Len(drafted') : drafted'[i] = reply'[Len(printed') + i]
      BY <2>1, <2>9
    <3> QED
      BY <2>1, <3>2, <3>3, <3>4 DEF InRound
  <2>11. ChWhere'
    BY <1>n, <1>l, <2>1, <2>10 DEF ChWhere
  <2> QED
    BY <1>k, <2>6, <2>8, <2>11 DEF ChInv
<1>9. CASE RoundDone
  <2>1. /\ chAt = "round" /\ chAt' = "emit" /\ InRound /\ cli.prompt > 0 /\ Len(printed) < Limit
        /\ UNCHANGED <<cli, reply, caches, drafted, printed, ending>>
        /\ pick' = Argmax(caches) /\ nPast' = nPast + Len(drafted) + 1
    BY <1>9, <1>i DEF RoundDone, Advanced, ChWhere
  <2>2. /\ Drafting /\ nPast = cli.prompt + Len(printed) - 1 /\ Len(drafted) <= MaxDraft
        /\ Len(printed) > 0 /\ Len(caches) = nPast + 1 + Len(drafted)
        /\ \A i \in 1..Len(drafted) : drafted[i] = reply[Len(printed) + i]
    BY <2>1 DEF InRound
  <2> DEFINE n == Len(printed) + Len(drafted)
  <2>3. n \in Nat /\ Len(caches) = cli.prompt + n /\ n < ChHorizon /\ n < MaxPredict + MaxDraft
    <3>1. n \in Nat /\ Len(caches) = cli.prompt + n
      BY <1>n, <2>2
    <3>2. Len(printed) < MaxPredict
      BY <1>n, <2>1
    <3> QED
      BY <1>n, <2>2, <3>1, <3>2
  <2>4. nPast' = Len(caches) /\ nPast' \in Nat
    BY <1>n, <2>1, <2>2
  <2> HIDE DEF n
  <2>5. pick' = reply[n + 1] /\ pick' \in Vocab
    BY <1>i, <1>h, <2>1, <2>2, <2>3, ChoiceIsTheReply
  <2>6. ChTypeOK'
    BY <1>i, <2>1, <2>4, <2>5 DEF ChTypeOK, ChPlaces, AnyToken
  <2>7. InEmit'
    <3>1. n = Len(printed) + Len(drafted) /\ Len(caches) = cli.prompt + (Len(printed) + Len(drafted))
      BY <1>n, <2>3 DEF n
    <3> QED
      BY <1>n, <1>l, <2>1, <2>2, <2>3, <2>4, <2>5, <3>1 DEF InEmit
  <2>8. ChWhere'
    BY <1>n, <1>l, <2>1, <2>7 DEF ChWhere
  <2> QED
    BY <1>k, <1>s, <2>1, <2>6, <2>8 DEF ChInv
<1>10. CASE EmitWrites
  <2>1. /\ chAt = "emit" /\ InEmit /\ drafted # <<>> /\ cli.prompt > 0 /\ Len(printed) < Limit
        /\ UNCHANGED <<cli, reply, caches, nPast, pick>>
        /\ printed' = Append(printed, Head(drafted)) /\ drafted' = Tail(drafted)
    BY <1>10, <1>i DEF EmitWrites, ChWhere
  <2>2. drafted \in Seq(Vocab) /\ printed \in Seq(Vocab)
    BY <1>i DEF ChTypeOK
  <2>3. /\ Head(drafted) \in Vocab /\ drafted' \in Seq(Vocab) /\ Len(drafted') = Len(drafted) - 1
        /\ \A i \in 1..Len(drafted') : drafted'[i] = drafted[i + 1]
    BY <2>1, <2>2, HeadTailProperties
  <2>4. printed' \in Seq(Vocab) /\ Len(printed') = Len(printed) + 1
    BY <2>1, <2>2, <2>3
  <2>5. \/ chAt' = "ended" /\ ending' = "limit"
        \/ chAt' = chAt /\ ending' = ending /\ Len(printed) + 1 < Limit
    BY <1>10, <1>n DEF EmitWrites, End
  <2>6. ChTypeOK'
    BY <1>i, <2>1, <2>3, <2>4, <2>5 DEF ChTypeOK, ChPlaces
  <2>7. InEmit'
    <3>1. /\ Drafting /\ Len(printed) + Len(drafted) < MaxPredict + MaxDraft
          /\ Len(caches) = cli.prompt + (Len(printed) + Len(drafted)) /\ nPast = Len(caches)
          /\ \A i \in 1..Len(drafted) : drafted[i] = reply[Len(printed) + i]
          /\ pick = reply[Len(printed) + Len(drafted) + 1]
      BY <2>1 DEF InEmit
    <3>2. /\ Len(drafted) >= 1 /\ Len(printed') \in Nat /\ Len(drafted') \in Nat
          /\ Len(printed') + Len(drafted') = Len(printed) + Len(drafted)
      BY <1>n, <2>1, <2>2, <2>3, <2>4
    <3>3. ASSUME NEW i \in 1..Len(drafted') PROVE drafted'[i] = reply[Len(printed') + i]
      <4>1. i + 1 \in 1..Len(drafted) /\ Len(printed) + (i + 1) = Len(printed') + i
        BY <1>n, <2>3, <2>4
      <4> QED
        BY <2>3, <3>1, <4>1
    <3>4. Len(caches) = cli.prompt + (Len(printed') + Len(drafted'))
      BY <1>n, <3>1, <3>2
    <3> QED
      BY <1>l, <2>1, <3>1, <3>2, <3>3, <3>4 DEF InEmit
  <2>8. ChWhere'
    BY <1>n, <1>l, <2>1, <2>4, <2>5, <2>7 DEF ChWhere
  <2> QED
    BY <1>k, <1>s, <2>1, <2>6, <2>8 DEF ChInv
<1>11. CASE EmitDone
  <2>1. /\ chAt = "emit" /\ chAt' = "top" /\ InEmit /\ drafted = <<>> /\ cli.prompt > 0 /\ Len(printed) < Limit
        /\ UNCHANGED <<cli, reply, caches, nPast, pick, drafted, printed, ending>>
    BY <1>11, <1>i DEF EmitDone, ChWhere
  <2>2. ChTypeOK'
    BY <1>i, <2>1 DEF ChTypeOK, ChPlaces
  <2>3. AtTop'
    <3>1. Len(drafted) = 0 /\ Len(printed) + Len(drafted) + 1 = Len(printed) + 1
      BY <1>n, <2>1
    <3> QED
      BY <1>n, <1>l, <2>1, <3>1 DEF InEmit, AtTop
  <2>4. ChWhere'
    BY <1>n, <1>l, <2>1, <2>3 DEF ChWhere
  <2> QED
    BY <1>k, <1>s, <2>1, <2>2, <2>4 DEF ChInv
<1> QED
  BY <1>1, <1>2, <1>3, <1>4, <1>5, <1>6, <1>7, <1>8, <1>9, <1>10, <1>11 DEF ChNext

LEMMA ChatInvariance == ChSpec => []ChInv
<1>1. ASSUME ChInv, UNCHANGED chVars PROVE ChInv'
  <2> USE <1>1 DEF chVars
  <2>1. ChTypeOK'
    BY DEF ChInv, ChTypeOK
  <2>2. Limit' = Limit /\ Drafting' = Drafting
    BY DEF Limit, Drafting
  <2>3. ChWhere'
    BY <2>2 DEF ChInv, ChWhere, AtTop, AtNext, InRound, InEmit
  <2>4. CachesHoldTheReply'
    BY DEF ChInv, CachesHoldTheReply, TokenOf
  <2> QED
    BY <2>1, <2>3, <2>4 DEF ChInv
<1>2. ChInv /\ [ChNext]_chVars => ChInv'
  BY <1>1, NextInv
<1> QED
  BY <1>2, InitInv, PTL DEF ChSpec

-----------------------------------------------------------------------------
\* The abstract reply a step may change, by the mapping of Promise.
PromiseState ==
  IF chAt \in {"begin", "off"} THEN "idle" ELSE IF chAt = "ended" THEN ending ELSE "running"
PromiseView == <<reply, Limit, printed, PromiseState>>

LEMMA InitKeepsPromise == ChInit => Promise!Init
<1> SUFFICES ASSUME ChInit PROVE Promise!Init
  OBVIOUS
<1>1. ChInv
  BY InitInv
<1>2. Limit \in 1..MaxPredict
  BY <1>1, Numbers DEF ChInv
<1> QED
  BY <1>2 DEF ChInit, ChRest, Promise!Init, Limit

\* The head of either loop and the accepted drafts deliver the reply's next
\* token, and stop at a stop token or the last one asked for.
LEMMA WriteDelivers ==
  ASSUME ChInv, chAt \in {"top", "emit"}, NEW t, t = reply[Len(printed) + 1], t \notin StopIds,
         printed' = Append(printed, t), UNCHANGED <<cli, reply>>,
         IF Budget THEN chAt' = "ended" /\ ending' = "limit" ELSE chAt' \in {"next", "emit"}
  PROVE  Promise!Next
<1>1. Len(printed) \in Nat /\ Limit \in 1..MaxPredict /\ MaxPredict \in Nat
      /\ (Budget <=> Len(printed) + 1 >= Limit) /\ Len(printed) < Limit
  BY Numbers DEF ChInv, ChWhere
<1>2. Budget <=> Len(printed) + 1 = Limit
  BY <1>1
<1>3. PromiseState = "running" /\ PromiseState' = IF Len(printed) + 1 = Limit THEN "limit" ELSE "running"
  BY <1>2 DEF PromiseState
<1>4. Limit' = Limit
  BY DEF Limit
<1>5. Promise!Deliver
  BY <1>1, <1>3, <1>4 DEF Promise!Deliver, PromiseState, Limit
<1> QED
  BY <1>5 DEF Promise!Next

LEMMA HeadOfEmit ==
  ASSUME ChTypeOK, ChWhere, chAt = "emit", drafted # <<>>
  PROVE  Head(drafted) = reply[Len(printed) + 1]
<1>1. Len(drafted) >= 1 /\ Head(drafted) = drafted[1] /\ 1 \in 1..Len(drafted)
  BY DEF ChTypeOK
<1> QED
  BY <1>1 DEF ChWhere, InEmit

LEMMA NextKeepsPromise == ChInv /\ ChNext => Promise!Next \/ UNCHANGED PromiseView
<1> SUFFICES ASSUME ChInv, ChNext PROVE Promise!Next \/ UNCHANGED PromiseView
  OBVIOUS
<1>w. ChTypeOK /\ ChWhere
  BY DEF ChInv
<1>l. cli' = cli => Limit' = Limit
  BY DEF Limit
<1>1. CASE NoPrompt
  <2>1. PromiseState = "idle" /\ PromiseState' = "error" /\ Limit' = Limit
        /\ printed' = <<>> /\ reply' = reply
    BY <1>1, <1>l, <1>w DEF NoPrompt, End, PromiseState, ChWhere
  <2>2. Promise!Refused
    BY <2>1 DEF Promise!Refused, PromiseState, Limit
  <2> QED
    BY <2>2 DEF Promise!Next
<1>2. CASE BeginPrefill
  <2>1. PromiseState = "idle" /\ PromiseState' = "running" /\ Limit' = Limit
        /\ printed' = <<>> /\ reply' = reply
    BY <1>2, <1>l, <1>w DEF BeginPrefill, PromiseState, ChWhere
  <2>2. reply' \in [1..ChHorizon -> Vocab] /\ Limit' \in 1..MaxPredict
    BY <1>w, <2>1, Numbers DEF ChTypeOK
  <2>3. Promise!Begin
    BY <2>1, <2>2 DEF Promise!Begin, PromiseState, Limit
  <2> QED
    BY <2>3 DEF Promise!Next
<1>3. CASE PrefillNext \/ FirstChoice \/ PlainNext \/ RoundForward \/ RoundAccept \/ RoundDone \/ EmitDone
  <2>1. PromiseState = "running" /\ PromiseState' = "running" /\ UNCHANGED <<cli, reply, printed>>
    BY <1>3 DEF PrefillNext, FirstChoice, PlainNext, RoundForward, RoundAccept, RoundDone, EmitDone, PromiseState
  <2> QED
    BY <1>l, <2>1 DEF PromiseView
<1>4. CASE ChError
  <2>1. PromiseState = "running" /\ PromiseState' = "error" /\ UNCHANGED <<cli, reply, printed>>
    BY <1>4 DEF ChError, End, PromiseState
  <2>2. Promise!CutShort
    BY <1>l, <2>1 DEF Promise!CutShort, PromiseState, Limit
  <2> QED
    BY <2>2 DEF Promise!Next
<1>5. CASE TopStops \/ EmitStops
  <2>1. PromiseState = "running" /\ PromiseState' = "eos" /\ UNCHANGED <<cli, reply, printed>>
    BY <1>5 DEF TopStops, EmitStops, End, PromiseState
  <2>2. reply[Len(printed) + 1] \in StopIds
    BY <1>5, <1>w, HeadOfEmit DEF TopStops, EmitStops, ChWhere, AtTop
  <2>3. Promise!HitStop
    BY <1>l, <2>1, <2>2 DEF Promise!HitStop, PromiseState, Limit
  <2> QED
    BY <2>3 DEF Promise!Next
<1>6. CASE TopWrites
  <2>1. pick = reply[Len(printed) + 1]
    BY <1>6, <1>w DEF TopWrites, ChWhere, AtTop
  <2> QED
    BY <1>6, <2>1, WriteDelivers DEF TopWrites, End
<1>7. CASE EmitWrites
  <2>1. Head(drafted) = reply[Len(printed) + 1]
    BY <1>7, <1>w, HeadOfEmit DEF EmitWrites
  <2> QED
    BY <1>7, <2>1, WriteDelivers DEF EmitWrites, End
<1> QED
  BY <1>1, <1>2, <1>3, <1>4, <1>5, <1>6, <1>7 DEF ChNext

\* At every forward of either loop the target's caches hold the prompt and what
\* was printed or accepted, each token at its position: n_past, toks.len() + n_gen
\* and the caches' own length count the same.
THEOREM ChatCachesHoldTheReply == ChSpec => []CachesHoldTheReply
<1>1. ChInv => CachesHoldTheReply
  BY DEF ChInv
<1> QED
  BY <1>1, ChatInvariance, PTL

\* What bonsai-run prints is a greedy reply: the target's own tokens in order,
\* up to a stop token or the number asked for, by the plain loop of src/main.rs
\* and by the speculative one.
THEOREM ChatImplementsGreedy == ChSpec => Promise!Init /\ [][Promise!Next]_PromiseView
<1>1. ChInv /\ [ChNext]_chVars => [Promise!Next]_PromiseView
  <2> SUFFICES ASSUME ChInv, UNCHANGED chVars PROVE UNCHANGED PromiseView
    BY NextKeepsPromise
  <2> QED
    BY DEF chVars, PromiseView, PromiseState, Limit
<1> QED
  BY <1>1, InitKeepsPromise, ChatInvariance, PTL DEF ChSpec
-----------------------------------------------------------------------------
\* Texts, cut and joined.
Text == Seq(Byte)

\* The first n bytes, and what is behind them.
LEMMA CutsAre ==
  ASSUME NEW s \in Text, NEW n \in 0..Len(s)
  PROVE  /\ Upto(s, n) \in Text /\ Len(Upto(s, n)) = n /\ \A k \in 1..n : Upto(s, n)[k] = s[k]
         /\ Drop(s, n) \in Text /\ Len(Drop(s, n)) = Len(s) - n
         /\ \A k \in 1..(Len(s) - n) : Drop(s, n)[k] = s[n + k]
BY DEF Upto, Drop, Text

\* Two texts joined.
LEMMA JoinIs ==
  ASSUME NEW s \in Text, NEW t \in Text
  PROVE  /\ s \o t \in Text /\ Len(s \o t) = Len(s) + Len(t) /\ Len(s) \in Nat /\ Len(t) \in Nat
         /\ \A k \in 1..Len(s) : (s \o t)[k] = s[k]
         /\ \A k \in 1..Len(t) : (s \o t)[Len(s) + k] = t[k]
BY DEF Text

\* Texts are equal when their bytes are.
LEMMA SameText ==
  ASSUME NEW s \in Text, NEW t \in Text, Len(s) = Len(t), \A k \in 1..Len(s) : s[k] = t[k]
  PROVE  s = t
BY SeqEqual DEF Text

\* Joining three texts from the left or from the right.
LEMMA JoinAll ==
  ASSUME NEW s \in Text, NEW t \in Text, NEW u \in Text
  PROVE  (s \o t) \o u = s \o (t \o u)
BY DEF Text

\* The same, with the equation first for a prover that looks for it.
LEMMA Regrouped ==
  ASSUME NEW s, NEW t, NEW u
  PROVE  (s \o t) \o u = s \o (t \o u) \/ s \notin Text \/ t \notin Text \/ u \notin Text
BY JoinAll, Zenon

\* Two texts joined are one.
LEMMA Joined ==
  ASSUME NEW s, NEW t
  PROVE  s \o t \in Text \/ s \notin Text \/ t \notin Text
BY DEF Text

\* The empty text.
LEMMA NoText ==
  /\ <<>> \in Text /\ Len(<<>>) = 0
  /\ \A s \in Text : s \o <<>> = s /\ <<>> \o s = s /\ (Len(s) = 0 <=> s = <<>>)
BY DEF Text

\* A text cut where its first part ends.
LEMMA CutJoined ==
  ASSUME NEW p \in Text, NEW r \in Text
  PROVE  Len(p) \in 0..Len(p \o r) /\ Upto(p \o r, Len(p)) = p /\ Drop(p \o r, Len(p)) = r
<1>1. PICK w : w = p \o r
  OBVIOUS
<1>2. /\ w \in Text /\ Len(w) = Len(p) + Len(r) /\ Len(p) \in Nat /\ Len(r) \in Nat
      /\ \A k \in 1..Len(p) : w[k] = p[k]
      /\ \A k \in 1..Len(r) : w[Len(p) + k] = r[k]
  BY <1>1, JoinIs, Zenon
<1>3. Len(p) \in 0..Len(w) /\ Len(w) - Len(p) = Len(r)
  BY <1>2
<1>4. PICK a, b : a = Upto(w, Len(p)) /\ b = Drop(w, Len(p))
  OBVIOUS
<1>5. /\ a \in Text /\ Len(a) = Len(p) /\ \A k \in 1..Len(p) : a[k] = w[k]
      /\ b \in Text /\ Len(b) = Len(r) /\ \A k \in 1..Len(r) : b[k] = w[Len(p) + k]
  <2>1. /\ b \in Text /\ Len(b) = Len(w) - Len(p) /\ \A k \in 1..(Len(w) - Len(p)) : b[k] = w[Len(p) + k]
    BY <1>2, <1>3, <1>4, CutsAre, Zenon
  <2>2. /\ a \in Text /\ Len(a) = Len(p) /\ \A k \in 1..Len(p) : a[k] = w[k]
    BY <1>2, <1>3, <1>4, CutsAre, Zenon
  <2>3. QED BY <1>3, <2>1, <2>2
<1>6. a = p
  <2>1. \A k \in 1..Len(a) : a[k] = p[k]
    BY <1>2, <1>5, Zenon
  <2>2. QED BY <1>5, <2>1, SameText, Zenon
<1>7. b = r
  <2>1. \A k \in 1..Len(b) : b[k] = r[k]
    BY <1>2, <1>5, Zenon
  <2>2. QED BY <1>5, <2>1, SameText, Zenon
<1>8. QED BY <1>1, <1>3, <1>4, <1>6, <1>7, Zenon

\* The parts of a text make it up.
LEMMA JoinCuts ==
  ASSUME NEW s \in Text, NEW n \in 0..Len(s)
  PROVE  Upto(s, n) \o Drop(s, n) = s
<1>0. Len(s) \in Nat
  BY DEF Text
<1>1. PICK a, b : a = Upto(s, n) /\ b = Drop(s, n)
  OBVIOUS
<1>2. /\ a \in Text /\ Len(a) = n /\ \A k \in 1..n : a[k] = s[k]
      /\ b \in Text /\ Len(b) = Len(s) - n /\ \A k \in 1..(Len(s) - n) : b[k] = s[n + k]
  BY <1>1, CutsAre
<1>3. PICK w : w = a \o b
  OBVIOUS
<1>4. /\ w \in Text /\ Len(w) = Len(a) + Len(b)
      /\ \A k \in 1..Len(a) : w[k] = a[k]
      /\ \A k \in 1..Len(b) : w[Len(a) + k] = b[k]
  BY <1>2, <1>3, JoinIs, Zenon
<1>5. Len(w) = Len(s)
  BY <1>0, <1>2, <1>4
<1>6. ASSUME NEW k \in 1..Len(w) PROVE w[k] = s[k]
  <2>1. CASE k <= n
    <3>1. k \in 1..n
      BY <1>0, <1>5, <2>1
    <3>2. QED BY <1>2, <1>4, <3>1, Zenon
  <2>2. CASE k > n
    <3>1. k - n \in 1..(Len(s) - n) /\ n + (k - n) = k
      BY <1>0, <1>5, <2>2
    <3>2. w[Len(a) + (k - n)] = b[k - n] /\ b[k - n] = s[n + (k - n)]
      BY <1>2, <1>4, <3>1, Zenon
    <3>3. QED BY <1>2, <3>1, <3>2
  <2>3. QED BY <1>0, <1>5, <2>1, <2>2
<1>7. w = s
  BY <1>4, <1>5, <1>6, SameText, Zenon
<1>8. QED BY <1>1, <1>3, <1>7, Zenon

\* Cutting within the first part, when something follows.
LEMMA CutFirst ==
  ASSUME NEW s \in Text, NEW z \in Text, NEW n \in 0..Len(s)
  PROVE  n \in 0..Len(s \o z) /\ Upto(s \o z, n) = Upto(s, n) /\ Drop(s \o z, n) = Drop(s, n) \o z
<1>1. PICK a, b : a = Upto(s, n) /\ b = Drop(s, n)
  OBVIOUS
<1>2. a \in Text /\ b \in Text /\ Len(a) = n /\ a \o b = s
  BY <1>1, CutsAre, JoinCuts, Zenon
<1>3. s \o z = a \o (b \o z) /\ b \o z \in Text
  <2>1. (a \o b) \o z = a \o (b \o z)
    BY <1>2, JoinAll
  <2>2. b \o z \in Text
    BY <1>2, JoinIs
  <2>3. QED BY <1>2, <2>1, <2>2
<1>4. /\ Len(a) \in 0..Len(s \o z) /\ Upto(s \o z, Len(a)) = a /\ Drop(s \o z, Len(a)) = b \o z
  BY <1>2, <1>3, CutJoined, Zenon
<1>5. QED BY <1>1, <1>2, <1>4, Zenon

\* Cutting within the second part.
LEMMA CutSecond ==
  ASSUME NEW p \in Text, NEW r \in Text, NEW n \in 0..Len(r)
  PROVE  /\ Len(p) + n \in 0..Len(p \o r)
         /\ Upto(p \o r, Len(p) + n) = p \o Upto(r, n) /\ Drop(p \o r, Len(p) + n) = Drop(r, n)
<1>1. PICK a, b : a = Upto(r, n) /\ b = Drop(r, n)
  OBVIOUS
<1>2. a \in Text /\ b \in Text /\ Len(a) = n /\ a \o b = r
  BY <1>1, CutsAre, JoinCuts, Zenon
<1>3. p \o r = (p \o a) \o b /\ p \o a \in Text /\ Len(p \o a) = Len(p) + n
  <2>1. (p \o a) \o b = p \o (a \o b)
    BY <1>2, JoinAll
  <2>2. p \o a \in Text /\ Len(p \o a) = Len(p) + Len(a)
    BY <1>2, JoinIs
  <2>3. QED BY <1>2, <2>1, <2>2
<1>4. /\ Len(p \o a) \in 0..Len(p \o r) /\ Upto(p \o r, Len(p \o a)) = p \o a
      /\ Drop(p \o r, Len(p \o a)) = b
  BY <1>2, <1>3, CutJoined, Zenon
<1>5. QED BY <1>1, <1>3, <1>4, Zenon

-----------------------------------------------------------------------------
\* t stands in s behind i bytes; the first time it does.
At(s, t, i) == i \in Nat /\ i + Len(t) <= Len(s) /\ \A k \in 1..Len(t) : s[i + k] = t[k]
First(s, t, i) == At(s, t, i) /\ \A j \in Nat : At(s, t, j) => i <= j

\* Where a text is found.
LEMMA FoundIs ==
  ASSUME NEW s \in Text, NEW t \in Text, NEW i
  PROVE  i \in FoundAt(s, t) <=> At(s, t, i)
<1>0. Len(s) \in Nat /\ Len(t) \in Nat
  BY DEF Text
<1>1. ASSUME i \in 0..(Len(s) - Len(t))
      PROVE  SubSeq(s, i + 1, i + Len(t)) = t <=> \A k \in 1..Len(t) : s[i + k] = t[k]
  <2>1. PICK u : u = SubSeq(s, i + 1, i + Len(t))
    OBVIOUS
  <2>2. u \in Text /\ Len(u) = Len(t) /\ \A k \in 1..Len(t) : u[k] = s[i + k]
    <3>1. i + 1 \in Nat /\ i + Len(t) \in Nat /\ i + 1 >= 1 /\ i + Len(t) <= Len(s)
      BY <1>0, <1>1
    <3>2. u \in Seq(Byte) /\ Len(u) = (IF i + 1 <= i + Len(t) THEN (i + Len(t)) - (i + 1) + 1 ELSE 0)
      BY <2>1, <3>1, <1>0 DEF Text
    <3>3. Len(u) = Len(t)
      BY <3>2, <1>0, <1>1
    <3>4. \A k \in 1..Len(t) : u[k] = s[(i + 1) + k - 1]
      BY <2>1, <3>1, <1>0, <1>1 DEF Text
    <3>5. \A k \in 1..Len(t) : (i + 1) + k - 1 = i + k
      BY <1>0, <1>1
    <3>6. QED BY <3>2, <3>3, <3>4, <3>5 DEF Text
  <2>3. u = t <=> \A k \in 1..Len(t) : u[k] = t[k]
    BY <2>2, SameText
  <2>4. QED BY <2>1, <2>2, <2>3
<1>2. i \in 0..(Len(s) - Len(t)) <=> i \in Nat /\ i + Len(t) <= Len(s)
  BY <1>0
<1>3. i \in FoundAt(s, t) <=> i \in 0..(Len(s) - Len(t)) /\ SubSeq(s, i + 1, i + Len(t)) = t
  BY Zenon DEF FoundAt
<1>4. QED BY <1>1, <1>2, <1>3, Zenon DEF At

\* A text has another where it is found.
LEMMA HasIs ==
  ASSUME NEW s \in Text, NEW t \in Text
  PROVE  Has(s, t) <=> \E i \in Nat : At(s, t, i)
<1>1. Has(s, t) <=> \E i : i \in FoundAt(s, t)
  BY Zenon DEF Has
<1>2. \A i : At(s, t, i) => i \in Nat
  BY DEF At
<1>3. QED BY <1>1, <1>2, FoundIs, Zenon

\* Find is the first.
LEMMA FindIs ==
  ASSUME NEW s \in Text, NEW t \in Text, Has(s, t)
  PROVE  First(s, t, Find(s, t)) /\ Find(s, t) \in Nat
<1>1. FoundAt(s, t) \in SUBSET Nat /\ FoundAt(s, t) # {}
  <2>1. \A i \in FoundAt(s, t) : i \in Nat
    BY FoundIs DEF At
  <2>2. QED BY <2>1 DEF Has
<1>2. \E i \in FoundAt(s, t) : \A j \in FoundAt(s, t) : i <= j
  BY <1>1, LeastNat, Zenon
<1>3. Find(s, t) \in FoundAt(s, t) /\ \A j \in FoundAt(s, t) : Find(s, t) <= j
  BY <1>2, Zenon DEF Find
<1>4. QED BY <1>1, <1>3, FoundIs, Zenon DEF First

\* What is first is what Find finds.
LEMMA FirstIs ==
  ASSUME NEW s \in Text, NEW t \in Text, NEW i \in Nat, First(s, t, i)
  PROVE  Has(s, t) /\ Find(s, t) = i
<1>1. Has(s, t)
  BY HasIs, Zenon DEF First
<1>2. First(s, t, Find(s, t)) /\ Find(s, t) \in Nat
  BY <1>1, FindIs, Zenon
<1>3. QED BY <1>1, <1>2 DEF First

\* More behind a text hides nothing in it, and adds nothing that ends in it.
LEMMA AtMore ==
  ASSUME NEW s \in Text, NEW z \in Text, NEW t \in Text, NEW i
  PROVE  /\ At(s, t, i) => At(s \o z, t, i)
         /\ At(s \o z, t, i) /\ i + Len(t) <= Len(s) => At(s, t, i)
<1>0. Len(s) \in Nat /\ Len(t) \in Nat /\ Len(z) \in Nat /\ Len(s \o z) = Len(s) + Len(z)
      /\ \A k \in 1..Len(s) : (s \o z)[k] = s[k]
  BY JoinIs
<1>1. ASSUME i \in Nat, i + Len(t) <= Len(s), NEW k \in 1..Len(t) PROVE (s \o z)[i + k] = s[i + k]
  BY <1>0, <1>1
<1>2. ASSUME At(s, t, i) PROVE At(s \o z, t, i)
  <2>1. i \in Nat /\ i + Len(t) <= Len(s)
    BY <1>2 DEF At
  <2>2. i + Len(t) <= Len(s \o z)
    BY <1>0, <2>1
  <2>3. \A k \in 1..Len(t) : (s \o z)[i + k] = t[k]
    BY <1>1, <1>2, <2>1, Zenon DEF At
  <2> QED BY <2>1, <2>2, <2>3, Zenon DEF At
<1>3. ASSUME At(s \o z, t, i), i + Len(t) <= Len(s) PROVE At(s, t, i)
  <2>1. i \in Nat
    BY <1>3 DEF At
  <2>2. \A k \in 1..Len(t) : s[i + k] = t[k]
    BY <1>1, <1>3, <2>1, Zenon DEF At
  <2> QED BY <1>3, <2>1, <2>2, Zenon DEF At
<1>4. QED BY <1>2, <1>3, Zenon

\* The first stays the first.
LEMMA FirstMore ==
  ASSUME NEW s \in Text, NEW z \in Text, NEW t \in Text, NEW i \in Nat, First(s, t, i)
  PROVE  First(s \o z, t, i)
<1>0. Len(s) \in Nat /\ Len(t) \in Nat
  BY DEF Text
<1>1. At(s \o z, t, i)
  BY AtMore DEF First
<1>2. ASSUME NEW j \in Nat, At(s \o z, t, j), j < i PROVE FALSE
  <2>1. j + Len(t) <= Len(s)
    BY <1>0, <1>2 DEF First, At
  <2>2. At(s, t, j)
    BY <1>2, <2>1, AtMore
  <2>3. QED BY <1>2, <2>2 DEF First
<1>3. QED BY <1>1, <1>2 DEF First

\* What stands in the second part.
LEMMA AtBehind ==
  ASSUME NEW p \in Text, NEW r \in Text, NEW t \in Text, NEW i \in Nat
  PROVE  At(p \o r, t, Len(p) + i) <=> At(r, t, i)
<1>0. Len(p) \in Nat /\ Len(r) \in Nat /\ Len(t) \in Nat /\ Len(p \o r) = Len(p) + Len(r)
      /\ \A k \in 1..Len(r) : (p \o r)[Len(p) + k] = r[k]
  BY JoinIs
<1>1. ASSUME i + Len(t) <= Len(r), NEW k \in 1..Len(t) PROVE (p \o r)[(Len(p) + i) + k] = r[i + k]
  <2>1. i + k \in 1..Len(r) /\ (Len(p) + i) + k = Len(p) + (i + k)
    BY <1>0, <1>1
  <2>2. QED BY <1>0, <2>1
<1>2. Len(p) + i \in Nat /\ ((Len(p) + i) + Len(t) <= Len(p \o r) <=> i + Len(t) <= Len(r))
  BY <1>0
<1>3. QED BY <1>1, <1>2 DEF At

\* Where t does not start in the first part, it is looked for in the second.
LEMMA FirstBehind ==
  ASSUME NEW p \in Text, NEW r \in Text, NEW t \in Text, \A j \in 0..(Len(p) - 1) : ~At(p \o r, t, j)
  PROVE  /\ \A i \in Nat : First(r, t, i) => First(p \o r, t, Len(p) + i)
         /\ Has(p \o r, t) <=> Has(r, t)
<1>0. Len(p) \in Nat /\ p \o r \in Text
  BY JoinIs
<1>1. ASSUME NEW j \in Nat, At(p \o r, t, j)
      PROVE  j - Len(p) \in Nat /\ At(r, t, j - Len(p))
  <2>1. j - Len(p) \in Nat /\ Len(p) + (j - Len(p)) = j
    BY <1>0, <1>1
  <2>2. QED BY <1>1, <2>1, AtBehind
<1>2. ASSUME NEW i \in Nat, First(r, t, i) PROVE First(p \o r, t, Len(p) + i)
  <2>1. At(p \o r, t, Len(p) + i)
    BY <1>2, AtBehind DEF First
  <2>2. ASSUME NEW j \in Nat, At(p \o r, t, j) PROVE Len(p) + i <= j
    <3>1. j - Len(p) \in Nat /\ At(r, t, j - Len(p))
      BY <1>1, <2>2
    <3>2. i <= j - Len(p)
      BY <1>2, <3>1 DEF First
    <3>3. QED BY <1>0, <3>2
  <2>3. QED BY <2>1, <2>2 DEF First
<1>3. Has(p \o r, t) => Has(r, t)
  BY <1>0, <1>1, HasIs
<1>4. ASSUME Has(r, t) PROVE Has(p \o r, t)
  <2>1. PICK i \in Nat : At(r, t, i)
    BY <1>4, HasIs
  <2>2. At(p \o r, t, Len(p) + i) /\ Len(p) + i \in Nat
    BY <1>0, <2>1, AtBehind
  <2>3. QED BY <1>0, <2>2, HasIs
<1>5. QED BY <1>2, <1>3, <1>4

\* Where a text is found, the other is cut in three.
LEMMA FoundCut ==
  ASSUME NEW s \in Text, NEW t \in Text, NEW i \in Nat, At(s, t, i)
  PROVE  \E a, r \in Text : Len(a) = i /\ s = a \o (t \o r)
<1>0. i \in 0..Len(s) /\ Len(t) \in 0..(Len(s) - i) /\ \A k \in 1..Len(t) : s[i + k] = t[k]
  BY DEF At, Text
<1>1. PICK a, b : a = Upto(s, i) /\ b = Drop(s, i)
  OBVIOUS
<1>2. a \in Text /\ b \in Text /\ Len(a) = i /\ Len(b) = Len(s) - i /\ a \o b = s
  BY <1>0, <1>1, CutsAre, JoinCuts, Zenon
<1>3. \A k \in 1..(Len(s) - i) : b[k] = s[i + k]
  BY <1>0, <1>1, CutsAre, Zenon
<1>4. Len(t) \in 0..Len(b)
  BY <1>0, <1>2
<1>5. PICK c, r : c = Upto(b, Len(t)) /\ r = Drop(b, Len(t))
  OBVIOUS
<1>6. c \in Text /\ r \in Text /\ Len(c) = Len(t) /\ c \o r = b /\ \A k \in 1..Len(t) : c[k] = b[k]
  BY <1>2, <1>4, <1>5, CutsAre, JoinCuts, Zenon
<1>7. \A k \in 1..Len(t) : k \in 1..(Len(s) - i)
  BY <1>0
<1>8. c = t
  <2>1. \A k \in 1..Len(c) : c[k] = t[k]
    BY <1>0, <1>3, <1>6, <1>7, Zenon
  <2>2. QED BY <1>6, <2>1, SameText, Zenon
<1>9. QED BY <1>2, <1>6, <1>8, Zenon

\* And where it is cut so, it is found.
LEMMA CutFound ==
  ASSUME NEW a \in Text, NEW t \in Text, NEW r \in Text
  PROVE  At(a \o (t \o r), t, Len(a)) /\ Len(a) \in Nat
<1>1. t \o r \in Text /\ Len(t \o r) = Len(t) + Len(r) /\ Len(t) \in Nat /\ Len(r) \in Nat
      /\ Len(a) \in Nat /\ \A k \in 1..Len(t) : (t \o r)[k] = t[k]
  BY JoinIs
<1>2. At(t \o r, t, 0)
  BY <1>1 DEF At
<1>3. At(a \o (t \o r), t, Len(a) + 0)
  BY <1>1, <1>2, AtBehind
<1>4. QED BY <1>1, <1>3

\* The middle of three.
LEMMA MiddleIs ==
  ASSUME NEW p \in Text, NEW m \in Text, NEW r \in Text
  PROVE  SubSeq(p \o (m \o r), Len(p) + 1, Len(p) + Len(m)) = m
<1>1. PICK b : b = m \o r
  OBVIOUS
<1>2. b \in Text /\ Len(b) = Len(m) + Len(r) /\ Len(m) \in Nat /\ Len(r) \in Nat
      /\ \A k \in 1..Len(m) : b[k] = m[k]
  BY <1>1, JoinIs, Zenon
<1>3. PICK s : s = p \o b
  OBVIOUS
<1>4. s \in Text /\ Len(s) = Len(p) + Len(b) /\ Len(p) \in Nat
      /\ \A k \in 1..Len(b) : s[Len(p) + k] = b[k]
  BY <1>2, <1>3, JoinIs, Zenon
<1>5. /\ At(s, m, Len(p)) /\ Len(p) \in Nat
  BY <1>1, <1>3, CutFound
<1>6. Len(p) \in FoundAt(s, m)
  BY <1>4, <1>5, FoundIs
<1>7. QED BY <1>1, <1>3, <1>6 DEF FoundAt

\* The tags are texts, not empty, without a byte that is trimmed.
LEMMA TagsAre ==
  ASSUME NEW t \in Tags
  PROVE  /\ t \in Text /\ Len(t) \in Nat /\ Len(t) >= 1
         /\ \A i \in 1..Len(t) : t[i] \notin Blank
<1>1. t \in Text
  BY TextsAreBytes DEF Text
<1>2. t # <<>> /\ \A i \in 1..Len(t) : t[i] \notin Blank
  BY TagsAreApart, Zenon
<1>3. Len(t) \in Nat /\ Len(t) # 0
  BY <1>1, <1>2, NoText DEF Text
<1>4. QED BY <1>1, <1>2, <1>3

\* The four tags.
LEMMA FourTags ==
  ThinkOpen \in Tags /\ ThinkClose \in Tags /\ ToolOpen \in Tags /\ ToolClose \in Tags
BY DEF Tags

-----------------------------------------------------------------------------
\* A block: a before it, m in it, r behind it.
Block(w, a, m, r) ==
  /\ w = a \o (ToolOpen \o (m \o (ToolClose \o r)))
  /\ First(w, ToolOpen, Len(a))
  /\ First(m \o (ToolClose \o r), ToolClose, Len(m))

\* A closing tag behind an opening one is found as well from the opening one on.
LEMMA CloseBehind ==
  ASSUME NEW y \in Text
  PROVE  /\ \A i \in Nat : First(y, ToolClose, i) => First(ToolOpen \o y, ToolClose, Len(ToolOpen) + i)
         /\ Has(ToolOpen \o y, ToolClose) <=> Has(y, ToolClose)
<1>1. ToolOpen \in Text /\ ToolClose \in Text /\ Len(ToolOpen) \in Nat /\ Len(ToolClose) \in Nat
  BY FourTags, TagsAre
<1>2. ASSUME NEW j \in 0..(Len(ToolOpen) - 1), At(ToolOpen \o y, ToolClose, j)
      PROVE  FALSE
  <2>1. PICK k \in 1..Len(ToolClose) : j + k \in DOMAIN ToolOpen /\ ToolOpen[j + k] # ToolClose[k]
    BY TagsAreApart, Zenon
  <2>2. (ToolOpen \o y)[j + k] = ToolClose[k]
    BY <1>2 DEF At
  <2>3. j + k \in 1..Len(ToolOpen)
    BY <1>1, <2>1 DEF Text
  <2>4. (ToolOpen \o y)[j + k] = ToolOpen[j + k]
    BY <1>1, <2>3, JoinIs, Zenon
  <2>5. QED BY <2>1, <2>2, <2>4
<1>3. QED BY <1>1, <1>2, FirstBehind, Zenon

\* What HasBlock looks for is a block.
LEMMA BlockIs ==
  ASSUME NEW w \in Text, HasBlock(w)
  PROVE  \E a, m, r \in Text : Block(w, a, m, r)
<1>1. ToolOpen \in Text /\ ToolClose \in Text
  BY FourTags, TagsAre
<1>2. Has(w, ToolOpen) /\ First(w, ToolOpen, Find(w, ToolOpen)) /\ Find(w, ToolOpen) \in Nat
      /\ Has(Drop(w, Find(w, ToolOpen)), ToolClose)
  BY <1>1, FindIs DEF HasBlock
<1>3. PICK a, y \in Text : Len(a) = Find(w, ToolOpen) /\ w = a \o (ToolOpen \o y)
  BY <1>1, <1>2, FoundCut DEF First
<1>4. ToolOpen \o y \in Text
  BY <1>1, JoinIs
<1>5. Drop(w, Len(a)) = ToolOpen \o y
  BY <1>3, <1>4, CutJoined
<1>6. Has(y, ToolClose)
  <2>1. Has(ToolOpen \o y, ToolClose)
    BY <1>2, <1>3, <1>5
  <2>2. QED BY <2>1, CloseBehind, Zenon
<1>7. First(y, ToolClose, Find(y, ToolClose)) /\ Find(y, ToolClose) \in Nat
  BY <1>1, <1>6, FindIs
<1>8. PICK m, r \in Text : Len(m) = Find(y, ToolClose) /\ y = m \o (ToolClose \o r)
  BY <1>1, <1>7, FoundCut DEF First
<1>9. Block(w, a, m, r)
  BY <1>2, <1>3, <1>7, <1>8 DEF Block
<1>10. QED BY <1>9

\* The parts of a block, as the two loops find them.
LEMMA BlockParts ==
  ASSUME NEW w \in Text, NEW a \in Text, NEW m \in Text, NEW r \in Text, Block(w, a, m, r)
  PROVE  /\ Has(w, ToolOpen) /\ Find(w, ToolOpen) = Len(a) /\ Upto(w, Len(a)) = a
         /\ Drop(w, Len(a)) = ToolOpen \o (m \o (ToolClose \o r))
         /\ Behind(w) = m \o (ToolClose \o r)
         /\ Has(Behind(w), ToolClose) /\ Find(Behind(w), ToolClose) = Len(m)
         /\ Upto(Behind(w), Len(m)) = m /\ Drop(Behind(w), Len(m) + Len(ToolClose)) = r
         /\ HasBlock(w) /\ Find(Drop(w, Len(a)), ToolClose) = Len(ToolOpen) + Len(m)
         /\ SubSeq(Drop(w, Len(a)), Len(ToolOpen) + 1, Len(ToolOpen) + Len(m)) = m
         /\ Drop(Drop(w, Len(a)), (Len(ToolOpen) + Len(m)) + Len(ToolClose)) = r
         /\ Len(r) < Len(w)
<1>1. ToolOpen \in Text /\ ToolClose \in Text /\ Len(ToolOpen) \in Nat /\ Len(ToolClose) \in Nat
      /\ Len(ToolOpen) >= 1
  BY FourTags, TagsAre
<1>2. PICK c : c = ToolClose \o r
  OBVIOUS
<1>3. c \in Text /\ Len(c) = Len(ToolClose) + Len(r) /\ Len(r) \in Nat
  BY <1>1, <1>2, JoinIs, Zenon
<1>4. PICK y : y = m \o c
  OBVIOUS
<1>5. y \in Text /\ Len(y) = Len(m) + Len(c) /\ Len(m) \in Nat
  BY <1>3, <1>4, JoinIs, Zenon
<1>6. PICK v : v = ToolOpen \o y
  OBVIOUS
<1>7. v \in Text /\ Len(v) = Len(ToolOpen) + Len(y)
  BY <1>1, <1>5, <1>6, JoinIs, Zenon
<1>8. w = a \o v /\ First(w, ToolOpen, Len(a)) /\ First(y, ToolClose, Len(m)) /\ Len(a) \in Nat
      /\ Len(w) = Len(a) + Len(v)
  <2>1. w = a \o v /\ First(w, ToolOpen, Len(a)) /\ First(y, ToolClose, Len(m))
    BY <1>2, <1>4, <1>6 DEF Block
  <2>2. QED BY <1>7, <2>1, JoinIs
<1>9. Has(w, ToolOpen) /\ Find(w, ToolOpen) = Len(a)
  BY <1>1, <1>8, FirstIs, Zenon
<1>10. Upto(w, Len(a)) = a /\ Drop(w, Len(a)) = v
  BY <1>7, <1>8, CutJoined
<1>11. Behind(w) = y
  <2>1. Len(ToolOpen) \in 0..Len(v) /\ Drop(v, Len(ToolOpen)) = y
    BY <1>1, <1>5, <1>6, CutJoined, Zenon
  <2>2. Drop(a \o v, Len(a) + Len(ToolOpen)) = Drop(v, Len(ToolOpen))
    BY <1>7, <2>1, CutSecond
  <2>3. QED BY <1>8, <1>9, <2>1, <2>2 DEF Behind
<1>12. Has(y, ToolClose) /\ Find(y, ToolClose) = Len(m)
  BY <1>1, <1>5, <1>8, FirstIs, Zenon
<1>13. Upto(y, Len(m)) = m
  BY <1>3, <1>4, CutJoined, Zenon
<1>14. Len(ToolClose) \in 0..Len(c) /\ Drop(c, Len(ToolClose)) = r
  BY <1>1, <1>2, CutJoined, Zenon
<1>15. Len(m) + Len(ToolClose) \in 0..Len(y) /\ Drop(y, Len(m) + Len(ToolClose)) = r
  BY <1>3, <1>4, <1>14, CutSecond
<1>16. First(v, ToolClose, Len(ToolOpen) + Len(m)) /\ Has(v, ToolClose)
  BY <1>5, <1>6, <1>8, <1>12, CloseBehind
<1>17. Find(v, ToolClose) = Len(ToolOpen) + Len(m)
  <2>1. Len(ToolOpen) + Len(m) \in Nat
    BY <1>1, <1>5
  <2>2. QED BY <1>1, <1>7, <1>16, <2>1, FirstIs, Zenon
<1>18. HasBlock(w)
  BY <1>9, <1>10, <1>16 DEF HasBlock
<1>19. SubSeq(v, Len(ToolOpen) + 1, Len(ToolOpen) + Len(m)) = m
  BY <1>1, <1>3, <1>4, <1>6, MiddleIs
<1>20. Drop(v, (Len(ToolOpen) + Len(m)) + Len(ToolClose)) = r
  <2>1. (Len(ToolOpen) + Len(m)) + Len(ToolClose) = Len(ToolOpen) + (Len(m) + Len(ToolClose))
    BY <1>1, <1>5
  <2>2. Drop(ToolOpen \o y, Len(ToolOpen) + (Len(m) + Len(ToolClose))) = Drop(y, Len(m) + Len(ToolClose))
    BY <1>1, <1>5, <1>15, CutSecond
  <2>3. QED BY <1>6, <1>15, <2>1, <2>2
<1>21. Len(r) < Len(w)
  BY <1>1, <1>3, <1>5, <1>7, <1>8
<1>22. v = ToolOpen \o (m \o (ToolClose \o r)) /\ y = m \o (ToolClose \o r)
  BY <1>2, <1>4, <1>6
<1>23. QED BY <1>9, <1>10, <1>11, <1>12, <1>13, <1>15, <1>17, <1>18, <1>19, <1>20, <1>21, <1>22, Zenon

-----------------------------------------------------------------------------
\* The loop of ToolFilter::feed.
Filter == [buf : Text, calls : Seq(Text), out : Text, panic : BOOLEAN]

\* A set of naturals with 0 and every successor is all of them.
LEMMA Inductive ==
  ASSUME NEW T \in SUBSET Nat, 0 \in T, \A n \in T : n + 1 \in T
  PROVE  \A n \in Nat : n \in T
<1>1. SUFFICES ASSUME Nat \ T # {} PROVE FALSE
  BY Zenon
<1>2. Nat \ T \in SUBSET Nat
  OBVIOUS
<1>3. PICK m \in Nat \ T : \A k \in Nat \ T : m <= k
  BY <1>1, <1>2, LeastNat, Zenon
<1>4. m \in Nat /\ m # 0 /\ m \notin T
  BY <1>3, Zenon
<1>5. m - 1 \in Nat /\ (m - 1) + 1 = m /\ ~(m <= m - 1)
  BY <1>4
<1>6. m - 1 \in T
  BY <1>3, <1>5, Zenon
<1>7. QED BY <1>4, <1>5, <1>6

\* What a block says is a sequence of texts.
LEMMA CallsAre == ASSUME NEW m \in Text PROVE Calls(m) \in Seq(Text)
<1>1. <<m>> \in Seq(Text) /\ <<>> \in Seq(Text)
  OBVIOUS
<1>2. QED BY <1>1, Zenon DEF Calls

\* A round takes the block, where there is one.
LEMMA RoundTakes ==
  ASSUME NEW s \in Filter, NEW a \in Text, NEW m \in Text, NEW r \in Text, Block(s.buf, a, m, r)
  PROVE  Round(s) = [buf |-> r, calls |-> s.calls \o Calls(m), out |-> s.out \o a, panic |-> s.panic]
<1>1. PICK w : w = s.buf
  OBVIOUS
<1>2. w \in Text /\ Block(w, a, m, r)
  BY <1>1 DEF Filter
<1>3. /\ Find(w, ToolOpen) = Len(a) /\ Upto(w, Len(a)) = a /\ HasBlock(w)
      /\ Find(Drop(w, Len(a)), ToolClose) = Len(ToolOpen) + Len(m)
      /\ SubSeq(Drop(w, Len(a)), Len(ToolOpen) + 1, Len(ToolOpen) + Len(m)) = m
      /\ Drop(Drop(w, Len(a)), (Len(ToolOpen) + Len(m)) + Len(ToolClose)) = r
  BY <1>2, BlockParts
<1>4. Round(s) = TakeBlock(s)
  BY <1>1, <1>3 DEF Round
<1>5. TakeBlock(s) = [s EXCEPT !.calls = s.calls \o Calls(m), !.out = s.out \o a, !.buf = r]
  BY <1>1, <1>3 DEF TakeBlock
<1>6. QED BY <1>4, <1>5 DEF Filter

\* A round leaves a filter, with less in it where there was a block.
LEMMA RoundIs ==
  ASSUME NEW s \in Filter
  PROVE  /\ Round(s) \in Filter
         /\ ~HasBlock(s.buf) => Round(s) = s
         /\ HasBlock(s.buf) => Len(Round(s).buf) < Len(s.buf)
<1>0. s.buf \in Text /\ s.calls \in Seq(Text) /\ s.out \in Text /\ s.panic \in BOOLEAN
  BY DEF Filter
<1>1. CASE ~HasBlock(s.buf)
  BY <1>1 DEF Round
<1>2. CASE HasBlock(s.buf)
  <2>1. PICK a, m, r \in Text : Block(s.buf, a, m, r)
    BY <1>0, <1>2, BlockIs
  <2>2. Round(s) = [buf |-> r, calls |-> s.calls \o Calls(m), out |-> s.out \o a, panic |-> s.panic]
    BY <2>1, RoundTakes
  <2>3. s.calls \o Calls(m) \in Seq(Text)
    BY <1>0, CallsAre
  <2>4. s.out \o a \in Text
    BY <1>0, JoinIs
  <2>5. Len(r) < Len(s.buf)
    BY <1>0, <2>1, BlockParts
  <2>6. QED BY <1>0, <1>2, <2>2, <2>3, <2>4, <2>5 DEF Filter
<1>3. QED BY <1>1, <1>2

IsRounds(f, s, n) == f = [k \in 0..n |-> IF k = 0 THEN s ELSE Round(f[k - 1])]

\* What the recursive definition says of its values.
LEMMA RoundsValues ==
  ASSUME NEW s, NEW n \in Nat, NEW f, IsRounds(f, s, n)
  PROVE  f[0] = s /\ \A k \in 0..n : k # 0 => f[k] = Round(f[k - 1])
<1>1. \A k \in 0..n : f[k] = IF k = 0 THEN s ELSE Round(f[k - 1])
  BY Zenon DEF IsRounds
<1>2. 0 \in 0..n
  OBVIOUS
<1>3. QED BY <1>1, <1>2, Zenon

\* One round more can be counted.
LEMMA RoundsMore ==
  ASSUME NEW s, NEW n \in Nat, NEW f, IsRounds(f, s, n)
  PROVE  \E g : IsRounds(g, s, n + 1)
<1>0. f[0] = s /\ \A k \in 0..n : k # 0 => f[k] = Round(f[k - 1])
  BY RoundsValues
<1>1. PICK g : g = [k \in 0..(n + 1) |-> IF k = n + 1 THEN Round(f[n]) ELSE f[k]]
  OBVIOUS
<1>2. ASSUME NEW k \in 0..(n + 1)
      PROVE  g[k] = IF k = 0 THEN s ELSE Round(g[k - 1])
  <2>1. CASE k = n + 1
    <3>1. k # 0 /\ k - 1 = n /\ n \in 0..(n + 1) /\ n # n + 1
      BY <2>1
    <3>2. g[k] = Round(f[n]) /\ g[n] = f[n]
      BY <1>1, <2>1, <3>1, Zenon
    <3>3. QED BY <3>1, <3>2
  <2>2. CASE k # n + 1 /\ k = 0
    <3>1. g[k] = f[k]
      BY <1>1, <2>2, Zenon
    <3>2. QED BY <1>0, <2>2, <3>1, Zenon
  <2>3. CASE k # n + 1 /\ k # 0
    <3>1. k \in 0..n /\ k - 1 \in 0..(n + 1) /\ k - 1 # n + 1
      BY <2>3
    <3>2. g[k] = f[k] /\ g[k - 1] = f[k - 1]
      BY <1>1, <2>3, <3>1, Zenon
    <3>3. f[k] = Round(f[k - 1])
      BY <1>0, <2>3, <3>1, Zenon
    <3>4. QED BY <2>3, <3>2, <3>3
  <2>4. QED BY <2>1, <2>2, <2>3
<1>3. IsRounds(g, s, n + 1)
  <2>1. g = [k \in 0..(n + 1) |-> IF k = 0 THEN s ELSE Round(g[k - 1])]
    BY <1>1, <1>2
  <2>2. QED BY <2>1 DEF IsRounds
<1>4. QED BY <1>3

\* So the recursive definition defines a function, for any number of rounds.
LEMMA RoundsExist ==
  ASSUME NEW s
  PROVE  \A n \in Nat : \E f : IsRounds(f, s, n)
<1> DEFINE T == {n \in Nat : \E f : IsRounds(f, s, n)}
<1>1. 0 \in T
  <2>1. PICK f : f = [k \in 0..0 |-> s]
    OBVIOUS
  <2>2. f = [k \in 0..0 |-> IF k = 0 THEN s ELSE Round(f[k - 1])]
    BY <2>1
  <2>3. IsRounds(f, s, 0)
    BY <2>2 DEF IsRounds
  <2>4. QED BY <2>3
<1>2. \A n \in T : n + 1 \in T
  BY RoundsMore
<1>3. T \in SUBSET Nat
  OBVIOUS
<1>4. \A n \in Nat : n \in T
  <2> HIDE DEF T
  <2>1. QED BY <1>1, <1>2, <1>3, Inductive, Zenon
<1>5. QED BY <1>4, Zenon

\* The values agree for fewer rounds and for more.
LEMMA RoundsAgree ==
  ASSUME NEW s, NEW n \in Nat, NEW f, IsRounds(f, s, n), NEW g, IsRounds(g, s, n + 1)
  PROVE  f[n] = g[n]
<1> DEFINE T == {k \in Nat : k <= n => f[k] = g[k]}
<1>0. /\ f[0] = s /\ \A k \in 0..n : k # 0 => f[k] = Round(f[k - 1])
      /\ g[0] = s /\ \A k \in 0..(n + 1) : k # 0 => g[k] = Round(g[k - 1])
  <2>1. f[0] = s /\ \A k \in 0..n : k # 0 => f[k] = Round(f[k - 1])
    BY RoundsValues
  <2>2. n + 1 \in Nat
    OBVIOUS
  <2>3. g[0] = s /\ \A k \in 0..(n + 1) : k # 0 => g[k] = Round(g[k - 1])
    BY <2>2, RoundsValues
  <2>4. QED BY <2>1, <2>3, Zenon
<1>1. 0 \in T
  BY <1>0
<1>2. ASSUME NEW k \in T PROVE k + 1 \in T
  <2>1. CASE k + 1 <= n
    <3>1. k + 1 \in 0..n /\ k + 1 \in 0..(n + 1) /\ k + 1 # 0 /\ (k + 1) - 1 = k /\ k <= n
      BY <2>1
    <3>2. f[k + 1] = Round(f[(k + 1) - 1]) /\ g[k + 1] = Round(g[(k + 1) - 1])
      BY <1>0, <3>1, Zenon
    <3>3. QED BY <3>1, <3>2
  <2>2. QED BY <2>1
<1>3. T \in SUBSET Nat
  OBVIOUS
<1>4. \A k \in Nat : k \in T
  <2> HIDE DEF T
  <2>1. QED BY <1>1, <1>2, <1>3, Inductive, Zenon
<1>5. QED BY <1>4

\* n rounds and one more.
LEMMA RoundsAre ==
  ASSUME NEW s
  PROVE  /\ Rounds(s, 0) = s
         /\ \A n \in Nat : Rounds(s, n + 1) = Round(Rounds(s, n))
<1>1. ASSUME NEW n \in Nat
      PROVE  \E f : IsRounds(f, s, n) /\ Rounds(s, n) = f[n]
  <2>1. PICK f : f = CHOOSE g : g = [k \in 0..n |-> IF k = 0 THEN s ELSE Round(g[k - 1])]
    OBVIOUS
  <2>2. \E g : g = [k \in 0..n |-> IF k = 0 THEN s ELSE Round(g[k - 1])]
    BY RoundsExist, Zenon DEF IsRounds
  <2>3. IsRounds(f, s, n)
    BY <2>1, <2>2, Zenon DEF IsRounds
  <2>4. Rounds(s, n) = f[n]
    BY <2>1, Zenon DEF Rounds
  <2>5. QED BY <2>3, <2>4
<1>2. Rounds(s, 0) = s
  <2>1. PICK f : IsRounds(f, s, 0) /\ Rounds(s, 0) = f[0]
    BY <1>1
  <2>2. QED BY <2>1, RoundsValues
<1>3. ASSUME NEW n \in Nat
      PROVE  Rounds(s, n + 1) = Round(Rounds(s, n))
  <2>1. PICK f : IsRounds(f, s, n) /\ Rounds(s, n) = f[n]
    BY <1>1
  <2>2. PICK g : IsRounds(g, s, n + 1) /\ Rounds(s, n + 1) = g[n + 1]
    BY <1>1
  <2>3. f[n] = g[n]
    BY <2>1, <2>2, RoundsAgree
  <2>4. n + 1 \in Nat /\ n + 1 \in 0..(n + 1) /\ n + 1 # 0 /\ (n + 1) - 1 = n
    OBVIOUS
  <2>5. g[n + 1] = Round(g[(n + 1) - 1])
    <3>1. PICK j \in Nat : j = n + 1
      OBVIOUS
    <3>2. IsRounds(g, s, j)
      BY <2>2, <3>1
    <3>3. \A k \in 0..j : k # 0 => g[k] = Round(g[k - 1])
      BY <3>2, RoundsValues
    <3>4. QED BY <2>4, <3>1, <3>3
  <2>6. QED BY <2>1, <2>2, <2>3, <2>4, <2>5
<1>4. QED BY <1>2, <1>3

\* Rounds leave a filter.
LEMMA RoundsTyped ==
  ASSUME NEW s \in Filter
  PROVE  \A n \in Nat : Rounds(s, n) \in Filter
<1> DEFINE T == {n \in Nat : Rounds(s, n) \in Filter}
<1>1. 0 \in T
  BY RoundsAre
<1>2. ASSUME NEW n \in T PROVE n + 1 \in T
  <2>1. Round(Rounds(s, n)) \in Filter
    BY RoundIs
  <2>2. Rounds(s, n + 1) = Round(Rounds(s, n)) /\ n + 1 \in Nat
    BY RoundsAre
  <2>3. QED BY <2>1, <2>2
<1>3. T \in SUBSET Nat
  OBVIOUS
<1>4. \A n \in Nat : n \in T
  <2> HIDE DEF T
  <2>1. QED BY <1>1, <1>2, <1>3, Inductive, Zenon
<1>5. QED BY <1>4, Zenon

\* A round first, or a round last.
LEMMA RoundFirst ==
  ASSUME NEW s
  PROVE  \A n \in Nat : Rounds(Round(s), n) = Rounds(s, n + 1)
<1> DEFINE T == {n \in Nat : Rounds(Round(s), n) = Rounds(s, n + 1)}
<1>1. 0 \in T
  <2>1. Rounds(Round(s), 0) = Round(s) /\ Rounds(s, 0) = s /\ Rounds(s, 0 + 1) = Round(Rounds(s, 0))
    BY RoundsAre
  <2>2. QED BY <2>1
<1>2. ASSUME NEW n \in T PROVE n + 1 \in T
  <2>1. Rounds(Round(s), n + 1) = Round(Rounds(Round(s), n)) /\ n + 1 \in Nat
    BY RoundsAre
  <2>2. Rounds(s, (n + 1) + 1) = Round(Rounds(s, n + 1))
    BY <2>1, RoundsAre
  <2>3. QED BY <2>1, <2>2
<1>3. T \in SUBSET Nat
  OBVIOUS
<1>4. \A n \in Nat : n \in T
  <2> HIDE DEF T
  <2>1. QED BY <1>1, <1>2, <1>3, Inductive, Zenon
<1>5. QED BY <1>4, Zenon

\* Where no block is left, nothing more happens.
LEMMA RoundsStop ==
  ASSUME NEW s \in Filter, NEW n \in Nat, ~HasBlock(Rounds(s, n).buf)
  PROVE  \A k \in Nat : n <= k => Rounds(s, k) = Rounds(s, n)
<1> DEFINE T == {k \in Nat : Rounds(s, n + k) = Rounds(s, n)}
<1>1. 0 \in T
  OBVIOUS
<1>2. ASSUME NEW k \in T PROVE k + 1 \in T
  <2>1. n + k \in Nat /\ n + (k + 1) = (n + k) + 1
    OBVIOUS
  <2>2. Rounds(s, (n + k) + 1) = Round(Rounds(s, n + k))
    BY <2>1, RoundsAre
  <2>3. Rounds(s, n) \in Filter
    BY RoundsTyped
  <2>4. Round(Rounds(s, n)) = Rounds(s, n)
    BY <2>3, RoundIs
  <2>5. QED BY <2>1, <2>2, <2>4
<1>3. T \in SUBSET Nat
  OBVIOUS
<1>4. \A k \in Nat : k \in T
  <2> HIDE DEF T
  <2>1. QED BY <1>1, <1>2, <1>3, Inductive, Zenon
<1>5. ASSUME NEW k \in Nat, n <= k PROVE Rounds(s, k) = Rounds(s, n)
  <2>1. k - n \in Nat /\ n + (k - n) = k
    BY <1>5
  <2>2. k - n \in T
    BY <1>4, <2>1
  <2>3. QED BY <2>1, <2>2
<1>6. QED BY <1>5

\* Each round that takes a block shortens the text.
LEMMA RoundsShorten ==
  ASSUME NEW s \in Filter
  PROVE  \A n \in Nat : ~HasBlock(Rounds(s, n).buf) \/ Len(Rounds(s, n).buf) + n <= Len(s.buf)
<1> DEFINE T == {n \in Nat : ~HasBlock(Rounds(s, n).buf) \/ Len(Rounds(s, n).buf) + n <= Len(s.buf)}
<1>0. \A u \in Filter : Len(u.buf) \in Nat
  BY DEF Filter, Text
<1>1. 0 \in T
  <2>1. Rounds(s, 0) = s
    BY RoundsAre
  <2>2. QED BY <1>0, <2>1
<1>2. ASSUME NEW n \in T PROVE n + 1 \in T
  <2>1. PICK u : u = Rounds(s, n)
    OBVIOUS
  <2>2. u \in Filter
    BY <2>1, RoundsTyped
  <2>3. Rounds(s, n + 1) = Round(u)
    BY <2>1, RoundsAre
  <2>4. CASE HasBlock(u.buf)
    <3>0. Round(u) \in Filter /\ Len(Round(u).buf) < Len(u.buf)
      BY <2>2, <2>4, RoundIs
    <3>1. Len(Round(u).buf) < Len(u.buf) /\ Len(Round(u).buf) \in Nat /\ Len(u.buf) \in Nat /\ Len(s.buf) \in Nat
      BY <1>0, <2>2, <3>0, Zenon
    <3>2. Len(u.buf) + n <= Len(s.buf)
      BY <2>1, <2>4
    <3>3. PICK x, y, z : x = Len(Round(u).buf) /\ y = Len(u.buf) /\ z = Len(s.buf)
      OBVIOUS
    <3>4. x \in Nat /\ y \in Nat /\ z \in Nat /\ x < y /\ y + n <= z /\ n \in Nat
      BY <3>1, <3>2, <3>3
    <3>5. x + (n + 1) <= z
      BY <3>4
    <3>6. Len(Rounds(s, n + 1).buf) + (n + 1) <= Len(s.buf)
      BY <2>3, <3>3, <3>5, Zenon
    <3>7. n + 1 \in Nat
      OBVIOUS
    <3>8. QED BY <3>6, <3>7, Zenon
  <2>5. CASE ~HasBlock(u.buf)
    <3>1. Round(u) = u
      BY <2>2, <2>5, RoundIs
    <3>2. QED BY <2>3, <2>5, <3>1
  <2>6. QED BY <2>4, <2>5
<1>3. T \in SUBSET Nat
  OBVIOUS
<1>4. \A n \in Nat : n \in T
  <2> HIDE DEF T
  <2>1. QED BY <1>1, <1>2, <1>3, Inductive, Zenon
<1>5. QED BY <1>4, Zenon

\* As many rounds as there are bytes take all blocks.
LEMMA AllTaken ==
  ASSUME NEW s \in Filter
  PROVE  /\ TakeBlocks(s) \in Filter /\ ~HasBlock(TakeBlocks(s).buf)
         /\ \A n \in Nat : Len(s.buf) <= n => Rounds(s, n) = TakeBlocks(s)
<1>0. Len(s.buf) \in Nat /\ s.buf \in Text
  BY DEF Filter, Text
<1>1. PICK u : u = Rounds(s, Len(s.buf))
  OBVIOUS
<1>2. u \in Filter
  BY <1>0, <1>1, RoundsTyped
<1>3. ~HasBlock(u.buf)
  <2>1. SUFFICES ASSUME HasBlock(u.buf) PROVE FALSE
    OBVIOUS
  <2>2. Len(u.buf) + Len(s.buf) <= Len(s.buf)
    BY <1>0, <1>1, <2>1, RoundsShorten
  <2>3. Len(u.buf) \in Nat /\ Round(u) \in Filter
    BY <1>2, RoundIs DEF Filter, Text
  <2>4. Round(u).buf \in Text /\ Len(Round(u).buf) < Len(u.buf)
    BY <1>2, <2>1, <2>3, RoundIs DEF Filter
  <2>5. PICK x, y, z : x = Len(Round(u).buf) /\ y = Len(u.buf) /\ z = Len(s.buf)
    OBVIOUS
  <2>6. x \in Nat
    BY <2>4, <2>5 DEF Text
  <2>7. x < y /\ y \in Nat /\ z \in Nat /\ y + z <= z
    BY <1>0, <2>2, <2>3, <2>4, <2>5, Zenon
  <2>8. QED BY <2>6, <2>7
<1>4. \A n \in Nat : Len(s.buf) <= n => Rounds(s, n) = u
  BY <1>0, <1>1, <1>3, RoundsStop
<1>5. QED BY <1>1, <1>2, <1>3, <1>4 DEF TakeBlocks

\* Taking all blocks begins with a round.
LEMMA TakesRound ==
  ASSUME NEW s \in Filter
  PROVE  /\ TakeBlocks(Round(s)) = TakeBlocks(s)
         /\ ~HasBlock(s.buf) => TakeBlocks(s) = s
<1>0. Len(s.buf) \in Nat /\ Round(s) \in Filter /\ Len(Round(s).buf) \in Nat
      /\ Len(Round(s).buf) <= Len(s.buf)
  <2>1. Round(s) \in Filter
    BY RoundIs
  <2>2. \A u \in Filter : Len(u.buf) \in Nat
    BY DEF Filter, Text
  <2>3. PICK x, y : x = Len(Round(s).buf) /\ y = Len(s.buf)
    OBVIOUS
  <2>4. x \in Nat /\ y \in Nat
    BY <2>1, <2>2, <2>3, Zenon
  <2>5. x < y \/ x = y
    BY <2>3, RoundIs, Zenon
  <2>6. x <= y
    BY <2>4, <2>5
  <2>7. QED BY <2>1, <2>3, <2>4, <2>6, Zenon
<1>1. Rounds(Round(s), Len(s.buf)) = TakeBlocks(Round(s))
  BY <1>0, AllTaken
<1>2. Len(s.buf) + 1 \in Nat /\ Len(s.buf) <= Len(s.buf) + 1
  BY <1>0
<1>3. Rounds(s, Len(s.buf) + 1) = TakeBlocks(s)
  BY <1>2, AllTaken
<1>4. Rounds(Round(s), Len(s.buf)) = Rounds(s, Len(s.buf) + 1)
  BY <1>0, RoundFirst
<1>5. ASSUME ~HasBlock(s.buf) PROVE TakeBlocks(s) = s
  <2>1. Rounds(s, 0) = s
    BY RoundsAre
  <2>2. Rounds(s, Len(s.buf)) = Rounds(s, 0)
    BY <1>0, <1>5, <2>1, RoundsStop
  <2>3. QED BY <2>1, <2>2 DEF TakeBlocks
<1>6. QED BY <1>1, <1>3, <1>4, <1>5

-----------------------------------------------------------------------------
\* More behind the text, and text already put out before.
With(s, z) == [s EXCEPT !.buf = s.buf \o z]
Ahead(s, q) == [s EXCEPT !.out = q \o s.out]
Emit(s, p, v) == [s EXCEPT !.out = s.out \o p, !.buf = v]

\* A filter's fields.
LEMMA FieldsAre ==
  ASSUME NEW f, NEW b, NEW c, NEW o, NEW p, f = [buf |-> b, calls |-> c, out |-> o, panic |-> p]
  PROVE  /\ f.buf = b /\ f.calls = c /\ f.out = o /\ f.panic = p
         /\ \A x : [f EXCEPT !.buf = x] = [buf |-> x, calls |-> c, out |-> o, panic |-> p]
         /\ \A x : [f EXCEPT !.out = x] = [buf |-> b, calls |-> c, out |-> x, panic |-> p]
OBVIOUS

\* What Emit changes.
LEMMA EmitIs ==
  ASSUME NEW s \in Filter, NEW p, NEW v
  PROVE  /\ Emit(s, p, v).calls = s.calls /\ Emit(s, p, v).out = s.out \o p
         /\ Emit(s, p, v).panic = s.panic /\ Emit(s, p, v).buf = v
         /\ s.out \in Text /\ s.buf \in Text
         /\ p \in Text /\ v \in Text => Emit(s, p, v) \in Filter
<1>1. s.out \in Text /\ s.buf \in Text
  BY DEF Filter
<1>2. p \in Text => s.out \o p \in Text
  BY <1>1, Joined
<1>3. QED BY <1>1, <1>2 DEF Emit, Filter

\* They leave filters.
LEMMA FiltersAre ==
  ASSUME NEW s \in Filter, NEW z \in Text, NEW p \in Text, NEW v \in Text
  PROVE  /\ With(s, z) \in Filter /\ With(s, z).buf = s.buf \o z
         /\ Ahead(s, z) \in Filter /\ Ahead(s, z).buf = s.buf
         /\ Emit(s, p, v) \in Filter /\ Emit(s, p, v).buf = v
         /\ s.buf \in Text /\ s.out \in Text /\ s.calls \in Seq(Text)
<1>1. s.buf \in Text /\ s.out \in Text /\ s.calls \in Seq(Text)
  BY DEF Filter
<1>2. s.buf \o z \in Text /\ z \o s.out \in Text /\ s.out \o p \in Text
  BY <1>1, JoinIs
<1>3. QED BY <1>1, <1>2 DEF Filter, With, Ahead, Emit

\* A block stays one when more comes behind it.
LEMMA BlockMore ==
  ASSUME NEW w \in Text, NEW a \in Text, NEW m \in Text, NEW r \in Text, NEW z \in Text,
         Block(w, a, m, r)
  PROVE  Block(w \o z, a, m, r \o z) /\ r \o z \in Text
<1>1. ToolOpen \in Text /\ ToolClose \in Text
  BY FourTags, TagsAre
<1>2. PICK c, d : c = ToolClose \o r /\ d = ToolClose \o (r \o z)
  OBVIOUS
<1>3. c \in Text /\ r \o z \in Text /\ d \in Text /\ c \o z = d
  <2>0. ToolClose \in Text /\ r \in Text /\ z \in Text
    BY <1>1
  <2>1. (ToolClose \o r) \o z = ToolClose \o (r \o z)
    BY ONLY <2>0, JoinAll
  <2>2. r \o z \in Text
    BY Joined
  <2>3. c \in Text /\ d \in Text
    BY <1>1, <1>2, <2>2, Joined
  <2>4. QED BY <1>2, <2>1, <2>2, <2>3, Zenon
<1>4. PICK y, x : y = m \o c /\ x = m \o d
  OBVIOUS
<1>5. y \in Text /\ x \in Text /\ y \o z = x
  <2>0. m \in Text /\ c \in Text /\ z \in Text
    BY <1>3
  <2>1. (m \o c) \o z = m \o (c \o z)
    BY ONLY <2>0, JoinAll
  <2>2. y \in Text /\ x \in Text
    BY <1>3, <1>4, Joined
  <2>3. QED BY <1>3, <1>4, <2>1, <2>2, Zenon
<1>6. PICK v, u : v = ToolOpen \o y /\ u = ToolOpen \o x
  OBVIOUS
<1>7. v \in Text /\ u \in Text /\ v \o z = u
  <2>0. ToolOpen \in Text /\ y \in Text /\ z \in Text
    BY <1>1, <1>5, Zenon
  <2>1. (ToolOpen \o y) \o z = ToolOpen \o (y \o z)
    BY <2>0, Regrouped, Zenon
  <2>2. v \in Text /\ u \in Text
    <3>1. ToolOpen \in Text /\ y \in Text /\ x \in Text
      BY <1>1, <1>5
    <3>2. QED BY ONLY <1>6, <3>1, Joined
  <2>3. QED BY <1>5, <1>6, <2>1, <2>2, Zenon
<1>8. w = a \o v /\ First(w, ToolOpen, Len(a)) /\ First(y, ToolClose, Len(m))
  BY <1>2, <1>4, <1>6 DEF Block
<1>9. w \o z = a \o u
  <2>0. a \in Text /\ v \in Text /\ z \in Text
    BY <1>7
  <2>1. (a \o v) \o z = a \o (v \o z)
    BY ONLY <2>0, JoinAll
  <2>2. QED BY <1>7, <1>8, <2>1, Zenon
<1>10. Len(a) \in Nat /\ Len(m) \in Nat
  BY DEF Text
<1>11. First(w \o z, ToolOpen, Len(a)) /\ First(x, ToolClose, Len(m))
  BY <1>1, <1>5, <1>8, <1>10, FirstMore
<1>12. QED BY <1>2, <1>3, <1>4, <1>6, <1>9, <1>11 DEF Block

\* So a round does the same before and after more comes.
LEMMA RoundWith ==
  ASSUME NEW s \in Filter, NEW z \in Text, HasBlock(s.buf)
  PROVE  Round(With(s, z)) = With(Round(s), z)
<1>1. s.buf \in Text /\ With(s, z) \in Filter /\ With(s, z).buf = s.buf \o z
  BY FiltersAre
<1>2. PICK a, m, r \in Text : Block(s.buf, a, m, r)
  BY <1>1, BlockIs
<1>3. Block(With(s, z).buf, a, m, r \o z) /\ r \o z \in Text
  BY <1>1, <1>2, BlockMore
<1>4. Round(s) = [buf |-> r, calls |-> s.calls \o Calls(m), out |-> s.out \o a, panic |-> s.panic]
  BY <1>2, RoundTakes
<1>5. Round(With(s, z)) = [buf |-> r \o z, calls |-> With(s, z).calls \o Calls(m),
                           out |-> With(s, z).out \o a, panic |-> With(s, z).panic]
  BY <1>1, <1>3, RoundTakes
<1>6. With(s, z).calls = s.calls /\ With(s, z).out = s.out /\ With(s, z).panic = s.panic
  BY DEF With, Filter
<1>7. PICK c, o : c = s.calls \o Calls(m) /\ o = s.out \o a
  OBVIOUS
<1>8. Round(s) = [buf |-> r, calls |-> c, out |-> o, panic |-> s.panic]
  BY ONLY <1>4, <1>7
<1>9. Round(With(s, z)) = [buf |-> r \o z, calls |-> c, out |-> o, panic |-> s.panic]
  BY ONLY <1>5, <1>6, <1>7
<1>10. Round(s).buf = r /\ \A x : [Round(s) EXCEPT !.buf = x] = [buf |-> x, calls |-> c, out |-> o, panic |-> s.panic]
  BY ONLY <1>8, FieldsAre
<1>11. With(Round(s), z) = [Round(s) EXCEPT !.buf = r \o z]
  BY ONLY <1>10, Zenon DEF With
<1>12. QED BY ONLY <1>9, <1>10, <1>11, Zenon

\* And so do all rounds.
LEMMA TakesWith ==
  ASSUME NEW s \in Filter, NEW z \in Text
  PROVE  TakeBlocks(With(TakeBlocks(s), z)) = TakeBlocks(With(s, z))
<1> DEFINE T == {n \in Nat : TakeBlocks(With(Rounds(s, n), z)) = TakeBlocks(With(s, z))}
<1>1. 0 \in T
  BY RoundsAre
<1>2. ASSUME NEW n \in T PROVE n + 1 \in T
  <2>1. PICK u : u = Rounds(s, n)
    OBVIOUS
  <2>2. u \in Filter /\ Rounds(s, n + 1) = Round(u) /\ n + 1 \in Nat
    <3>1. u \in Filter
      BY <2>1, RoundsTyped
    <3>2. Rounds(s, n + 1) = Round(u)
      BY <2>1, RoundsAre
    <3>3. QED BY <3>1, <3>2
  <2>3. CASE HasBlock(u.buf)
    <3>1. With(Round(u), z) = Round(With(u, z)) /\ With(u, z) \in Filter
      BY <2>2, <2>3, RoundWith, FiltersAre
    <3>2. TakeBlocks(Round(With(u, z))) = TakeBlocks(With(u, z))
      BY <3>1, TakesRound
    <3>3. QED BY <2>1, <2>2, <3>1, <3>2
  <2>4. CASE ~HasBlock(u.buf)
    <3>1. Round(u) = u
      BY <2>2, <2>4, RoundIs
    <3>2. QED BY <2>1, <2>2, <3>1
  <2>5. QED BY <2>3, <2>4
<1>3. T \in SUBSET Nat
  OBVIOUS
<1>4. \A n \in Nat : n \in T
  <2> HIDE DEF T
  <2>1. QED BY <1>1, <1>2, <1>3, Inductive, Zenon
<1>5. Len(s.buf) \in Nat
  BY DEF Filter, Text
<1>6. Len(s.buf) \in T
  BY <1>4, <1>5
<1>7. QED BY <1>6 DEF TakeBlocks

\* What is out already stays in front.
LEMMA TakesAhead ==
  ASSUME NEW s \in Filter, NEW q \in Text
  PROVE  TakeBlocks(Ahead(s, q)) = Ahead(TakeBlocks(s), q)
<1>1. ASSUME NEW u \in Filter PROVE Round(Ahead(u, q)) = Ahead(Round(u), q)
  <2>1. Ahead(u, q) \in Filter /\ Ahead(u, q).buf = u.buf /\ u.buf \in Text /\ u.out \in Text
    BY <1>1, FiltersAre
  <2>2. CASE HasBlock(u.buf)
    <3>1. PICK a, m, r \in Text : Block(u.buf, a, m, r)
      BY <2>1, <2>2, BlockIs
    <3>2. Round(u) = [buf |-> r, calls |-> u.calls \o Calls(m), out |-> u.out \o a, panic |-> u.panic]
      BY <1>1, <3>1, RoundTakes
    <3>3. Round(Ahead(u, q)) = [buf |-> r, calls |-> Ahead(u, q).calls \o Calls(m),
                                out |-> Ahead(u, q).out \o a, panic |-> Ahead(u, q).panic]
      BY <2>1, <3>1, RoundTakes
    <3>4. Ahead(u, q).calls = u.calls /\ Ahead(u, q).out = q \o u.out /\ Ahead(u, q).panic = u.panic
      BY <1>1 DEF Ahead, Filter
    <3>5. (q \o u.out) \o a = q \o (u.out \o a)
      <4>1. q \in Text /\ u.out \in Text /\ a \in Text
        BY <2>1
      <4>2. QED BY ONLY <4>1, JoinAll
    <3>6. PICK c, o : c = u.calls \o Calls(m) /\ o = u.out \o a
      OBVIOUS
    <3>7. Round(u) = [buf |-> r, calls |-> c, out |-> o, panic |-> u.panic]
      BY ONLY <3>2, <3>6
    <3>8. Round(Ahead(u, q)) = [buf |-> r, calls |-> c, out |-> q \o o, panic |-> u.panic]
      BY ONLY <3>3, <3>4, <3>5, <3>6
    <3>9. Round(u).out = o /\ \A x : [Round(u) EXCEPT !.out = x] = [buf |-> r, calls |-> c, out |-> x, panic |-> u.panic]
      BY ONLY <3>7, FieldsAre
    <3>10. Ahead(Round(u), q) = [Round(u) EXCEPT !.out = q \o o]
      BY ONLY <3>9, Zenon DEF Ahead
    <3>11. QED BY ONLY <3>8, <3>9, <3>10, Zenon
  <2>3. CASE ~HasBlock(u.buf)
    <3>1. Round(u) = u /\ Round(Ahead(u, q)) = Ahead(u, q)
      BY <1>1, <2>1, <2>3, RoundIs
    <3>2. QED BY <3>1
  <2>4. QED BY <2>2, <2>3
<1> DEFINE T == {n \in Nat : Rounds(Ahead(s, q), n) = Ahead(Rounds(s, n), q)}
<1>2. 0 \in T
  BY RoundsAre
<1>3. ASSUME NEW n \in T PROVE n + 1 \in T
  <2>1. PICK u : u = Rounds(s, n)
    OBVIOUS
  <2>2. u \in Filter /\ Rounds(s, n + 1) = Round(u) /\ n + 1 \in Nat
    <3>1. u \in Filter
      BY <2>1, RoundsTyped
    <3>2. Rounds(s, n + 1) = Round(u)
      BY <2>1, RoundsAre
    <3>3. QED BY <3>1, <3>2
  <2>3. Rounds(Ahead(s, q), n + 1) = Round(Ahead(u, q))
    BY <2>1, RoundsAre
  <2>4. QED BY <1>1, <2>2, <2>3
<1>4. T \in SUBSET Nat
  OBVIOUS
<1>5. \A n \in Nat : n \in T
  <2> HIDE DEF T
  <2>1. QED BY <1>2, <1>3, <1>4, Inductive, Zenon
<1>6. Len(s.buf) \in Nat /\ Ahead(s, q).buf = s.buf
  BY FiltersAre DEF Text
<1>7. Len(s.buf) \in T
  BY <1>5, <1>6
<1>8. QED BY <1>6, <1>7 DEF TakeBlocks

-----------------------------------------------------------------------------
\* What a filter makes of its text, if that is all of it: what is put out, the
\* calls, and whether a block is left open.
Before(w) == IF Has(w, ToolOpen) THEN Upto(w, Find(w, ToolOpen)) ELSE w
Told(s) ==
  LET b == TakeBlocks(s) IN
  [content |-> b.out \o Before(b.buf), calls |-> b.calls, open |-> Has(b.buf, ToolOpen)]

\* No tag starts in p when w follows.
NoneIn(p, w) == \A j \in 0..(Len(p) - 1) : ~At(p \o w, ToolOpen, j)

\* A round changes no answer.
LEMMA AnswerRound == ASSUME NEW s \in Filter PROVE Told(Round(s)) = Told(s)
BY TakesRound, Zenon DEF Told

\* Nor does taking blocks early, whatever follows.
LEMMA AnswerWith ==
  ASSUME NEW s \in Filter, NEW z \in Text
  PROVE  Told(With(TakeBlocks(s), z)) = Told(With(s, z))
BY TakesWith, Zenon DEF Told

\* What stands before a text is a text.
LEMMA BeforeIs == ASSUME NEW w \in Text PROVE Before(w) \in Text
<1>1. ToolOpen \in Text
  BY FourTags, TagsAre
<1>2. CASE Has(w, ToolOpen)
  <2>1. First(w, ToolOpen, Find(w, ToolOpen)) /\ Find(w, ToolOpen) \in Nat
    BY <1>1, <1>2, FindIs
  <2>2. Len(w) \in Nat /\ Len(ToolOpen) \in Nat
    BY <1>1 DEF Text
  <2>3. Find(w, ToolOpen) \in 0..Len(w)
    BY <2>1, <2>2 DEF First, At
  <2>4. QED BY <1>2, <2>3, CutsAre DEF Before
<1>3. QED BY <1>2 DEF Before

\* What is out already stays in front of the answer.
LEMMA AnswerAhead ==
  ASSUME NEW s \in Filter, NEW q \in Text
  PROVE  /\ Told(Ahead(s, q)).content = q \o Told(s).content
         /\ Told(Ahead(s, q)).calls = Told(s).calls
         /\ Told(Ahead(s, q)).open = Told(s).open
<1>1. PICK b : b = TakeBlocks(s)
  OBVIOUS
<1>2. b \in Filter /\ TakeBlocks(Ahead(s, q)) = Ahead(b, q)
  BY <1>1, AllTaken, TakesAhead, Zenon
<1>3. Ahead(b, q).buf = b.buf /\ Ahead(b, q).calls = b.calls /\ Ahead(b, q).out = q \o b.out
      /\ b.out \in Text /\ b.buf \in Text
  BY <1>2 DEF Ahead, Filter
<1>4. PICK w : w = Before(b.buf)
  OBVIOUS
<1>5. w \in Text
  BY <1>3, <1>4, BeforeIs, Zenon
<1>6. (q \o b.out) \o w = q \o (b.out \o w)
  BY <1>3, <1>5, Regrouped, Zenon
<1>7. Told(s) = [content |-> b.out \o w, calls |-> b.calls, open |-> Has(b.buf, ToolOpen)]
  BY <1>1, <1>4, Zenon DEF Told
<1>8. Told(Ahead(s, q)) = [content |-> (q \o b.out) \o w, calls |-> b.calls, open |-> Has(b.buf, ToolOpen)]
  BY <1>2, <1>3, <1>4, Zenon DEF Told
<1>9. PICK x, y : x = b.out \o w /\ y = (q \o b.out) \o w
  OBVIOUS
<1>10. /\ Told(s) = [content |-> x, calls |-> b.calls, open |-> Has(b.buf, ToolOpen)]
       /\ Told(Ahead(s, q)) = [content |-> y, calls |-> b.calls, open |-> Has(b.buf, ToolOpen)]
       /\ y = q \o x
  BY <1>6, <1>7, <1>8, <1>9, Zenon
<1>11. /\ Told(s).content = x /\ Told(s).calls = b.calls /\ Told(s).open = Has(b.buf, ToolOpen)
       /\ Told(Ahead(s, q)).content = y /\ Told(Ahead(s, q)).calls = b.calls
       /\ Told(Ahead(s, q)).open = Has(b.buf, ToolOpen)
  BY ONLY <1>10
<1>12. QED BY ONLY <1>10, <1>11, Zenon

\* A text without an opening tag in front of a block, and before one.
LEMMA BlockBehind ==
  ASSUME NEW p \in Text, NEW v \in Text, NoneIn(p, v)
  PROVE  /\ \A a, m, r \in Text : Block(v, a, m, r) => Block(p \o v, p \o a, m, r)
         /\ HasBlock(p \o v) <=> HasBlock(v)
         /\ Has(p \o v, ToolOpen) <=> Has(v, ToolOpen)
         /\ Before(p \o v) = p \o Before(v)
<1>1. ToolOpen \in Text /\ ToolClose \in Text /\ p \o v \in Text /\ Len(p) \in Nat
      /\ Len(ToolOpen) \in Nat /\ Len(v) \in Nat
  BY FourTags, TagsAre, JoinIs
<1>2. /\ \A i \in Nat : First(v, ToolOpen, i) => First(p \o v, ToolOpen, Len(p) + i)
      /\ Has(p \o v, ToolOpen) <=> Has(v, ToolOpen)
  BY <1>1, FirstBehind DEF NoneIn
<1>3. ASSUME NEW a \in Text, NEW m \in Text, NEW r \in Text, Block(v, a, m, r)
      PROVE  Block(p \o v, p \o a, m, r)
  <2>1. PICK y : y = ToolOpen \o (m \o (ToolClose \o r))
    OBVIOUS
  <2>2. v = a \o y /\ First(v, ToolOpen, Len(a)) /\ First(m \o (ToolClose \o r), ToolClose, Len(m))
    BY <1>3, <2>1, Zenon DEF Block
  <2>3. y \in Text
    BY <1>1, <2>1, Joined, Zenon
  <2>4. p \o v = (p \o a) \o y
    BY <2>2, <2>3, Regrouped, Zenon
  <2>5. Len(p \o a) = Len(p) + Len(a) /\ Len(a) \in Nat
    BY JoinIs, Zenon
  <2>6. First(p \o v, ToolOpen, Len(p \o a))
    BY <1>2, <2>2, <2>5, Zenon
  <2>7. QED BY <2>1, <2>2, <2>4, <2>6, Zenon DEF Block
<1>4. ASSUME Has(v, ToolOpen)
      PROVE  /\ Drop(p \o v, Find(p \o v, ToolOpen)) = Drop(v, Find(v, ToolOpen))
             /\ Upto(p \o v, Find(p \o v, ToolOpen)) = p \o Upto(v, Find(v, ToolOpen))
  <2>1. PICK i : i = Find(v, ToolOpen)
    OBVIOUS
  <2>2. First(v, ToolOpen, i) /\ i \in Nat
    BY <1>1, <1>4, <2>1, FindIs
  <2>3. i \in 0..Len(v)
    BY <1>1, <2>2 DEF First, At
  <2>4. First(p \o v, ToolOpen, Len(p) + i) /\ Len(p) + i \in Nat
    BY <1>1, <1>2, <2>2
  <2>5. Find(p \o v, ToolOpen) = Len(p) + i
    BY <1>1, <2>4, FirstIs, Zenon
  <2>6. /\ Upto(p \o v, Len(p) + i) = p \o Upto(v, i) /\ Drop(p \o v, Len(p) + i) = Drop(v, i)
    BY <2>3, CutSecond
  <2>7. QED BY <2>1, <2>5, <2>6, Zenon
<1>5. HasBlock(p \o v) <=> HasBlock(v)
  BY <1>2, <1>4, Zenon DEF HasBlock
<1>6. Before(p \o v) = p \o Before(v)
  BY <1>2, <1>4, Zenon DEF Before
<1>7. QED BY <1>2, <1>3, <1>5, <1>6, Zenon

\* Putting out a text without an opening tag early changes no answer.
LEMMA AnswerEmit ==
  ASSUME NEW s \in Filter, NEW p \in Text, NEW v \in Text, s.buf = p \o v, NoneIn(p, v)
  PROVE  Told(Emit(s, p, v)) = Told(s)
<1>1. PICK e : e = Emit(s, p, v)
  OBVIOUS
<1>2. /\ e \in Filter /\ e.buf = v /\ s.out \in Text /\ s.buf \in Text
  <2>1. Emit(s, p, v).buf = v
    BY DEF Emit, Filter
  <2>2. s.out \in Text /\ s.buf \in Text
    BY EmitIs, Zenon
  <2>3. Emit(s, p, v) \in Filter
    BY EmitIs, Zenon
  <2>4. QED BY <1>1, <2>1, <2>2, <2>3, Zenon
<1>3. e.calls = s.calls /\ e.out = s.out \o p /\ e.panic = s.panic
  <2>1. /\ Emit(s, p, v).calls = s.calls /\ Emit(s, p, v).out = s.out \o p
        /\ Emit(s, p, v).panic = s.panic
    BY EmitIs
  <2>2. QED BY <1>1, <2>1, Zenon
<1>0. /\ \A a, m, r \in Text : Block(v, a, m, r) => Block(s.buf, p \o a, m, r)
      /\ HasBlock(s.buf) <=> HasBlock(v)
      /\ Has(s.buf, ToolOpen) <=> Has(v, ToolOpen)
      /\ Before(s.buf) = p \o Before(v)
  <2>1. /\ \A a, m, r \in Text : Block(v, a, m, r) => Block(p \o v, p \o a, m, r)
        /\ HasBlock(p \o v) <=> HasBlock(v)
        /\ Has(p \o v, ToolOpen) <=> Has(v, ToolOpen)
        /\ Before(p \o v) = p \o Before(v)
    BY BlockBehind
  <2>2. QED BY <2>1, Zenon
<1>4. CASE HasBlock(v)
  <2>1. PICK a, m, r \in Text : Block(v, a, m, r)
    BY <1>4, BlockIs
  <2>2. Block(s.buf, p \o a, m, r) /\ p \o a \in Text
    BY <1>0, <2>1, Joined, Zenon
  <2>3. Round(s) = [buf |-> r, calls |-> s.calls \o Calls(m), out |-> s.out \o (p \o a), panic |-> s.panic]
    BY <2>2, RoundTakes, Zenon
  <2>4. Round(e) = [buf |-> r, calls |-> e.calls \o Calls(m), out |-> e.out \o a, panic |-> e.panic]
    BY <1>2, <2>1, RoundTakes, Zenon
  <2>5. (s.out \o p) \o a = s.out \o (p \o a)
    BY <1>2, Regrouped, Zenon
  <2>6. Round(e) = Round(s)
    BY <1>3, <2>3, <2>4, <2>5, Zenon
  <2>7. QED BY <1>1, <1>2, <2>6, AnswerRound, Zenon
<1>5. CASE ~HasBlock(v)
  <2>1. ~HasBlock(s.buf)
    BY <1>0, <1>5, Zenon
  <2>2. TakeBlocks(s) = s /\ TakeBlocks(e) = e
    BY <1>2, <1>5, <2>1, TakesRound, Zenon
  <2>3. Before(s.buf) = p \o Before(v) /\ (Has(s.buf, ToolOpen) <=> Has(v, ToolOpen))
    BY <1>0, Zenon
  <2>4. (s.out \o p) \o Before(v) = s.out \o (p \o Before(v))
    <3>1. Before(v) \in Text
      BY BeforeIs, Zenon
    <3>2. QED BY <1>2, <3>1, Regrouped, Zenon
  <2>5. Has(s.buf, ToolOpen) = Has(v, ToolOpen)
    BY <2>3 DEF Has
  <2>6. Told(s) = [content |-> s.out \o (p \o Before(v)), calls |-> s.calls, open |-> Has(v, ToolOpen)]
    BY <2>2, <2>3, <2>5, Zenon DEF Told
  <2>7. Told(e) = [content |-> (s.out \o p) \o Before(v), calls |-> s.calls, open |-> Has(v, ToolOpen)]
    BY <1>2, <1>3, <2>2, Zenon DEF Told
  <2>8. QED BY <1>1, <2>4, <2>6, <2>7, Zenon
<1>6. QED BY <1>4, <1>5

\* Taking blocks never panics.
LEMMA TakesPanic == ASSUME NEW s \in Filter PROVE TakeBlocks(s).panic = s.panic
<1>1. ASSUME NEW u \in Filter PROVE Round(u).panic = u.panic
  <2>1. CASE HasBlock(u.buf)
    <3>1. u.buf \in Text
      BY DEF Filter
    <3>2. PICK a, m, r \in Text : Block(u.buf, a, m, r)
      BY <2>1, <3>1, BlockIs
    <3>3. Round(u) = [buf |-> r, calls |-> u.calls \o Calls(m), out |-> u.out \o a, panic |-> u.panic]
      BY <1>1, <3>2, RoundTakes, Zenon
    <3>4. PICK c, o : c = u.calls \o Calls(m) /\ o = u.out \o a
      OBVIOUS
    <3>5. Round(u) = [buf |-> r, calls |-> c, out |-> o, panic |-> u.panic]
      BY <3>3, <3>4, Zenon
    <3>6. QED BY ONLY <3>5, FieldsAre
  <2>2. CASE ~HasBlock(u.buf)
    BY <1>1, <2>2, RoundIs
  <2>3. QED BY <2>1, <2>2
<1> DEFINE T == {n \in Nat : Rounds(s, n).panic = s.panic}
<1>2. 0 \in T
  BY RoundsAre
<1>3. ASSUME NEW n \in T PROVE n + 1 \in T
  <2>1. Rounds(s, n) \in Filter
    BY RoundsTyped
  <2>2. Rounds(s, n + 1) = Round(Rounds(s, n))
    BY RoundsAre
  <2>3. QED BY <1>1, <2>1, <2>2
<1>4. T \in SUBSET Nat
  OBVIOUS
<1>5. \A n \in Nat : n \in T
  <2> HIDE DEF T
  <2>1. QED BY <1>2, <1>3, <1>4, Inductive, Zenon
<1>6. Len(s.buf) \in Nat
  BY DEF Filter, Text
<1>7. QED BY <1>5, <1>6 DEF TakeBlocks

\* What is held: nothing in front of it can be the start of a tag, and it is less
\* than a tag or starts with one.
Held(v) == Len(v) < Len(ToolOpen) \/ Starts(v, ToolOpen)
\* What it holds back is no part of a tag that could still come, or an open one.
LEMMA HoldIs ==
  ASSUME NEW b \in Filter, ~HasBlock(b.buf), b.panic = FALSE, HoldBack(b).panic = FALSE
  PROVE  \E p, v \in Text :
           /\ b.buf = p \o v /\ HoldBack(b) = Emit(b, p, v)
           /\ \A z \in Text : NoneIn(p, v \o z)
           /\ Held(v)
<1>0. /\ ToolOpen \in Text /\ Len(ToolOpen) \in Nat /\ Len(ToolOpen) >= 1
      /\ b.buf \in Text /\ b.out \in Text /\ Len(b.buf) \in Nat
  <2>1. b.buf \in Text /\ b.out \in Text
    BY DEF Filter
  <2>2. QED BY <2>1, FourTags, TagsAre DEF Text
<1>1. CASE Has(b.buf, ToolOpen)
  <2>1. PICK i : i = Find(b.buf, ToolOpen)
    OBVIOUS
  <2>2. First(b.buf, ToolOpen, i) /\ i \in Nat
    BY <1>0, <1>1, <2>1, FindIs
  <2>3. PICK p, r \in Text : Len(p) = i /\ b.buf = p \o (ToolOpen \o r)
    BY <1>0, <2>2, FoundCut DEF First
  <2>4. PICK v : v = ToolOpen \o r
    OBVIOUS
  <2>5. v \in Text
    BY <1>0, <2>4, Joined, Zenon
  <2>6. b.buf = p \o v
    BY <2>3, <2>4, Zenon
  <2>7. Upto(p \o v, Len(p)) = p /\ Drop(p \o v, Len(p)) = v
    BY <2>5, CutJoined, Zenon
  <2>8. Upto(b.buf, i) = p /\ Drop(b.buf, i) = v
    BY <2>3, <2>6, <2>7
  <2>9. HoldBack(b) = [b EXCEPT !.out = b.out \o Upto(b.buf, i), !.buf = Drop(b.buf, i)]
    BY <1>1, <2>1 DEF HoldBack
  <2>10. HoldBack(b) = Emit(b, p, v)
    BY <2>8, <2>9, Zenon DEF Emit
  <2>11. ASSUME NEW z \in Text, NEW j \in 0..(Len(p) - 1), At(p \o (v \o z), ToolOpen, j)
         PROVE  FALSE
    <3>1. First(b.buf \o z, ToolOpen, i)
      BY <1>0, <2>2, FirstMore, Zenon
    <3>2. (p \o v) \o z = p \o (v \o z)
      BY <2>5, Regrouped, Zenon
    <3>3. At(b.buf \o z, ToolOpen, j)
      BY <2>6, <2>11, <3>2, Zenon
    <3>4. j \in Nat /\ j < i
      BY <2>2, <2>3
    <3>5. i <= j
      BY <3>1, <3>3, <3>4, Zenon DEF First
    <3>6. QED BY <2>2, <3>4, <3>5
  <2>12. \A z \in Text : NoneIn(p, v \o z)
    BY <2>11 DEF NoneIn
  <2>13. Starts(v, ToolOpen)
    <3>1. Len(ToolOpen) \in 0..Len(v) /\ Upto(v, Len(ToolOpen)) = ToolOpen
      BY <1>0, <2>4, CutJoined, Zenon
    <3>2. Len(v) \in Nat
      BY <2>5 DEF Text
    <3>3. QED BY <1>0, <3>1, <3>2 DEF Starts
  <2>14. QED BY <2>5, <2>6, <2>10, <2>12, <2>13, Zenon DEF Held
<1>2. CASE ~Has(b.buf, ToolOpen) /\ Len(b.buf) <= ToolHeld
  <2>1. HoldBack(b) = b
    BY <1>2 DEF HoldBack
  <2>2. <<>> \in Text /\ b.buf = <<>> \o b.buf /\ b.out \o <<>> = b.out
    BY <1>0, NoText
  <2>3. Emit(b, <<>>, b.buf) = b
    BY <2>2 DEF Emit, Filter
  <2>4. \A z \in Text : NoneIn(<<>>, b.buf \o z)
    BY NoText DEF NoneIn
  <2>5. Len(b.buf) < Len(ToolOpen)
    BY <1>0, <1>2 DEF ToolHeld
  <2>6. QED BY <1>0, <2>1, <2>2, <2>3, <2>4, <2>5 DEF Held
<1>3. CASE ~Has(b.buf, ToolOpen) /\ ~(Len(b.buf) <= ToolHeld)
  <2>1. PICK cut : cut = Len(b.buf) - ToolHeld
    OBVIOUS
  <2>2. cut \in 0..Len(b.buf) /\ Len(b.buf) - cut = Len(ToolOpen) - 1
    BY <1>0, <1>3, <2>1 DEF ToolHeld
  <2>3. PICK p, v : p = Upto(b.buf, cut) /\ v = Drop(b.buf, cut)
    OBVIOUS
  <2>4. p \in Text /\ Len(p) = cut /\ v \in Text /\ Len(v) = Len(b.buf) - cut
    BY <1>0, <2>2, <2>3, CutsAre, Zenon
  <2>5. b.buf = p \o v
    BY <1>0, <2>2, <2>3, JoinCuts, Zenon
  <2>6. CASE ~Boundary(b.buf, cut)
    <3>1. HoldBack(b) = [b EXCEPT !.panic = TRUE]
      BY <1>3, <2>1, <2>6 DEF HoldBack
    <3>2. HoldBack(b).panic = TRUE
      BY <3>1 DEF Filter
    <3>3. QED BY <3>2
  <2>7. CASE Boundary(b.buf, cut)
    <3>1. HoldBack(b) = [b EXCEPT !.out = b.out \o Upto(b.buf, cut), !.buf = Drop(b.buf, cut)]
      BY <1>3, <2>1, <2>7 DEF HoldBack
    <3>2. HoldBack(b) = Emit(b, p, v)
      BY <2>3, <3>1, Zenon DEF Emit
    <3>3. ASSUME NEW z \in Text, NEW j \in 0..(Len(p) - 1), At(p \o (v \o z), ToolOpen, j)
          PROVE  FALSE
      <4>1. (p \o v) \o z = p \o (v \o z)
        BY <2>4, Regrouped, Zenon
      <4>2. At(b.buf \o z, ToolOpen, j)
        BY <2>5, <3>3, <4>1, Zenon
      <4>3. j + Len(ToolOpen) <= Len(b.buf) /\ j \in Nat
        BY <1>0, <2>2, <2>4
      <4>4. At(b.buf, ToolOpen, j)
        BY <1>0, <4>2, <4>3, AtMore, Zenon
      <4>5. QED BY <1>0, <1>3, <4>3, <4>4, HasIs, Zenon
    <3>4. \A z \in Text : NoneIn(p, v \o z)
      BY <3>3 DEF NoneIn
    <3>5. Len(v) < Len(ToolOpen)
      BY <1>0, <2>2, <2>4
    <3>6. QED BY <2>4, <2>5, <3>2, <3>4, <3>5, Zenon DEF Held
  <2>8. QED BY <2>6, <2>7
<1>4. QED BY <1>1, <1>2, <1>3

\* More text behind what was put out.
LEMMA EmitWith ==
  ASSUME NEW s \in Filter, NEW p \in Text, NEW v \in Text, NEW z \in Text
  PROVE  With(Emit(s, p, v), z) = Emit(With(s, z), p, v \o z)
<1>1. PICK c, o, b, x : s = [buf |-> b, calls |-> c, out |-> o, panic |-> x]
  BY DEF Filter
<1>2. PICK q, u, y : q = o \o p /\ u = v \o z /\ y = b \o z
  OBVIOUS
<1>3. s.out = o /\ s.buf = b
  BY <1>1, FieldsAre
<1>4. Emit(s, p, v) = [s EXCEPT !.out = q, !.buf = v]
  <2>1. s.out \o p = q
    BY <1>2, <1>3, Zenon
  <2>2. Emit(s, p, v) = [s EXCEPT !.out = s.out \o p, !.buf = v]
    BY DEF Emit
  <2>3. QED BY ONLY <2>1, <2>2
<1>5. [s EXCEPT !.out = q, !.buf = v] = [buf |-> v, calls |-> c, out |-> q, panic |-> x]
  <2>1. PICK g : g = [s EXCEPT !.out = q]
    OBVIOUS
  <2>2. g = [buf |-> b, calls |-> c, out |-> q, panic |-> x]
    BY ONLY <1>1, <2>1
  <2>3. [g EXCEPT !.buf = v] = [buf |-> v, calls |-> c, out |-> q, panic |-> x]
    BY ONLY <2>2
  <2>4. [s EXCEPT !.out = q, !.buf = v] = [[s EXCEPT !.out = q] EXCEPT !.buf = v]
    OBVIOUS
  <2>5. QED BY <2>1, <2>3, <2>4
<1>6. Emit(s, p, v) = [buf |-> v, calls |-> c, out |-> q, panic |-> x]
  BY <1>4, <1>5, Zenon
<1>7. PICK e : e = Emit(s, p, v)
  OBVIOUS
<1>8. e = [buf |-> v, calls |-> c, out |-> q, panic |-> x]
  BY <1>6, <1>7, Zenon
<1>9. e.buf = v /\ [e EXCEPT !.buf = u] = [buf |-> u, calls |-> c, out |-> q, panic |-> x]
  BY ONLY <1>8, FieldsAre
<1>10. With(e, z) = [e EXCEPT !.buf = u]
  BY <1>2, <1>9, Zenon DEF With
<1>11. PICK w : w = With(s, z)
  OBVIOUS
<1>12. [s EXCEPT !.buf = y] = [buf |-> y, calls |-> c, out |-> o, panic |-> x]
  BY ONLY <1>1, FieldsAre
<1>13. w = [buf |-> y, calls |-> c, out |-> o, panic |-> x]
  BY <1>2, <1>3, <1>11, <1>12, Zenon DEF With
<1>14. w.out = o
  BY ONLY <1>13, FieldsAre
<1>15. [w EXCEPT !.out = q, !.buf = u] = [buf |-> u, calls |-> c, out |-> q, panic |-> x]
  <2>1. PICK g : g = [w EXCEPT !.out = q]
    OBVIOUS
  <2>2. g = [buf |-> y, calls |-> c, out |-> q, panic |-> x]
    BY ONLY <1>13, <2>1
  <2>3. [g EXCEPT !.buf = u] = [buf |-> u, calls |-> c, out |-> q, panic |-> x]
    BY ONLY <2>2
  <2>4. [w EXCEPT !.out = q, !.buf = u] = [[w EXCEPT !.out = q] EXCEPT !.buf = u]
    OBVIOUS
  <2>5. QED BY <2>1, <2>3, <2>4
<1>16. Emit(w, p, u) = [w EXCEPT !.out = q, !.buf = u]
  <2>1. w.out \o p = q
    BY <1>2, <1>14, Zenon
  <2>2. Emit(w, p, u) = [w EXCEPT !.out = w.out \o p, !.buf = u]
    BY DEF Emit
  <2>3. QED BY ONLY <2>1, <2>2
<1>17. QED BY <1>2, <1>7, <1>9, <1>10, <1>11, <1>15, <1>16, Zenon

\* Feeding a filter changes no answer, whatever follows; no complete block stays
\* in it, and what stays may still be the start of one (ToolFilter::feed).
LEMMA FeedIs ==
  ASSUME NEW s \in Filter, s.panic = FALSE, NEW f, f = ToolFeed(s), f.panic = FALSE
  PROVE  /\ f \in Filter /\ ~HasBlock(f.buf) /\ Held(f.buf)
         /\ \A z \in Text : Told(With(f, z)) = Told(With(s, z))
<1>1. PICK b : b = TakeBlocks(s)
  OBVIOUS
<1>2. b \in Filter /\ ~HasBlock(b.buf) /\ b.panic = FALSE
  BY <1>1, AllTaken, TakesPanic
<1>3. f = HoldBack(b)
  BY <1>1 DEF ToolFeed
<1>4. PICK p, v \in Text : /\ b.buf = p \o v /\ f = Emit(b, p, v)
                           /\ \A z \in Text : NoneIn(p, v \o z)
                           /\ Held(v)
  BY <1>2, <1>3, HoldIs
<1>5. f \in Filter /\ f.buf = v
  <2>1. Emit(b, p, v) \in Filter /\ Emit(b, p, v).buf = v
    BY <1>2, FiltersAre
  <2>2. QED BY <1>4, <2>1, Zenon
<1>6. ~HasBlock(f.buf)
  <2>1. <<>> \in Text /\ v \o <<>> = v
    BY NoText
  <2>2. NoneIn(p, v)
    BY <1>4, <2>1
  <2>3. HasBlock(p \o v) <=> HasBlock(v)
    BY <2>2, BlockBehind, Zenon
  <2>4. QED BY <1>2, <1>4, <1>5, <2>3
<1>7. ASSUME NEW z \in Text PROVE Told(With(f, z)) = Told(With(s, z))
  <2>0. With(b, z) \in Filter /\ With(b, z).buf = b.buf \o z
    BY <1>2, FiltersAre
  <2>1. With(f, z) = Emit(With(b, z), p, v \o z)
    <3>1. With(Emit(b, p, v), z) = Emit(With(b, z), p, v \o z)
      BY <1>2, EmitWith
    <3>2. QED BY <1>4, <3>1, Zenon
  <2>2. With(b, z) \in Filter /\ With(b, z).buf = b.buf \o z /\ v \o z \in Text
    BY <2>0, Joined, Zenon
  <2>3. (p \o v) \o z = p \o (v \o z)
    BY Regrouped, Zenon
  <2>4. With(b, z).buf = p \o (v \o z) /\ NoneIn(p, v \o z)
    BY <1>4, <2>2, <2>3, Zenon
  <2>5. Told(Emit(With(b, z), p, v \o z)) = Told(With(b, z))
    BY <2>2, <2>4, AnswerEmit, Zenon
  <2>6. Told(With(b, z)) = Told(With(s, z))
    BY <1>1, AnswerWith, Zenon
  <2>7. QED BY <2>1, <2>5, <2>6, Zenon
<1>8. QED BY <1>4, <1>5, <1>6, <1>7, Zenon

\* A filter that holds no opening tag back has an answer without an open block.
LEMMA FeedClosed ==
  ASSUME NEW s \in Filter, ~Has(ToolFeed(s).buf, ToolOpen)
  PROVE  ~Told(s).open
<1>1. PICK b : b = TakeBlocks(s)
  OBVIOUS
<1>2. b \in Filter /\ b.buf \in Text /\ ToolOpen \in Text
  <2>1. b \in Filter
    BY <1>1, AllTaken
  <2>2. QED BY <2>1, FourTags, TagsAre DEF Filter
<1>3. SUFFICES ASSUME Has(b.buf, ToolOpen) PROVE FALSE
  BY <1>1 DEF Told
<1>4. PICK i : i = Find(b.buf, ToolOpen)
  OBVIOUS
<1>5. First(b.buf, ToolOpen, i) /\ i \in Nat
  BY <1>2, <1>3, <1>4, FindIs
<1>6. PICK p, r \in Text : Len(p) = i /\ b.buf = p \o (ToolOpen \o r)
  BY <1>2, <1>5, FoundCut DEF First
<1>7. PICK v : v = ToolOpen \o r
  OBVIOUS
<1>8. v \in Text
  BY <1>2, <1>7, Joined, Zenon
<1>9. Drop(p \o v, Len(p)) = v
  BY <1>8, CutJoined, Zenon
<1>10. HoldBack(b).buf = v
  <2>1. HoldBack(b) = [b EXCEPT !.out = b.out \o Upto(b.buf, i), !.buf = Drop(b.buf, i)]
    BY <1>3, <1>4 DEF HoldBack
  <2>2. Drop(b.buf, i) = v
    BY <1>6, <1>7, <1>9
  <2>3. QED BY <1>2, <2>1, <2>2 DEF Filter
<1>11. ToolFeed(s).buf = v
  BY <1>1, <1>10 DEF ToolFeed
<1>12. At(v, ToolOpen, 0)
  <2>1. <<>> \in Text /\ <<>> \o v = v /\ Len(<<>>) = 0
    BY <1>8, NoText
  <2>2. At(<<>> \o (ToolOpen \o r), ToolOpen, Len(<<>>))
    BY <1>2, <2>1, CutFound, Zenon
  <2>3. QED BY <1>7, <2>1, <2>2
<1>13. Has(v, ToolOpen)
  BY <1>2, <1>8, <1>12, HasIs
<1>14. QED BY <1>11, <1>13

-----------------------------------------------------------------------------
\* The one-shot parser's state that a filter's stands for.
ParseOf(s) == [rest |-> s.buf, content |-> s.out, calls |-> s.calls]

\* Both loops take the same blocks.
LEMMA ParseRoundIs ==
  ASSUME NEW s \in Filter
  PROVE  ParseRound(ParseOf(s)) = ParseOf(Round(s))
<1>1. PICK w : w = s.buf
  OBVIOUS
<1>2. w \in Text
  BY <1>1 DEF Filter
<1>3. PICK e : e = ParseOf(s)
  OBVIOUS
<1>4. e.rest = w /\ e.content = s.out /\ e.calls = s.calls
  BY <1>1, <1>3 DEF ParseOf
<1>5. CASE HasBlock(w)
  <2>1. PICK a, m, r \in Text : Block(w, a, m, r)
    BY <1>2, <1>5, BlockIs
  <2>2. Round(s) = [buf |-> r, calls |-> s.calls \o Calls(m), out |-> s.out \o a, panic |-> s.panic]
    BY <1>1, <2>1, RoundTakes, Zenon
  <2>3. PICK c, o : c = s.calls \o Calls(m) /\ o = s.out \o a
    OBVIOUS
  <2>4. Round(s) = [buf |-> r, calls |-> c, out |-> o, panic |-> s.panic]
    BY <2>2, <2>3, Zenon
  <2>5. Round(s).buf = r /\ Round(s).calls = c /\ Round(s).out = o
    BY ONLY <2>4, FieldsAre
  <2>6. ParseOf(Round(s)) = [rest |-> r, content |-> o, calls |-> c]
    BY <2>5, Zenon DEF ParseOf
  <2>7. /\ Has(w, ToolOpen) /\ Find(w, ToolOpen) = Len(a) /\ Upto(w, Len(a)) = a
        /\ Has(Behind(w), ToolClose) /\ Find(Behind(w), ToolClose) = Len(m)
        /\ Upto(Behind(w), Len(m)) = m /\ Drop(Behind(w), Len(m) + Len(ToolClose)) = r
    BY <1>2, <2>1, BlockParts, Zenon
  <2>8. ParseRound(e) = [rest |-> Drop(Behind(w), Len(m) + Len(ToolClose)),
                         content |-> s.out \o Upto(w, Len(a)),
                         calls |-> s.calls \o Calls(Upto(Behind(w), Len(m)))]
    BY <1>4, <2>7, Zenon DEF ParseRound
  <2>9. QED BY <1>3, <2>3, <2>6, <2>7, <2>8, Zenon
<1>6. CASE ~HasBlock(w)
  <2>1. Round(s) = s
    BY <1>1, <1>6, RoundIs, Zenon
  <2>2. ASSUME Has(w, ToolOpen), Has(Behind(w), ToolClose) PROVE FALSE
    <3>1. ToolOpen \in Text /\ ToolClose \in Text /\ Len(ToolOpen) \in Nat
      BY FourTags, TagsAre
    <3>2. First(w, ToolOpen, Find(w, ToolOpen)) /\ Find(w, ToolOpen) \in Nat
      BY <1>2, <2>2, <3>1, FindIs
    <3>3. PICK a, y \in Text : Len(a) = Find(w, ToolOpen) /\ w = a \o (ToolOpen \o y)
      BY <1>2, <3>1, <3>2, FoundCut DEF First
    <3>4. PICK v : v = ToolOpen \o y
      OBVIOUS
    <3>5. v \in Text /\ Len(ToolOpen) \in 0..Len(v) /\ Drop(v, Len(ToolOpen)) = y
      BY <3>1, <3>4, Joined, CutJoined, Zenon
    <3>6. Drop(a \o v, Len(a)) = v
      BY <3>5, CutJoined, Zenon
    <3>7. Drop(a \o v, Len(a) + Len(ToolOpen)) = Drop(v, Len(ToolOpen))
      BY <3>5, CutSecond
    <3>8. Behind(w) = y
      BY <3>3, <3>4, <3>5, <3>7 DEF Behind
    <3>9. Has(v, ToolClose)
      BY <2>2, <3>4, <3>8, CloseBehind
    <3>10. HasBlock(w)
      BY <2>2, <3>3, <3>4, <3>6, <3>9 DEF HasBlock
    <3>11. QED BY <1>6, <3>10
  <2>3. ParseRound(e) = e
    BY <1>4, <2>2 DEF ParseRound
  <2>4. QED BY <1>3, <2>1, <2>3
<1>7. QED BY <1>5, <1>6

\* n rounds of the one-shot parser are n rounds of the filter.
LEMMA ParseRoundsAre ==
  ASSUME NEW s \in Filter, NEW n \in Nat
  PROVE  ParseRounds(ParseOf(s), n) = ParseOf(Rounds(s, n))
<1>1. PICK e : e = ParseOf(s)
  OBVIOUS
<1>2. PICK g : g = [k \in 0..n |-> ParseOf(Rounds(s, k))]
  OBVIOUS
<1>3. ASSUME NEW k \in 0..n PROVE g[k] = IF k = 0 THEN e ELSE ParseRound(g[k - 1])
  <2>1. g[k] = ParseOf(Rounds(s, k))
    BY <1>2, Zenon
  <2>2. CASE k = 0
    <3>1. Rounds(s, 0) = s
      BY RoundsAre
    <3>2. QED BY <1>1, <2>1, <2>2, <3>1
  <2>3. CASE k # 0
    <3>1. PICK j : j = k - 1
      OBVIOUS
    <3>2. j \in 0..n /\ j \in Nat /\ k = j + 1
      BY <2>3, <3>1
    <3>3. Rounds(s, j + 1) = Round(Rounds(s, j)) /\ Rounds(s, j) \in Filter
      BY <3>2, RoundsAre, RoundsTyped
    <3>4. ParseRound(ParseOf(Rounds(s, j))) = ParseOf(Round(Rounds(s, j)))
      BY <3>3, ParseRoundIs, Zenon
    <3>5. g[j] = ParseOf(Rounds(s, j))
      BY <1>2, <3>2, Zenon
    <3>6. QED BY <2>1, <2>3, <3>1, <3>2, <3>3, <3>4, <3>5
  <2>4. QED BY <2>2, <2>3
<1>4. g = [k \in 0..n |-> IF k = 0 THEN e ELSE ParseRound(g[k - 1])]
  BY <1>2, <1>3
<1>5. PICK f : f = CHOOSE h : h = [k \in 0..n |-> IF k = 0 THEN e ELSE ParseRound(h[k - 1])]
  OBVIOUS
<1>6. f = [k \in 0..n |-> IF k = 0 THEN e ELSE ParseRound(f[k - 1])]
  BY <1>4, <1>5, Zenon
<1>7. ParseRounds(e, n) = f[n]
  BY <1>5, Zenon DEF ParseRounds
<1> DEFINE T == {k \in Nat : k <= n => f[k] = g[k]}
<1>8. \A k \in 0..n : f[k] = IF k = 0 THEN e ELSE ParseRound(f[k - 1])
  BY <1>6, Zenon
<1>9. 0 \in T
  BY <1>3, <1>8
<1>10. ASSUME NEW k \in T PROVE k + 1 \in T
  <2>1. CASE k + 1 <= n
    <3>1. k + 1 \in 0..n /\ k + 1 # 0 /\ (k + 1) - 1 = k /\ k <= n
      BY <2>1
    <3>2. f[k + 1] = ParseRound(f[(k + 1) - 1]) /\ g[k + 1] = ParseRound(g[(k + 1) - 1])
      BY <1>3, <1>8, <3>1, Zenon
    <3>3. QED BY <3>1, <3>2
  <2>2. QED BY <2>1
<1>11. T \in SUBSET Nat
  OBVIOUS
<1>12. \A k \in Nat : k \in T
  <2> HIDE DEF T
  <2>1. QED BY <1>9, <1>10, <1>11, Inductive, Zenon
<1>13. f[n] = g[n]
  BY <1>12
<1>14. QED BY <1>1, <1>2, <1>7, <1>13

\* An answer's content is a text.
LEMMA AnswerTyped == ASSUME NEW s \in Filter PROVE Told(s).content \in Text
<1>1. PICK b : b = TakeBlocks(s)
  OBVIOUS
<1>2. b.out \in Text /\ b.buf \in Text
  <2>1. b \in Filter
    BY <1>1, AllTaken
  <2>2. QED BY <2>1 DEF Filter
<1>3. b.out \o Before(b.buf) \in Text
  BY <1>2, BeforeIs, Joined, Zenon
<1>4. Told(s).content = b.out \o Before(b.buf)
  BY <1>1 DEF Told
<1>5. QED BY <1>3, <1>4

\* A filter that has all of a text before it.
Whole(text) == [buf |-> text, calls |-> <<>>, out |-> <<>>, panic |-> FALSE]

\* Such a filter, and its fields.
LEMMA WholeIs ==
  ASSUME NEW text \in Text
  PROVE  Whole(text) \in Filter /\ Whole(text).buf = text /\ Whole(text).out = <<>>
         /\ Whole(text).calls = <<>> /\ Whole(text).panic = FALSE
<1>1. <<>> \in Text /\ <<>> \in Seq(Text)
  BY NoText
<1>2. QED BY <1>1 DEF Whole, Filter

\* parse_tool_calls gives the answer of a filter that gets the text at once.
LEMMA ParseIs ==
  ASSUME NEW text \in Text
  PROVE  /\ ToolParse(text).content = Trim(Told(Whole(text)).content)
         /\ ToolParse(text).calls = Told(Whole(text)).calls
<1>1. PICK s : s = Whole(text)
  OBVIOUS
<1>2. s \in Filter /\ s.buf = text /\ Len(text) \in Nat
  <2>1. s \in Filter /\ s.buf = text
    BY <1>1, WholeIs
  <2>2. QED BY <2>1 DEF Text
<1>3. ParseOf(s) = [rest |-> text, content |-> <<>>, calls |-> <<>>]
  BY <1>1, WholeIs, Zenon DEF ParseOf
<1>4. PICK b : b = TakeBlocks(s)
  OBVIOUS
<1>5. Rounds(s, Len(text)) = b
  BY <1>2, <1>4 DEF TakeBlocks
<1>6. PICK e : e = ParseRounds([rest |-> text, content |-> <<>>, calls |-> <<>>], Len(text))
  OBVIOUS
<1>7. e = ParseOf(b)
  BY <1>2, <1>3, <1>5, <1>6, ParseRoundsAre, Zenon
<1>8. e.rest = b.buf /\ e.content = b.out /\ e.calls = b.calls
  BY <1>7 DEF ParseOf
<1>9. ToolParse(text)
        = [content |-> Trim(e.content \o IF Has(e.rest, ToolOpen) THEN Upto(e.rest, Find(e.rest, ToolOpen))
                                                                  ELSE e.rest),
           calls |-> e.calls]
  BY <1>6, Zenon DEF ToolParse
<1>10. ToolParse(text) = [content |-> Trim(b.out \o Before(b.buf)), calls |-> b.calls]
  BY <1>8, <1>9, Zenon DEF Before
<1>11. Told(s).content = b.out \o Before(b.buf) /\ Told(s).calls = b.calls
  BY <1>4 DEF Told
<1>12. QED BY <1>1, <1>10, <1>11

-----------------------------------------------------------------------------
\* Trimming: what is cut off in front, and what is left.
All(p, B) == \A i \in 1..Len(p) : p[i] \in B
Stops(r, B) == r # <<>> => r[1] \notin B

\* TrimStart cuts such a part off.
LEMMA TrimStartIs ==
  ASSUME NEW s \in Text, NEW B
  PROVE  \E p, r \in Text : s = p \o r /\ All(p, B) /\ Stops(r, B) /\ TrimStart(s, B) = r
<1> DEFINE N == {n \in Nat : n <= Len(s) /\ (n < Len(s) => s[n + 1] \notin B)}
<1>0. Len(s) \in Nat
  BY DEF Text
<1>1. Len(s) \in N /\ N \in SUBSET Nat /\ N # {}
  BY <1>0
<1>2. PICK n \in N : \A k \in N : n <= k
  <2> HIDE DEF N
  <2>1. QED BY <1>1, LeastNat, Zenon
<1>3. n \in 0..Len(s) /\ (n < Len(s) => s[n + 1] \notin B)
  BY <1>0
<1>4. ASSUME NEW i \in 1..n PROVE s[i] \in B
  <2>1. i - 1 \in Nat /\ i - 1 < Len(s) /\ ~(n <= i - 1) /\ (i - 1) + 1 = i
    BY <1>0, <1>3
  <2>2. i - 1 \notin N
    BY <1>2, <2>1
  <2>3. QED BY <2>1, <2>2
<1>5. PICK m \in 0..Len(s) : /\ \A i \in 1..m : s[i] \in B
                             /\ m < Len(s) => s[m + 1] \notin B
                             /\ TrimStart(s, B) = Drop(s, m)
  <2>1. PICK m : m = CHOOSE j \in 0..Len(s) : (\A i \in 1..j : s[i] \in B) /\ (j < Len(s) => s[j + 1] \notin B)
    OBVIOUS
  <2>2. m \in 0..Len(s) /\ (\A i \in 1..m : s[i] \in B) /\ (m < Len(s) => s[m + 1] \notin B)
    <3> HIDE DEF N
    <3>1. QED BY <1>3, <1>4, <2>1, Zenon
  <2>3. TrimStart(s, B) = Drop(s, m)
    BY <2>1, Zenon DEF TrimStart
  <2>4. QED BY <2>2, <2>3
<1>6. PICK p, r : p = Upto(s, m) /\ r = Drop(s, m)
  OBVIOUS
<1>7. /\ p \in Text /\ Len(p) = m /\ \A k \in 1..m : p[k] = s[k]
      /\ r \in Text /\ Len(r) = Len(s) - m /\ \A k \in 1..(Len(s) - m) : r[k] = s[m + k]
  BY <1>6, CutsAre
<1>8. s = p \o r
  BY <1>6, JoinCuts
<1>9. All(p, B)
  BY <1>5, <1>7 DEF All
<1>10. Stops(r, B)
  <2>1. SUFFICES ASSUME r # <<>> PROVE r[1] \notin B
    BY DEF Stops
  <2>2. Len(r) # 0
    BY <1>7, <2>1, NoText
  <2>3. m < Len(s) /\ 1 \in 1..(Len(s) - m)
    BY <1>0, <1>5, <1>7, <2>2
  <2>4. r[1] = s[m + 1]
    BY <1>7, <2>3
  <2>5. QED BY <1>5, <2>3, <2>4
<1>11. QED BY <1>5, <1>6, <1>7, <1>8, <1>9, <1>10

\* And there is only one such cut.
LEMMA TrimStartFinds ==
  ASSUME NEW p \in Text, NEW r \in Text, NEW B, All(p, B), Stops(r, B)
  PROVE  TrimStart(p \o r, B) = r
<1>1. PICK s : s = p \o r
  OBVIOUS
<1>2. /\ s \in Text /\ Len(s) = Len(p) + Len(r) /\ Len(p) \in Nat /\ Len(r) \in Nat
      /\ \A k \in 1..Len(p) : s[k] = p[k]
      /\ \A k \in 1..Len(r) : s[Len(p) + k] = r[k]
  BY <1>1, JoinIs
<1>3. PICK q, u \in Text : s = q \o u /\ All(q, B) /\ Stops(u, B) /\ TrimStart(s, B) = u
  BY <1>2, TrimStartIs
<1>4. /\ Len(s) = Len(q) + Len(u) /\ Len(q) \in Nat /\ Len(u) \in Nat
      /\ \A k \in 1..Len(q) : s[k] = q[k]
      /\ \A k \in 1..Len(u) : s[Len(q) + k] = u[k]
  BY <1>3, JoinIs
<1>5. ASSUME Len(q) < Len(p) PROVE FALSE
  <2>1. 1 \in 1..Len(u) /\ Len(q) + 1 \in 1..Len(p)
    BY <1>2, <1>4, <1>5
  <2>2. u[1] = p[Len(q) + 1]
    BY <1>2, <1>4, <2>1
  <2>3. u # <<>>
    BY <2>1, NoText
  <2>4. QED BY <1>3, <2>1, <2>2, <2>3 DEF All, Stops
<1>6. ASSUME Len(p) < Len(q) PROVE FALSE
  <2>1. 1 \in 1..Len(r) /\ Len(p) + 1 \in 1..Len(q)
    BY <1>2, <1>4, <1>6
  <2>2. r[1] = q[Len(p) + 1]
    BY <1>2, <1>4, <2>1
  <2>3. r # <<>>
    BY <2>1, NoText
  <2>4. QED BY <1>3, <2>1, <2>2, <2>3 DEF All, Stops
<1>7. Len(p) = Len(q)
  BY <1>2, <1>4, <1>5, <1>6
<1>8. Drop(q \o u, Len(q)) = u
  BY CutJoined
<1>9. Drop(p \o r, Len(p)) = r
  BY CutJoined
<1>10. QED BY <1>1, <1>3, <1>7, <1>8, <1>9

\* What is trimmed may come in two parts.
LEMMA AllJoined ==
  ASSUME NEW p \in Text, NEW q \in Text, NEW B, All(p, B), All(q, B)
  PROVE  All(p \o q, B)
<1>1. /\ Len(p \o q) = Len(p) + Len(q) /\ Len(p) \in Nat /\ Len(q) \in Nat
      /\ \A k \in 1..Len(p) : (p \o q)[k] = p[k]
      /\ \A k \in 1..Len(q) : (p \o q)[Len(p) + k] = q[k]
  BY JoinIs
<1>2. ASSUME NEW i \in 1..(Len(p) + Len(q)) PROVE (p \o q)[i] \in B
  <2>1. CASE i <= Len(p)
    BY <1>1, <2>1 DEF All
  <2>2. CASE ~(i <= Len(p))
    <3>1. PICK k \in 1..Len(q) : i = Len(p) + k
      <4>1. i - Len(p) \in 1..Len(q) /\ i = Len(p) + (i - Len(p))
        BY <1>1, <2>2
      <4>2. QED BY <4>1
    <3>2. QED BY <1>1, <3>1 DEF All
  <2>3. QED BY <2>1, <2>2
<1>3. QED BY <1>1, <1>2 DEF All

\* What is trimmed may stand in front.
LEMMA TrimsAway ==
  ASSUME NEW p \in Text, NEW u \in Text, NEW B, All(p, B)
  PROVE  TrimStart(p \o u, B) = TrimStart(u, B)
<1>1. PICK q, r \in Text : u = q \o r /\ All(q, B) /\ Stops(r, B) /\ TrimStart(u, B) = r
  BY TrimStartIs
<1>2. p \o u = (p \o q) \o r
  BY <1>1, Regrouped, Zenon
<1>3. p \o q \in Text /\ All(p \o q, B)
  BY <1>1, Joined, AllJoined
<1>4. TrimStart((p \o q) \o r, B) = r
  <2>1. PICK a : a = p \o q
    OBVIOUS
  <2>2. a \in Text /\ All(a, B)
    BY <1>3, <2>1, Zenon
  <2>3. TrimStart(a \o r, B) = r
    BY <1>1, <2>2, TrimStartFinds
  <2>4. QED BY <2>1, <2>3, Zenon
<1>5. QED BY <1>1, <1>2, <1>4, Zenon

\* Text behind what is left stays.
LEMMA TrimMore ==
  ASSUME NEW x \in Text, NEW z \in Text, NEW B, TrimStart(x, B) # <<>>
  PROVE  TrimStart(x \o z, B) = TrimStart(x, B) \o z
<1>1. PICK p, r \in Text : x = p \o r /\ All(p, B) /\ Stops(r, B) /\ TrimStart(x, B) = r
  BY TrimStartIs
<1>2. x \o z = p \o (r \o z)
  <2>1. (p \o r) \o z = p \o (r \o z)
    BY Regrouped, Zenon
  <2>2. QED BY <1>1, <2>1, Zenon
<1>3. r \o z \in Text /\ Stops(r \o z, B)
  <2>1. r # <<>> /\ Len(r) \in Nat /\ Len(r) # 0
    BY <1>1, NoText DEF Text
  <2>2. (r \o z)[1] = r[1]
    BY <2>1, JoinIs
  <2>3. QED BY <1>1, <2>1, <2>2, Joined DEF Stops
<1>4. TrimStart(p \o (r \o z), B) = r \o z
  BY <1>1, <1>3, TrimStartFinds, Zenon
<1>5. QED BY <1>1, <1>2, <1>4

-----------------------------------------------------------------------------
\* w is u with some newlines in front.
After(u, w) == \E nl \in Text : All(nl, {Newline}) /\ w = nl \o u

\* No tag starts in text that is trimmed.
Apart(p, w, t) == \A j \in 0..(Len(p) - 1) : ~At(p \o w, t, j)
\* Blanks are apart from every tag.
LEMMA BlankApart ==
  ASSUME NEW p \in Text, NEW w \in Text, NEW t \in Tags, All(p, Blank)
  PROVE  Apart(p, w, t)
<1>1. /\ Len(p) \in Nat /\ \A k \in 1..Len(p) : (p \o w)[k] = p[k]
  BY JoinIs
<1>2. Len(t) \in Nat /\ Len(t) >= 1 /\ \A i \in 1..Len(t) : t[i] \notin Blank
  BY TagsAre
<1>3. ASSUME NEW j \in 0..(Len(p) - 1), At(p \o w, t, j) PROVE FALSE
  <2>1. 1 \in 1..Len(t) /\ j + 1 \in 1..Len(p)
    BY <1>1, <1>2
  <2>2. (p \o w)[j + 1] = t[1]
    BY <1>3, <2>1 DEF At
  <2>3. QED BY <1>1, <1>2, <2>1, <2>2 DEF All
<1>4. QED BY <1>3 DEF Apart

\* Newlines are blank.
LEMMA NewlinesBlank == ASSUME NEW p, All(p, {Newline}) PROVE All(p, Blank)
BY ReplyStreamAssumption DEF All

\* Newlines in front change no trimmed text.
LEMMA AfterTrims ==
  ASSUME NEW u \in Text, NEW w, After(u, w)
  PROVE  Trim(w) = Trim(u)
<1>1. PICK nl \in Text : All(nl, {Newline}) /\ w = nl \o u
  BY DEF After
<1>2. TrimStart(nl \o u, Blank) = TrimStart(u, Blank)
  BY <1>1, NewlinesBlank, TrimsAway
<1>3. QED BY <1>1, <1>2 DEF Trim

\* Nor the calls in it, nor what its answer says when trimmed.
LEMMA AfterAnswers ==
  ASSUME NEW u \in Text, NEW w \in Text, After(u, w)
  PROVE  /\ Told(Whole(w)).calls = Told(Whole(u)).calls
         /\ Told(Whole(w)).open = Told(Whole(u)).open
         /\ Trim(Told(Whole(w)).content) = Trim(Told(Whole(u)).content)
<1>1. PICK nl \in Text : All(nl, {Newline}) /\ w = nl \o u
  BY DEF After
<1>2. NoneIn(nl, u)
  <2>1. Apart(nl, u, ToolOpen)
    BY <1>1, NewlinesBlank, BlankApart, FourTags
  <2>2. QED BY <2>1 DEF Apart, NoneIn
<1>3. PICK s, e : s = Whole(w) /\ e = Whole(u)
  OBVIOUS
<1>4. s \in Filter /\ s.buf = w /\ e \in Filter
  BY <1>3, WholeIs
<1>5. Told(Emit(s, nl, u)) = Told(s)
  BY <1>1, <1>2, <1>4, AnswerEmit
<1>6. Emit(s, nl, u) = Ahead(e, nl)
  <2>1. <<>> \o nl = nl /\ nl \o <<>> = nl
    BY NoText
  <2>2. PICK c, o, x : c = <<>> /\ o = <<>> /\ x = FALSE
    OBVIOUS
  <2>9. s = [buf |-> w, calls |-> c, out |-> o, panic |-> x]
    BY <1>3, <2>2, Zenon DEF Whole
  <2>10. e = [buf |-> u, calls |-> c, out |-> o, panic |-> x]
    BY <1>3, <2>2, Zenon DEF Whole
  <2>3. s.out = <<>> /\ e.out = <<>>
    BY <1>3, WholeIs, Zenon
  <2>4. Emit(s, nl, u) = [s EXCEPT !.out = nl, !.buf = u]
    <3>1. s.out \o nl = nl
      BY <2>1, <2>3, Zenon
    <3>2. Emit(s, nl, u) = [s EXCEPT !.out = s.out \o nl, !.buf = u]
      BY DEF Emit
    <3>3. QED BY ONLY <3>1, <3>2
  <2>5. Ahead(e, nl) = [e EXCEPT !.out = nl]
    BY <2>1, <2>3, Zenon DEF Ahead
  <2>6. [e EXCEPT !.out = nl] = [buf |-> u, calls |-> c, out |-> nl, panic |-> x]
    BY ONLY <2>10, FieldsAre
  <2>7. [s EXCEPT !.out = nl, !.buf = u] = [buf |-> u, calls |-> c, out |-> nl, panic |-> x]
    <3>1. PICK g : g = [s EXCEPT !.out = nl]
      OBVIOUS
    <3>2. g = [buf |-> w, calls |-> c, out |-> nl, panic |-> x]
      BY ONLY <2>9, <3>1
    <3>3. [g EXCEPT !.buf = u] = [buf |-> u, calls |-> c, out |-> nl, panic |-> x]
      BY ONLY <3>2
    <3>4. [s EXCEPT !.out = nl, !.buf = u] = [[s EXCEPT !.out = nl] EXCEPT !.buf = u]
      OBVIOUS
    <3>5. QED BY <3>1, <3>3, <3>4
  <2>8. QED BY <2>4, <2>5, <2>6, <2>7, Zenon
<1>7. /\ Told(s).content = nl \o Told(e).content
      /\ Told(s).calls = Told(e).calls /\ Told(s).open = Told(e).open
  <2>1. /\ Told(Ahead(e, nl)).content = nl \o Told(e).content
        /\ Told(Ahead(e, nl)).calls = Told(e).calls /\ Told(Ahead(e, nl)).open = Told(e).open
    BY <1>4, AnswerAhead
  <2>2. QED BY <1>5, <1>6, <2>1
<1>8. Told(e).content \in Text
  BY <1>4, AnswerTyped
<1>9. Trim(Told(s).content) = Trim(Told(e).content)
  <2>1. After(Told(e).content, Told(s).content)
    BY <1>1, <1>7 DEF After
  <2>2. QED BY <1>8, <2>1, AfterTrims
<1>10. QED BY <1>3, <1>7, <1>9

-----------------------------------------------------------------------------
\* The longest prefix of complete characters.
LEMMA ValidUpToIs ==
  ASSUME NEW s \in Text
  PROVE  /\ ValidUpTo(s) \in 0..Len(s) /\ Valid(Upto(s, ValidUpTo(s)))
         /\ \A k \in (ValidUpTo(s) + 1)..Len(s) : ~Valid(Upto(s, k))
<1> DEFINE N == {m \in Nat : m <= Len(s) /\ Valid(Upto(s, Len(s) - m))}
<1>0. Len(s) \in Nat
  BY DEF Text
<1>1. Len(s) \in N
  <2>1. Len(s) - Len(s) = 0 /\ 0 \in 0..Len(s)
    BY <1>0
  <2>2. Len(Upto(s, 0)) = 0
    BY <1>0, CutsAre
  <2>3. Valid(Upto(s, 0))
    BY <2>2 DEF Valid
  <2>4. QED BY <1>0, <2>1, <2>3
<1>2. N \in SUBSET Nat /\ N # {}
  BY <1>1
<1>3. PICK m \in N : \A k \in N : m <= k
  <2> HIDE DEF N
  <2>1. QED BY <1>2, LeastNat, Zenon
<1>4. PICK n : n = Len(s) - m
  OBVIOUS
<1>5. n \in 0..Len(s) /\ Valid(Upto(s, n))
  BY <1>0, <1>3, <1>4
<1>6. ASSUME NEW k \in (n + 1)..Len(s), Valid(Upto(s, k)) PROVE FALSE
  <2>1. Len(s) - k \in Nat /\ Len(s) - k <= Len(s) /\ Len(s) - (Len(s) - k) = k /\ ~(m <= Len(s) - k)
    BY <1>0, <1>3, <1>4, <1>5, <1>6
  <2>2. Len(s) - k \in N
    BY <1>6, <2>1
  <2>3. QED BY <1>3, <2>1, <2>2
<1>7. QED
  <2> HIDE DEF N
  <2>1. \E j \in 0..Len(s) : Valid(Upto(s, j)) /\ \A k \in (j + 1)..Len(s) : ~Valid(Upto(s, k))
    BY <1>5, <1>6
  <2>2. QED BY <2>1, Zenon DEF ValidUpTo

\* Complete characters are converted as they are.
LEMMA LossyIs ==
  ASSUME NEW s \in Text, Valid(s)
  PROVE  Lossy(s) = s
<1>1. s = [i \in 1..Len(s) |-> s[i]]
  BY DEF Text
<1>2. \A i \in 1..Len(s) : Complete(s, i)
  BY DEF Valid
<1>3. Lossy(s) = [i \in 1..Len(s) |-> s[i]]
  BY <1>2 DEF Lossy
<1>4. QED BY <1>1, <1>3

\* Complete characters behind complete characters are complete.
LEMMA ValidJoined ==
  ASSUME NEW x \in Text, NEW b \in Text, Valid(x), Valid(b)
  PROVE  Valid(x \o b)
<1>1. PICK s : s = x \o b
  OBVIOUS
<1>2. /\ Len(s) = Len(x) + Len(b) /\ Len(x) \in Nat /\ Len(b) \in Nat
      /\ \A k \in 1..Len(x) : s[k] = x[k]
      /\ \A k \in 1..Len(b) : s[Len(x) + k] = b[k]
  BY <1>1, JoinIs
<1>3. ASSUME NEW i \in 1..Len(x) PROVE Complete(s, i)
  <2>1. Complete(x, i)
    BY <1>3 DEF Valid
  <2>2. s[i] = x[i] /\ (i < Len(x) => s[i + 1] = x[i + 1]) /\ (i > 1 => s[i - 1] = x[i - 1])
    <3>1. s[i] = x[i]
      BY <1>2, <1>3
    <3>2. ASSUME i < Len(x) PROVE s[i + 1] = x[i + 1]
      <4>1. i + 1 \in 1..Len(x)
        BY <1>2, <1>3, <3>2
      <4> QED BY <1>2, <4>1
    <3>3. ASSUME i > 1 PROVE s[i - 1] = x[i - 1]
      <4>1. i - 1 \in 1..Len(x)
        BY <1>2, <1>3, <3>3
      <4> QED BY <1>2, <4>1
    <3> QED BY <3>1, <3>2, <3>3
  <2>3. i < Len(x) => i < Len(s)
    BY <1>2, <1>3
  <2>4. QED BY <2>1, <2>2, <2>3 DEF Complete
<1>4. ASSUME NEW k \in 1..Len(b) PROVE Complete(s, Len(x) + k)
  <2>1. Complete(b, k)
    BY <1>4 DEF Valid
  <2>2. /\ s[Len(x) + k] = b[k] /\ (k < Len(b) => s[(Len(x) + k) + 1] = b[k + 1])
        /\ (k > 1 => s[(Len(x) + k) - 1] = b[k - 1])
    <3>1. k < Len(b) => k + 1 \in 1..Len(b) /\ (Len(x) + k) + 1 = Len(x) + (k + 1)
      BY <1>2, <1>4
    <3>2. k > 1 => k - 1 \in 1..Len(b) /\ (Len(x) + k) - 1 = Len(x) + (k - 1)
      BY <1>2, <1>4
    <3>3. s[Len(x) + k] = b[k]
      BY <1>2, <1>4
    <3>4. k < Len(b) => s[(Len(x) + k) + 1] = b[k + 1]
      BY <1>2, <3>1
    <3>5. k > 1 => s[(Len(x) + k) - 1] = b[k - 1]
      BY <1>2, <3>2
    <3>6. QED BY <3>3, <3>4, <3>5
  <2>3. (k < Len(b) => Len(x) + k < Len(s)) /\ (k > 1 => Len(x) + k > 1)
    BY <1>2
  <2>4. QED BY <2>1, <2>2, <2>3 DEF Complete
<1>5. ASSUME NEW i \in 1..Len(s) PROVE Complete(s, i)
  <2>1. CASE i <= Len(x)
    BY <1>2, <1>3, <2>1
  <2>2. CASE ~(i <= Len(x))
    <3>1. i - Len(x) \in 1..Len(b) /\ Len(x) + (i - Len(x)) = i
      BY <1>2, <2>2
    <3>2. Complete(s, Len(x) + (i - Len(x)))
      BY <1>4, <3>1
    <3>3. QED BY <3>1, <3>2
  <2>3. QED BY <2>1, <2>2
<1>6. QED BY <1>1, <1>5 DEF Valid

\* What follows complete characters in a valid text is valid.
LEMMA ValidTail ==
  ASSUME NEW x \in Text, NEW b \in Text, Valid(x), Valid(x \o b)
  PROVE  Valid(b)
<1>1. PICK s : s = x \o b
  OBVIOUS
<1>2. /\ Len(s) = Len(x) + Len(b) /\ Len(x) \in Nat /\ Len(b) \in Nat
      /\ \A k \in 1..Len(x) : s[k] = x[k]
      /\ \A k \in 1..Len(b) : s[Len(x) + k] = b[k]
  BY <1>1, JoinIs
<1>3. \A i \in 1..Len(s) : Complete(s, i)
  BY <1>1 DEF Valid
<1>4. ASSUME NEW k \in 1..Len(b) PROVE Complete(b, k)
  <2>1. PICK i \in 1..Len(s) : i = Len(x) + k
    BY <1>2
  <2>2. Complete(s, i) /\ s[i] = b[k]
    BY <1>2, <1>3, <2>1
  <2>3. ASSUME b[k] = Lead PROVE k < Len(b) /\ b[k + 1] = Cont
    <3>1. i < Len(s) /\ s[i + 1] = Cont
      BY <2>2, <2>3 DEF Complete
    <3>2. k + 1 \in 1..Len(b) /\ i + 1 = Len(x) + (k + 1)
      BY <1>2, <2>1, <3>1
    <3>3. s[i + 1] = b[k + 1]
      BY <1>2, <3>2
    <3>4. QED BY <1>2, <3>1, <3>2, <3>3
  <2>4. ASSUME b[k] = Cont PROVE k > 1 /\ b[k - 1] = Lead
    <3>1. i > 1 /\ s[i - 1] = Lead
      BY <2>2, <2>4 DEF Complete
    <3>2. CASE k = 1
      <4>1. Len(x) \in 1..Len(x) /\ i - 1 = Len(x)
        BY <1>2, <2>1, <3>1, <3>2
      <4>2. x[Len(x)] = Lead /\ Complete(x, Len(x))
        BY <1>2, <3>1, <4>1 DEF Valid
      <4>3. QED BY <1>2, <4>2 DEF Complete
    <3>3. CASE k # 1
      <4>1. k - 1 \in 1..Len(b) /\ i - 1 = Len(x) + (k - 1) /\ k > 1
        BY <1>2, <2>1, <3>3
      <4>2. s[i - 1] = b[k - 1]
        BY <1>2, <4>1
      <4>3. QED BY <3>1, <4>1, <4>2
    <3>4. QED BY <3>2, <3>3
  <2>5. QED BY <2>3, <2>4 DEF Complete
<1>5. QED BY <1>4 DEF Valid

\* Only the start of a character is kept back: it is not valid itself.
LEMMA KeptIs ==
  ASSUME NEW s \in Text, Valid(Drop(s, ValidUpTo(s)))
  PROVE  Drop(s, ValidUpTo(s)) = <<>>
<1>1. PICK n : n = ValidUpTo(s)
  OBVIOUS
<1>2. n \in 0..Len(s) /\ Valid(Upto(s, n)) /\ \A k \in (n + 1)..Len(s) : ~Valid(Upto(s, k))
  BY <1>1, ValidUpToIs
<1>3. PICK p, r : p = Upto(s, n) /\ r = Drop(s, n)
  OBVIOUS
<1>4. p \in Text /\ r \in Text /\ Len(r) = Len(s) - n /\ s = p \o r /\ Len(s) \in Nat
  <2>1. p \in Text /\ r \in Text /\ Len(r) = Len(s) - n
    BY <1>2, <1>3, CutsAre
  <2>2. s = p \o r
    BY <1>2, <1>3, JoinCuts
  <2>3. Len(s) \in Nat
    BY DEF Text
  <2>4. QED BY <2>1, <2>2, <2>3
<1>5. Valid(s)
  <2>1. Valid(p) /\ Valid(r)
    BY <1>1, <1>2, <1>3
  <2>2. QED BY <1>4, <2>1, ValidJoined
<1>6. Upto(s, Len(s)) = s
  <2>1. s \o <<>> = s /\ <<>> \in Text
    BY NoText
  <2>2. Upto(s \o <<>>, Len(s)) = s
    BY <2>1, CutJoined, Zenon
  <2>3. QED BY <2>1, <2>2, Zenon
<1>7. n = Len(s)
  <2>1. ~(Len(s) \in (n + 1)..Len(s))
    BY <1>2, <1>5, <1>6
  <2>2. QED BY <1>2, <1>4, <2>1
<1>8. QED
  <2>1. Len(r) = 0
    BY <1>4, <1>7
  <2>2. r = <<>>
    BY <1>4, <2>1, NoText
  <2>3. QED BY <1>1, <1>3, <2>2

-----------------------------------------------------------------------------
\* How ThinkSplitter cuts a reply x, for a server set up as u: T0 is what follows
\* the blanks in front; it may still become an opening tag, it opens a block, or
\* it never will.  Inside is what follows the opening tag.
T0(x) == TrimStart(x, Blank)
MayOpen(x) == Len(T0(x)) < Len(Bare) /\ Starts(Bare, T0(x))
HasOpened(x) == Starts(T0(x), Bare) /\ Len(ThinkOpen) <= Len(T0(x))
Never(x) == ~MayOpen(x) /\ ~Starts(T0(x), Bare)
Opens(u, x) == u.inThink \/ HasOpened(x)
Inside(u, x) == IF u.inThink THEN x ELSE Drop(T0(x), Len(ThinkOpen))

\* Starting with a text, byte by byte.
LEMMA StartsIs ==
  ASSUME NEW s \in Text, NEW t \in Text
  PROVE  Starts(s, t) <=> Len(t) <= Len(s) /\ \A k \in 1..Len(t) : s[k] = t[k]
<1>0. Len(s) \in Nat /\ Len(t) \in Nat
  BY DEF Text
<1>1. ASSUME Len(t) <= Len(s) PROVE Upto(s, Len(t)) = t <=> \A k \in 1..Len(t) : s[k] = t[k]
  <2>1. PICK p : p = Upto(s, Len(t))
    OBVIOUS
  <2>2. p \in Text /\ Len(p) = Len(t) /\ \A k \in 1..Len(t) : p[k] = s[k]
    <3>1. Len(t) \in 0..Len(s)
      BY <1>0, <1>1
    <3>2. QED BY <2>1, <3>1, CutsAre
  <2>3. (\A k \in 1..Len(t) : s[k] = t[k]) => p = t
    BY <2>2, SameText
  <2>4. QED BY <2>1, <2>2, <2>3
<1>2. QED BY <1>1 DEF Starts

\* The tag without its last byte.
LEMMA BareIs ==
  /\ Bare \in Text /\ Len(Bare) \in Nat /\ Len(Bare) >= 1 /\ Len(ThinkOpen) = Len(Bare) + 1
  /\ ThinkOpen \in Text /\ ThinkClose \in Text /\ Len(ThinkClose) \in Nat /\ Len(ThinkClose) >= 1
<1>1. /\ ThinkOpen \in Text /\ Len(ThinkOpen) \in Nat /\ Len(ThinkOpen) >= 1
      /\ ThinkClose \in Text /\ Len(ThinkClose) \in Nat /\ Len(ThinkClose) >= 1
  BY FourTags, TagsAre
<1>2. Len(ThinkOpen) - 1 \in 0..Len(ThinkOpen)
  BY <1>1
<1>3. Bare \in Text /\ Len(Bare) = Len(ThinkOpen) - 1
  BY <1>1, <1>2, CutsAre DEF Bare
<1>4. Bare # <<>>
  BY TagsAreApart, Zenon
<1>5. Len(Bare) # 0
  BY <1>3, <1>4, NoText
<1>6. QED BY <1>1, <1>3, <1>5

\* What is trimmed in front is a text.
LEMMA T0Is == ASSUME NEW x \in Text PROVE T0(x) \in Text /\ Len(T0(x)) \in Nat
BY TrimStartIs DEF T0, Text

\* An open block stays open, and what follows goes into it.
LEMMA OpensMore ==
  ASSUME NEW u, NEW x \in Text, NEW z \in Text, Opens(u, x)
  PROVE  Opens(u, x \o z) /\ Inside(u, x \o z) = Inside(u, x) \o z /\ Inside(u, x) \in Text
<1>1. CASE u.inThink
  BY <1>1 DEF Opens, Inside
<1>2. CASE ~u.inThink
  <2>1. PICK t : t = T0(x)
    OBVIOUS
  <2>2. t \in Text /\ Len(t) \in Nat /\ Starts(t, Bare) /\ Len(ThinkOpen) <= Len(t)
    BY <1>2, <2>1, T0Is DEF Opens, HasOpened
  <2>3. t # <<>>
    BY <2>2, BareIs, NoText
  <2>4. T0(x \o z) = t \o z
    BY <2>1, <2>3, TrimMore DEF T0
  <2>5. /\ Len(t \o z) = Len(t) + Len(z) /\ Len(z) \in Nat /\ t \o z \in Text
        /\ \A k \in 1..Len(t) : (t \o z)[k] = t[k]
    BY <2>2, JoinIs
  <2>6. Starts(t \o z, Bare)
    <3>1. Len(Bare) <= Len(t) /\ \A k \in 1..Len(Bare) : t[k] = Bare[k]
      BY <2>2, BareIs, StartsIs, Zenon
    <3>2. Len(Bare) <= Len(t \o z)
      BY <2>2, <2>5, <3>1, BareIs
    <3>3. \A k \in 1..Len(Bare) : (t \o z)[k] = Bare[k]
      BY <2>2, <2>5, <3>1, BareIs
    <3>4. QED BY <2>5, <3>2, <3>3, BareIs, StartsIs, Zenon
  <2>7. Len(ThinkOpen) <= Len(t \o z)
    BY <2>2, <2>5, BareIs
  <2>8. Len(ThinkOpen) \in 0..Len(t)
    BY <2>2, BareIs
  <2>9. Drop(t \o z, Len(ThinkOpen)) = Drop(t, Len(ThinkOpen)) \o z /\ Drop(t, Len(ThinkOpen)) \in Text
    BY <2>2, <2>8, CutFirst, CutsAre
  <2>10. QED BY <1>2, <2>1, <2>4, <2>6, <2>7, <2>9 DEF Opens, HasOpened, Inside
<1>3. QED BY <1>1, <1>2

\* A reply that does not open a block never does.
LEMMA NeverMore ==
  ASSUME NEW x \in Text, NEW z \in Text, Never(x)
  PROVE  Never(x \o z)
<1>1. PICK t : t = T0(x)
  OBVIOUS
<1>2. t \in Text /\ Len(t) \in Nat /\ ~Starts(t, Bare) /\ ~(Len(t) < Len(Bare) /\ Starts(Bare, t))
  BY <1>1, T0Is DEF Never, MayOpen
<1>3. t # <<>>
  <2>1. SUFFICES ASSUME Len(t) = 0 PROVE FALSE
    BY <1>2, NoText
  <2>2. Starts(Bare, t)
    BY <1>2, <2>1, BareIs, StartsIs
  <2>3. QED BY <1>2, <2>1, <2>2, BareIs
<1>4. T0(x \o z) = t \o z
  BY <1>1, <1>3, TrimMore DEF T0
<1>5. PICK w : w = t \o z
  OBVIOUS
<1>6. w \in Text /\ Len(w) = Len(t) + Len(z) /\ Len(z) \in Nat /\ \A k \in 1..Len(t) : w[k] = t[k]
  BY <1>2, <1>5, JoinIs
<1>7. ASSUME Starts(w, Bare) PROVE FALSE
  <2>1. Len(Bare) <= Len(w) /\ \A k \in 1..Len(Bare) : w[k] = Bare[k]
    BY <1>6, <1>7, BareIs, StartsIs, Zenon
  <2>2. CASE Len(Bare) <= Len(t)
    <3>1. \A k \in 1..Len(Bare) : t[k] = Bare[k]
      BY <1>2, <1>6, <2>1, <2>2, BareIs
    <3>2. QED BY <1>2, <2>2, <3>1, BareIs, StartsIs
  <2>3. CASE ~(Len(Bare) <= Len(t))
    <3>1. Len(t) < Len(Bare) /\ \A k \in 1..Len(t) : Bare[k] = t[k]
      BY <1>2, <1>6, <2>1, <2>3, BareIs
    <3>2. Starts(Bare, t)
      BY <1>2, <3>1, BareIs, StartsIs
    <3>3. QED BY <1>2, <3>1, <3>2
  <2>4. QED BY <2>2, <2>3
<1>8. ASSUME Len(w) < Len(Bare), Starts(Bare, w) PROVE FALSE
  <2>1. \A k \in 1..Len(w) : Bare[k] = w[k]
    BY <1>6, <1>8, BareIs, StartsIs, Zenon
  <2>2. Len(t) < Len(Bare) /\ \A k \in 1..Len(t) : Bare[k] = t[k]
    BY <1>2, <1>6, <1>8, <2>1, BareIs
  <2>3. Starts(Bare, t)
    BY <1>2, <2>2, BareIs, StartsIs
  <2>4. QED BY <1>2, <2>2, <2>3
<1>9. QED BY <1>4, <1>5, <1>7, <1>8 DEF Never, MayOpen

\* The three exclude one another.
LEMMA OnlyOne ==
  ASSUME NEW x \in Text
  PROVE  ~(MayOpen(x) /\ HasOpened(x)) /\ ~(MayOpen(x) /\ Never(x)) /\ ~(HasOpened(x) /\ Never(x))
<1>1. Len(T0(x)) \in Nat
  BY T0Is
<1>2. ~(MayOpen(x) /\ HasOpened(x))
  BY <1>1, BareIs DEF MayOpen, HasOpened
<1>3. QED BY <1>2 DEF HasOpened, Never

-----------------------------------------------------------------------------
\* The splitter in the middle of a feed: what it keeps, its phase, what it gave,
\* and that it did not panic.
Calm == FALSE
Splitter(b, ph, r, c) == [buf |-> b, phase |-> ph, reason |-> r, content |-> c, panic |-> Calm]

\* Its fields.
LEMMA SplitterIs ==
  ASSUME NEW s, NEW b, NEW ph, NEW r, NEW c, s = Splitter(b, ph, r, c)
  PROVE  s.buf = b /\ s.phase = ph /\ s.reason = r /\ s.content = c /\ s.panic = Calm
BY DEF Splitter

\* A panic shows.
LEMMA PanicIs ==
  ASSUME NEW s, NEW b, NEW ph, NEW r, NEW c, s = Splitter(b, ph, r, c)
  PROVE  [s EXCEPT !.panic = TRUE].panic = TRUE
BY DEF Splitter

\* Phase 0 panics, waits, gives up, or finds the opening tag and skips newlines
\* behind it.
Decides(w, f) ==
  \/ f.panic = TRUE
  \/ MayOpen(w) /\ f = Splitter(w, 0, <<>>, <<>>)
  \/ Never(w) /\ f = Splitter(w, 2, <<>>, <<>>)
  \/ /\ HasOpened(w)
     /\ \E nl, y \in Text : /\ Drop(T0(w), Len(ThinkOpen)) = nl \o y /\ All(nl, {Newline})
                            /\ f = Splitter(y, 1, <<>>, <<>>)
\* So does Undecided.
LEMMA UndecidedIs ==
  ASSUME NEW w \in Text, NEW f, f = Undecided(Splitter(w, 0, <<>>, <<>>))
  PROVE  Decides(w, f)
<1>0. SUFFICES \/ f.panic = TRUE
               \/ MayOpen(w) /\ f = Splitter(w, 0, <<>>, <<>>)
               \/ Never(w) /\ f = Splitter(w, 2, <<>>, <<>>)
               \/ /\ HasOpened(w)
                  /\ \E nl, y \in Text : /\ Drop(T0(w), Len(ThinkOpen)) = nl \o y /\ All(nl, {Newline})
                                         /\ f = Splitter(y, 1, <<>>, <<>>)
  BY DEF Decides
<1>1. PICK s, e : s = Splitter(w, 0, e, e) /\ e = <<>>
  OBVIOUS
<1>2. s.buf = w /\ s.phase = 0 /\ f = Undecided(s)
  BY <1>1, SplitterIs
<1>3. PICK t : t = T0(w)
  OBVIOUS
<1>4. t \in Text /\ Len(t) \in Nat /\ TrimStart(w, Blank) = t
  BY <1>3, T0Is DEF T0
<1>5. CASE MayOpen(w)
  <2>1. Undecided(s) = s
    BY <1>2, <1>5, Zenon DEF Undecided, MayOpen, T0
  <2>2. QED BY <1>1, <1>2, <1>5, <2>1, Zenon
<1>6. CASE ~MayOpen(w) /\ ~Starts(t, Bare)
  <2>1. Undecided(s) = [s EXCEPT !.phase = 2]
    <3>1. ~(s.phase # 0 \/ (Len(t) < Len(Bare) /\ Starts(Bare, t)))
      BY <1>2, <1>3, <1>6 DEF MayOpen
    <3>2. QED BY <1>2, <1>4, <1>6, <3>1, Zenon DEF Undecided
  <2>2. Undecided(s) = Splitter(w, 2, e, e)
    <3>1. [s EXCEPT !.phase = 2] = Splitter(w, 2, e, e)
      BY ONLY <1>1 DEF Splitter
    <3>2. QED BY <2>1, <3>1, Zenon
  <2>3. Never(w)
    BY <1>3, <1>6 DEF Never
  <2>4. QED BY <1>1, <1>2, <2>2, <2>3, Zenon
<1>7. CASE ~MayOpen(w) /\ Starts(t, Bare)
  <2>0. ~(s.phase # 0 \/ (Len(t) < Len(Bare) /\ Starts(Bare, t)))
    BY <1>2, <1>3, <1>7 DEF MayOpen
  <2>1. CASE ~Boundary(t, Len(ThinkOpen))
    <3>1. Undecided(s) = [s EXCEPT !.panic = TRUE]
      BY <1>2, <1>4, <1>7, <2>0, <2>1, Zenon DEF Undecided
    <3>2. f.panic = TRUE
      BY <1>1, <1>2, <3>1, PanicIs
    <3>3. QED BY <3>2
  <2>2. CASE Boundary(t, Len(ThinkOpen))
    <3>1. PICK v : v = Drop(t, Len(ThinkOpen))
      OBVIOUS
    <3>2. Len(ThinkOpen) \in 0..Len(t) /\ v \in Text
      BY <1>4, <2>2, <3>1, CutsAre DEF Boundary
    <3>3. PICK nl, y \in Text : v = nl \o y /\ All(nl, {Newline}) /\ TrimStart(v, {Newline}) = y
      BY <3>2, TrimStartIs
    <3>4. Undecided(s) = [s EXCEPT !.buf = TrimStart(v, {Newline}), !.phase = 1]
      BY <1>2, <1>4, <1>7, <2>0, <2>2, <3>1, Zenon DEF Undecided
    <3>5. Undecided(s) = Splitter(y, 1, e, e)
      <4>1. PICK g : g = [s EXCEPT !.buf = y]
        OBVIOUS
      <4>2. g = Splitter(y, 0, e, e)
        BY ONLY <1>1, <4>1 DEF Splitter
      <4>3. [g EXCEPT !.phase = 1] = Splitter(y, 1, e, e)
        BY ONLY <4>2 DEF Splitter
      <4>4. [s EXCEPT !.buf = y, !.phase = 1] = [[s EXCEPT !.buf = y] EXCEPT !.phase = 1]
        OBVIOUS
      <4>5. Undecided(s) = [s EXCEPT !.buf = y, !.phase = 1]
        BY ONLY <3>3, <3>4
      <4>6. QED BY <4>1, <4>3, <4>4, <4>5, Zenon
    <3>6. HasOpened(w)
      BY <1>3, <1>4, <1>7, <3>2, BareIs DEF HasOpened
    <3>7. QED BY <1>1, <1>2, <1>3, <3>1, <3>3, <3>5, <3>6, Zenon
  <2>3. QED BY <2>1, <2>2
<1>8. QED BY <1>5, <1>6, <1>7

\* Phase 1 panics, finds the closing tag, or gives what is no part of one.
Gives(w, f) ==
  \/ f.panic = TRUE
  \/ \E a, nl, y \in Text : /\ w = a \o (ThinkClose \o (nl \o y)) /\ First(w, ThinkClose, Len(a))
                            /\ All(nl, {Newline}) /\ f = Splitter(y, 2, a, <<>>)
  \/ \E a, y \in Text : /\ w = a \o y /\ Len(y) < Len(ThinkClose)
                        /\ \A z \in Text : Apart(a, y \o z, ThinkClose)
                        /\ f = Splitter(y, 1, a, <<>>)
\* So does Reasoning.
LEMMA ReasoningIs ==
  ASSUME NEW w \in Text, NEW f, f = Reasoning(Splitter(w, 1, <<>>, <<>>))
  PROVE  Gives(w, f)
<1>0. SUFFICES \/ f.panic = TRUE
               \/ \E a, nl, y \in Text : /\ w = a \o (ThinkClose \o (nl \o y))
                                                /\ First(w, ThinkClose, Len(a))
                                                /\ All(nl, {Newline}) /\ f = Splitter(y, 2, a, <<>>)
               \/ \E a, y \in Text : /\ w = a \o y /\ Len(y) < Len(ThinkClose)
                                            /\ \A z \in Text : Apart(a, y \o z, ThinkClose)
                                            /\ f = Splitter(y, 1, a, <<>>)
  BY DEF Gives
<1>1. PICK s, e : s = Splitter(w, 1, e, e) /\ e = <<>>
  OBVIOUS
<1>2. s.buf = w /\ s.phase = 1 /\ s.panic = Calm /\ f = Reasoning(s)
  BY <1>1, SplitterIs
<1>3. ThinkClose \in Text /\ Len(ThinkClose) \in Nat /\ Len(ThinkClose) >= 1 /\ Len(w) \in Nat
  BY BareIs DEF Text
<1>4. ~(s.phase # 1 \/ s.panic)
  BY <1>2 DEF Calm
<1>5. CASE Has(w, ThinkClose)
  <2>1. PICK i : i = Find(w, ThinkClose)
    OBVIOUS
  <2>2. First(w, ThinkClose, i) /\ i \in Nat
    BY <1>3, <1>5, <2>1, FindIs
  <2>3. PICK a, v \in Text : Len(a) = i /\ w = a \o (ThinkClose \o v)
    BY <1>3, <2>2, FoundCut DEF First
  <2>4. PICK c : c = ThinkClose \o v
    OBVIOUS
  <2>5. c \in Text /\ Len(ThinkClose) \in 0..Len(c) /\ Drop(c, Len(ThinkClose)) = v
    BY <1>3, <2>4, Joined, CutJoined, Zenon
  <2>6. Upto(a \o c, Len(a)) = a
    BY <2>5, CutJoined, Zenon
  <2>7. Drop(a \o c, Len(a) + Len(ThinkClose)) = Drop(c, Len(ThinkClose))
    BY <2>5, CutSecond
  <2>8. w = a \o c
    BY <2>3, <2>4, Zenon
  <2>9. Upto(w, i) = a /\ Drop(w, i + Len(ThinkClose)) = v
    BY <2>3, <2>5, <2>6, <2>7, <2>8
  <2>10. PICK nl, y \in Text : v = nl \o y /\ All(nl, {Newline}) /\ TrimStart(v, {Newline}) = y
    BY TrimStartIs
  <2>11. Reasoning(s) = [s EXCEPT !.reason = Upto(w, i), !.buf = TrimStart(Drop(w, i + Len(ThinkClose)), {Newline}),
                                  !.phase = 2]
    BY <1>2, <1>4, <1>5, <2>1, Zenon DEF Reasoning
  <2>12. Reasoning(s) = [s EXCEPT !.reason = a, !.buf = y, !.phase = 2]
    BY ONLY <2>9, <2>10, <2>11
  <2>13. Reasoning(s) = Splitter(y, 2, a, e)
    <3>1. PICK g : g = [s EXCEPT !.reason = a]
      OBVIOUS
    <3>2. g = Splitter(w, 1, a, e)
      BY ONLY <1>1, <3>1 DEF Splitter
    <3>3. PICK h : h = [g EXCEPT !.buf = y]
      OBVIOUS
    <3>4. h = Splitter(y, 1, a, e)
      BY ONLY <3>2, <3>3 DEF Splitter
    <3>5. [h EXCEPT !.phase = 2] = Splitter(y, 2, a, e)
      BY ONLY <3>4 DEF Splitter
    <3>6. [s EXCEPT !.reason = a, !.buf = y, !.phase = 2]
            = [[[s EXCEPT !.reason = a] EXCEPT !.buf = y] EXCEPT !.phase = 2]
      OBVIOUS
    <3>7. QED BY <2>12, <3>1, <3>3, <3>5, <3>6, Zenon
  <2>14. w = a \o (ThinkClose \o (nl \o y)) /\ First(w, ThinkClose, Len(a))
    BY <2>2, <2>3, <2>10, Zenon
  <2>15. QED BY <1>1, <1>2, <2>10, <2>13, <2>14, Zenon
<1>6. CASE ~Has(w, ThinkClose) /\ Len(w) <= ThinkHeld
  <2>1. Reasoning(s) = s
    BY <1>2, <1>4, <1>6, Zenon DEF Reasoning
  <2>2. e \in Text /\ w = e \o w /\ Len(e) = 0
    BY <1>1, NoText
  <2>3. Len(w) < Len(ThinkClose)
    BY <1>3, <1>6 DEF ThinkHeld
  <2>4. \A z \in Text : Apart(e, w \o z, ThinkClose)
    BY <2>2 DEF Apart
  <2>5. f = Splitter(w, 1, e, <<>>)
    BY <1>1, <1>2, <2>1, Zenon
  <2>6. QED BY <2>2, <2>3, <2>4, <2>5, Zenon
<1>7. CASE ~Has(w, ThinkClose) /\ ~(Len(w) <= ThinkHeld)
  <2>1. PICK cut : cut = Len(w) - ThinkHeld
    OBVIOUS
  <2>2. cut \in 0..Len(w) /\ Len(w) - cut = Len(ThinkClose) - 1
    BY <1>3, <1>7, <2>1 DEF ThinkHeld
  <2>3. PICK a, y : a = Upto(w, cut) /\ y = Drop(w, cut)
    OBVIOUS
  <2>4. a \in Text /\ Len(a) = cut /\ y \in Text /\ Len(y) = Len(w) - cut
    BY <2>2, <2>3, CutsAre, Zenon
  <2>5. w = a \o y
    BY <2>2, <2>3, JoinCuts, Zenon
  <2>6. CASE ~Boundary(w, cut)
    <3>1. Reasoning(s) = [s EXCEPT !.panic = TRUE]
      BY <1>2, <1>4, <1>7, <2>1, <2>6, Zenon DEF Reasoning
    <3>2. [s EXCEPT !.panic = TRUE].panic = TRUE
      BY <1>1, PanicIs, Zenon
    <3>3. QED BY <1>2, <3>1, <3>2
  <2>7. CASE Boundary(w, cut)
    <3>1. Reasoning(s) = [s EXCEPT !.reason = Upto(w, cut), !.buf = Drop(w, cut)]
      BY <1>2, <1>4, <1>7, <2>1, <2>7, Zenon DEF Reasoning
    <3>2. Reasoning(s) = [s EXCEPT !.reason = a, !.buf = y]
      BY ONLY <2>3, <3>1
    <3>3. Reasoning(s) = Splitter(y, 1, a, e)
      <4>1. PICK g : g = [s EXCEPT !.reason = a]
        OBVIOUS
      <4>2. g = Splitter(w, 1, a, e)
        BY ONLY <1>1, <4>1 DEF Splitter
      <4>3. [g EXCEPT !.buf = y] = Splitter(y, 1, a, e)
        BY ONLY <4>2 DEF Splitter
      <4>4. [s EXCEPT !.reason = a, !.buf = y] = [[s EXCEPT !.reason = a] EXCEPT !.buf = y]
        OBVIOUS
      <4>5. QED BY <3>2, <4>1, <4>3, <4>4, Zenon
    <3>4. ASSUME NEW z \in Text, NEW j \in 0..(Len(a) - 1), At(a \o (y \o z), ThinkClose, j)
          PROVE  FALSE
      <4>1. (a \o y) \o z = a \o (y \o z)
        BY <2>4, Regrouped, Zenon
      <4>2. At(w \o z, ThinkClose, j)
        BY <2>5, <3>4, <4>1, Zenon
      <4>3. j + Len(ThinkClose) <= Len(w) /\ j \in Nat
        BY <1>3, <2>2, <2>4
      <4>4. At(w, ThinkClose, j)
        BY <1>3, <4>2, <4>3, AtMore, Zenon
      <4>5. QED BY <1>3, <1>7, <4>3, <4>4, HasIs, Zenon
    <3>5. \A z \in Text : Apart(a, y \o z, ThinkClose)
      BY <3>4 DEF Apart
    <3>6. Len(y) < Len(ThinkClose)
      BY <1>3, <2>2, <2>4
    <3>7. f = Splitter(y, 1, a, <<>>)
      BY <1>1, <1>2, <3>3, Zenon
    <3>8. QED BY <2>4, <2>5, <3>5, <3>6, <3>7, Zenon
  <2>8. QED BY <2>6, <2>7
<1>8. QED BY <1>5, <1>6, <1>7

\* Phase 2 gives everything, the others nothing.
LEMMA ContentIs ==
  ASSUME NEW w, NEW ph, NEW r, NEW e
  PROVE  /\ Content(Splitter(w, 2, r, e)) = Splitter(<<>>, 2, r, w)
         /\ ph # 2 => Content(Splitter(w, ph, r, e)) = Splitter(w, ph, r, e)
<1>1. PICK s, n : s = Splitter(w, 2, r, e) /\ n = <<>>
  OBVIOUS
<1>2. s.buf = w /\ s.phase = 2 /\ ~s.panic
  <2>1. s = Splitter(w, 2, r, e)
    BY <1>1
  <2>2. s.buf = w /\ s.phase = 2 /\ s.panic = Calm
    BY ONLY <2>1 DEF Splitter
  <2>3. QED BY <2>2 DEF Calm
<1>3. Content(s) = [s EXCEPT !.content = w, !.buf = n]
  <2>1. Content(s) = [s EXCEPT !.content = s.buf, !.buf = <<>>]
    BY <1>2 DEF Content
  <2>2. s.buf = w /\ n = <<>>
    BY <1>1, <1>2
  <2>3. QED BY ONLY <2>1, <2>2
<1>4. PICK g : g = [s EXCEPT !.content = w]
  OBVIOUS
<1>5. g = Splitter(w, 2, r, w)
  BY ONLY <1>1, <1>4 DEF Splitter
<1>6. [g EXCEPT !.buf = n] = Splitter(n, 2, r, w)
  BY ONLY <1>5 DEF Splitter
<1>7. [s EXCEPT !.content = w, !.buf = n] = [[s EXCEPT !.content = w] EXCEPT !.buf = n]
  OBVIOUS
<1>8. Content(s) = Splitter(n, 2, r, w)
  BY <1>3, <1>4, <1>6, <1>7
<1>9. ASSUME ph # 2 PROVE Content(Splitter(w, ph, r, e)) = Splitter(w, ph, r, e)
  <2>1. Splitter(w, ph, r, e).phase = ph
    BY SplitterIs
  <2>2. QED BY <1>9, <2>1, Zenon DEF Content
<1>10. QED BY <1>1, <1>8, <1>9

-----------------------------------------------------------------------------
\* A reply x cut into reasoning R, content C and the b that is kept in phase ph:
\* nothing is split off; it may still open a block; it is inside one; the block is
\* closed; it never opens one.  Newlines behind a tag may be missing.
Kept(u, x, R, C, b, ph) == u.keep /\ ph = 2 /\ b = <<>> /\ R = <<>> /\ C = x
Waits(u, x, R, C, b, ph) ==
  ~u.keep /\ ph = 0 /\ ~u.inThink /\ MayOpen(x) /\ b = x /\ R = <<>> /\ C = <<>>
Reasons(u, x, R, C, b, ph) ==
  /\ ~u.keep /\ ph = 1 /\ Opens(u, x) /\ C = <<>> /\ Len(b) < Len(ThinkClose)
  /\ \E P \in Text : /\ After(R, P) /\ Inside(u, x) = P \o b
                     /\ \A z \in Text : Apart(P, b \o z, ThinkClose)
Closes(u, x, R, C, b, ph) ==
  /\ ~u.keep /\ ph = 2 /\ Opens(u, x) /\ b = <<>>
  /\ \E P, Q \in Text : /\ After(R, P) /\ After(C, Q) /\ Inside(u, x) = P \o (ThinkClose \o Q)
                        /\ First(Inside(u, x), ThinkClose, Len(P))
Unopened(u, x, R, C, b, ph) ==
  ~u.keep /\ ph = 2 /\ ~u.inThink /\ Never(x) /\ b = <<>> /\ R = <<>> /\ C = x
Split(u, x, R, C, b, ph) ==
  \/ Kept(u, x, R, C, b, ph) \/ Waits(u, x, R, C, b, ph) \/ Reasons(u, x, R, C, b, ph)
  \/ Closes(u, x, R, C, b, ph) \/ Unopened(u, x, R, C, b, ph)

\* A part without a tag in front of another without one.
LEMMA ApartJoined ==
  ASSUME NEW p \in Text, NEW a \in Text, NEW v \in Text, NEW t \in Text,
         Apart(p, a \o v, t), Apart(a, v, t)
  PROVE  Apart(p \o a, v, t)
<1>1. /\ Len(p \o a) = Len(p) + Len(a) /\ Len(p) \in Nat /\ Len(a) \in Nat
  BY JoinIs
<1>2. (p \o a) \o v = p \o (a \o v) /\ a \o v \in Text
  <2>1. (p \o a) \o v = p \o (a \o v)
    BY Regrouped, Zenon
  <2>2. a \o v \in Text
    BY Joined, Zenon
  <2>3. QED BY <2>1, <2>2, Zenon
<1>3. ASSUME NEW j \in 0..(Len(p \o a) - 1), At((p \o a) \o v, t, j) PROVE FALSE
  <2>1. At(p \o (a \o v), t, j)
    BY <1>2, <1>3
  <2>2. CASE j < Len(p)
    <3>1. j \in 0..(Len(p) - 1)
      BY <1>1, <2>2
    <3>2. QED BY <2>1, <3>1 DEF Apart
  <2>3. CASE ~(j < Len(p))
    <3>1. j - Len(p) \in Nat /\ j - Len(p) \in 0..(Len(a) - 1) /\ Len(p) + (j - Len(p)) = j
      BY <1>1, <2>3
    <3>2. PICK i \in Nat : i = j - Len(p)
      BY <3>1
    <3>3. At(p \o (a \o v), t, Len(p) + i) <=> At(a \o v, t, i)
      BY <1>2, AtBehind, Zenon
    <3>4. At(a \o v, t, i)
      BY <2>1, <3>1, <3>2, <3>3
    <3>5. QED BY <3>1, <3>2, <3>4 DEF Apart
  <2>4. QED BY <2>2, <2>3
<1>4. QED BY <1>3 DEF Apart

\* What comes behind both stays behind both.
LEMMA AfterJoined ==
  ASSUME NEW s \in Text, NEW w \in Text, NEW z \in Text, After(s, w)
  PROVE  After(s \o z, w \o z)
<1>1. PICK nl \in Text : All(nl, {Newline}) /\ w = nl \o s
  BY DEF After
<1>2. (nl \o s) \o z = nl \o (s \o z)
  BY Regrouped, Zenon
<1>3. QED BY <1>1, <1>2 DEF After

\* Phases 1 and 2 of a feed, when w follows what is known to be inside the block.
LEMMA InsideStep ==
  ASSUME NEW u, NEW x \in Text, NEW P \in Text, NEW R \in Text, NEW w \in Text,
         ~u.keep, Opens(u, x), Inside(u, x) = P \o w, \A z \in Text : Apart(P, w \o z, ThinkClose),
         After(R, P), NEW f, f = Content(Reasoning(Splitter(w, 1, <<>>, <<>>)))
  PROVE  \/ f.panic = TRUE
         \/ /\ f.buf \in Text /\ f.reason \in Text /\ f.content \in Text
            /\ Split(u, x, R \o f.reason, f.content, f.buf, f.phase)
<1>1. PICK g : g = Reasoning(Splitter(w, 1, <<>>, <<>>))
  OBVIOUS
<1>2. f = Content(g)
  BY <1>1
<1>3. ThinkClose \in Text /\ <<>> \in Text
  BY BareIs, NoText
<1>4. CASE g.panic = TRUE
  <2>1. Content(g) = g
    BY <1>4 DEF Content
  <2>2. QED BY <1>2, <1>4, <2>1
<1>5. ASSUME NEW a \in Text, NEW nl \in Text, NEW y \in Text,
             w = a \o (ThinkClose \o (nl \o y)), First(w, ThinkClose, Len(a)), All(nl, {Newline}),
             g = Splitter(y, 2, a, <<>>)
      PROVE  /\ f.buf \in Text /\ f.reason \in Text /\ f.content \in Text
             /\ Split(u, x, R \o f.reason, f.content, f.buf, f.phase)
  <2>1. f = Splitter(<<>>, 2, a, y)
    BY <1>2, <1>5, ContentIs, Zenon
  <2>2. f.buf = <<>> /\ f.phase = 2 /\ f.reason = a /\ f.content = y
    BY <2>1 DEF Splitter
  <2>3. PICK Q : Q = nl \o y
    OBVIOUS
  <2>4. PICK v : v = ThinkClose \o Q
    OBVIOUS
  <2>5. Q \in Text /\ v \in Text /\ w = a \o v /\ P \o a \in Text /\ R \o a \in Text
    <3>1. Q \in Text
      BY <2>3, Joined, Zenon
    <3>2. v \in Text
      BY <1>3, <2>4, <3>1, Joined, Zenon
    <3>3. w = a \o v
      BY <1>5, <2>3, <2>4, Zenon
    <3>4. P \o a \in Text /\ R \o a \in Text
      <4>1. P \o a \in Text
        BY Joined, Zenon
      <4>2. R \o a \in Text
        BY Joined, Zenon
      <4>3. QED BY <4>1, <4>2, Zenon
    <3>5. QED BY <3>1, <3>2, <3>3, <3>4
  <2>6. Inside(u, x) = (P \o a) \o v
    <3>1. (P \o a) \o v = P \o (a \o v)
      <4>1. v \in Text
        BY <2>5
      <4>2. QED BY <4>1, Regrouped, Zenon
    <3>2. QED BY <2>5, <3>1, Zenon
  <2>7. First(Inside(u, x), ThinkClose, Len(P \o a))
    <3>1. w \o <<>> = w
      BY NoText
    <3>2. Apart(P, w, ThinkClose)
      BY <1>3, <3>1
    <3>3. \A j \in 0..(Len(P) - 1) : ~At(P \o w, ThinkClose, j)
      BY <3>2 DEF Apart
    <3>4. Len(a) \in Nat /\ Len(P \o a) = Len(P) + Len(a)
      BY JoinIs
    <3>5. First(P \o w, ThinkClose, Len(P) + Len(a))
      BY <1>3, <1>5, <3>3, <3>4, FirstBehind, Zenon
    <3>6. QED BY <3>4, <3>5
  <2>8. After(y, Q)
    BY <1>5, <2>3 DEF After
  <2>9. After(R \o a, P \o a)
    BY AfterJoined, Zenon
  <2>10. Closes(u, x, R \o a, y, <<>>, 2)
    BY <2>4, <2>5, <2>6, <2>7, <2>8, <2>9, Zenon DEF Closes
  <2>11. QED BY <1>3, <2>2, <2>10 DEF Split
<1>6. ASSUME NEW a \in Text, NEW y \in Text, w = a \o y, Len(y) < Len(ThinkClose),
             \A z \in Text : Apart(a, y \o z, ThinkClose), g = Splitter(y, 1, a, <<>>)
      PROVE  /\ f.buf \in Text /\ f.reason \in Text /\ f.content \in Text
             /\ Split(u, x, R \o f.reason, f.content, f.buf, f.phase)
  <2>1. f = Splitter(y, 1, a, <<>>)
    <3>1. 1 # 2
      OBVIOUS
    <3>2. Content(Splitter(y, 1, a, <<>>)) = Splitter(y, 1, a, <<>>)
      BY <3>1, ContentIs
    <3>3. QED BY <1>2, <1>6, <3>2, Zenon
  <2>2. f.buf = y /\ f.phase = 1 /\ f.reason = a /\ f.content = <<>>
    BY <2>1 DEF Splitter
  <2>3. P \o a \in Text /\ R \o a \in Text
    <3>1. P \o a \in Text
      BY Joined, Zenon
    <3>2. R \o a \in Text
      BY Joined, Zenon
    <3>3. QED BY <3>1, <3>2, Zenon
  <2>4. Inside(u, x) = (P \o a) \o y
    <3>1. (P \o a) \o y = P \o (a \o y)
      BY Regrouped, Zenon
    <3>2. QED BY <1>6, <3>1, Zenon
  <2>5. After(R \o a, P \o a)
    BY AfterJoined, Zenon
  <2>6. ASSUME NEW z \in Text PROVE Apart(P \o a, y \o z, ThinkClose)
    <3>1. (a \o y) \o z = a \o (y \o z)
      BY Regrouped, Zenon
    <3>5. y \o z \in Text
      BY Joined, Zenon
    <3>2. Apart(P, a \o (y \o z), ThinkClose)
      BY <1>6, <3>1, Zenon
    <3>3. Apart(a, y \o z, ThinkClose)
      BY <1>6
    <3>4. QED BY <1>3, <3>2, <3>3, <3>5, ApartJoined, Zenon
  <2>7. Reasons(u, x, R \o a, <<>>, y, 1)
    BY <1>6, <2>3, <2>4, <2>5, <2>6, Zenon DEF Reasons
  <2>8. QED BY <1>3, <2>2, <2>7 DEF Split
<1>7. CASE \E a, nl, y \in Text : /\ w = a \o (ThinkClose \o (nl \o y)) /\ First(w, ThinkClose, Len(a))
                                  /\ All(nl, {Newline}) /\ g = Splitter(y, 2, a, <<>>)
  <2>1. PICK a, nl, y \in Text : /\ w = a \o (ThinkClose \o (nl \o y)) /\ First(w, ThinkClose, Len(a))
                                 /\ All(nl, {Newline}) /\ g = Splitter(y, 2, a, <<>>)
    BY <1>7, Zenon
  <2>2. QED BY <1>5, <2>1, Zenon
<1>8. CASE \E a, y \in Text : /\ w = a \o y /\ Len(y) < Len(ThinkClose)
                              /\ \A z \in Text : Apart(a, y \o z, ThinkClose)
                              /\ g = Splitter(y, 1, a, <<>>)
  <2>1. PICK a, y \in Text : /\ w = a \o y /\ Len(y) < Len(ThinkClose)
                             /\ \A z \in Text : Apart(a, y \o z, ThinkClose)
                             /\ g = Splitter(y, 1, a, <<>>)
    BY <1>8, Zenon
  <2>2. QED BY <1>6, <2>1, Zenon
<1>9. Gives(w, g)
  BY <1>1, ReasoningIs
<1>10. QED BY <1>4, <1>7, <1>8, <1>9, Zenon DEF Gives

\* What a feed starts from.
LEMMA FedIs ==
  ASSUME NEW th, NEW w
  PROVE  /\ [Fed(th) EXCEPT !.buf = w] = Splitter(w, th.phase, <<>>, <<>>)
         /\ [Fed(th) EXCEPT !.content = w] = Splitter(th.buf, th.phase, <<>>, w)
<1>1. PICK s, b, ph, n : s = Fed(th) /\ b = th.buf /\ ph = th.phase /\ n = <<>>
  OBVIOUS
<1>2. s = Splitter(b, ph, n, n)
  BY <1>1, Zenon DEF Fed, Splitter, Calm
<1>3. [s EXCEPT !.buf = w] = Splitter(w, ph, n, n)
  BY ONLY <1>2 DEF Splitter
<1>4. [s EXCEPT !.content = w] = Splitter(b, ph, n, w)
  BY ONLY <1>2 DEF Splitter
<1>5. QED BY <1>1, <1>3, <1>4

\* Behind an opening or a missing tag nothing is undecided.
LEMMA Decided ==
  ASSUME NEW w, NEW ph, ph # 0
  PROVE  Undecided(Splitter(w, ph, <<>>, <<>>)) = Splitter(w, ph, <<>>, <<>>)
<1>1. Splitter(w, ph, <<>>, <<>>).phase = ph
  BY SplitterIs
<1>2. QED BY <1>1, Zenon DEF Undecided

\* Outside the block nothing is reasoning.
LEMMA Outside ==
  ASSUME NEW w, NEW ph, ph # 1
  PROVE  Reasoning(Splitter(w, ph, <<>>, <<>>)) = Splitter(w, ph, <<>>, <<>>)
<1>1. Splitter(w, ph, <<>>, <<>>).phase = ph
  BY SplitterIs
<1>2. QED BY <1>1, Zenon DEF Reasoning

\* Feeding the next chunk keeps the reply split (ThinkSplitter::feed).
Next1(u, x, R, C, f) ==
  \/ f.panic = TRUE
  \/ /\ f.buf \in Text /\ f.reason \in Text /\ f.content \in Text
     /\ Split(u, x, R \o f.reason, C \o f.content, f.buf, f.phase)

\* Everything is content: keep-think, behind the block, or without one.
LEMMA ContentStep ==
  ASSUME NEW u, NEW x \in Text, NEW R \in Text, NEW C \in Text, NEW ch \in Text, NEW b, NEW f,
         Kept(u, x, R, C, b, 2) \/ Closes(u, x, R, C, b, 2) \/ Unopened(u, x, R, C, b, 2),
         f = Splitter(<<>>, 2, <<>>, ch)
  PROVE  Next1(u, x \o ch, R, C, f)
<1>1. /\ f.buf = <<>> /\ f.phase = 2 /\ f.reason = <<>> /\ f.content = ch /\ <<>> \in Text
      /\ R \o <<>> = R
  <2>1. f.buf = <<>> /\ f.phase = 2 /\ f.reason = <<>> /\ f.content = ch
    BY DEF Splitter
  <2>2. QED BY <2>1, NoText
<1>2. SUFFICES Split(u, x \o ch, R, C \o ch, <<>>, 2)
  BY <1>1, Zenon DEF Next1
<1>3. CASE Kept(u, x, R, C, b, 2)
  BY <1>3, Zenon DEF Kept, Split
<1>4. CASE Unopened(u, x, R, C, b, 2)
  <2>1. Never(x \o ch)
    BY <1>4, NeverMore DEF Unopened
  <2>2. QED BY <1>4, <2>1, Zenon DEF Unopened, Split
<1>5. CASE Closes(u, x, R, C, b, 2)
  <2>1. PICK P, Q \in Text : /\ After(R, P) /\ After(C, Q) /\ Inside(u, x) = P \o (ThinkClose \o Q)
                             /\ First(Inside(u, x), ThinkClose, Len(P))
    BY <1>5, Zenon DEF Closes
  <2>2. Opens(u, x \o ch) /\ Inside(u, x \o ch) = Inside(u, x) \o ch /\ Inside(u, x) \in Text
    <3>1. Opens(u, x)
      BY <1>5 DEF Closes
    <3>2. QED BY <3>1, OpensMore
  <2>3. ThinkClose \in Text /\ Len(P) \in Nat
    BY BareIs DEF Text
  <2>4. Inside(u, x \o ch) = P \o (ThinkClose \o (Q \o ch))
    <3>1. PICK v : v = ThinkClose \o Q
      OBVIOUS
    <3>0. ThinkClose \in Text /\ Q \in Text /\ ch \in Text /\ P \in Text
      BY <2>3
    <3>2. v \in Text
      BY ONLY <3>0, <3>1, Joined
    <3>3. (P \o v) \o ch = P \o (v \o ch)
      BY ONLY <3>0, <3>2, Regrouped
    <3>4. (ThinkClose \o Q) \o ch = ThinkClose \o (Q \o ch)
      BY ONLY <3>0, Regrouped
    <3>5. QED BY <2>1, <2>2, <3>1, <3>3, <3>4, Zenon
  <2>5. First(Inside(u, x \o ch), ThinkClose, Len(P))
    BY <2>1, <2>2, <2>3, FirstMore, Zenon
  <2>6. After(C \o ch, Q \o ch) /\ Q \o ch \in Text
    <3>1. Q \o ch \in Text
      BY Joined, Zenon
    <3>2. QED BY <2>1, <3>1, AfterJoined
  <2>7. Closes(u, x \o ch, R, C \o ch, <<>>, 2)
    BY <1>5, <2>1, <2>2, <2>4, <2>5, <2>6, Zenon DEF Closes
  <2>8. QED BY <2>7, Zenon DEF Split
<1>6. QED BY <1>3, <1>4, <1>5

\* Before it is decided whether the reply opens a block.
LEMMA WaitStep ==
  ASSUME NEW u, NEW w \in Text, ~u.keep, ~u.inThink,
         NEW f, f = Content(Reasoning(Undecided(Splitter(w, 0, <<>>, <<>>))))
  PROVE  Next1(u, w, <<>>, <<>>, f)
<1>0. <<>> \in Text /\ <<>> \o <<>> = <<>> /\ <<>> \o w = w
  BY NoText
<1>1. PICK g : g = Undecided(Splitter(w, 0, <<>>, <<>>))
  OBVIOUS
<1>2. f = Content(Reasoning(g)) /\ Decides(w, g)
  <2>1. Decides(w, g)
    BY <1>1, UndecidedIs
  <2>2. QED BY <1>1, <2>1
<1>3. CASE g.panic = TRUE
  <2>1. Reasoning(g) = g
    BY <1>3 DEF Reasoning
  <2>2. Content(g) = g
    BY <1>3 DEF Content
  <2>3. QED BY <1>2, <1>3, <2>1, <2>2 DEF Next1
<1>4. CASE MayOpen(w) /\ g = Splitter(w, 0, <<>>, <<>>)
  <2>1. Reasoning(Splitter(w, 0, <<>>, <<>>)) = Splitter(w, 0, <<>>, <<>>)
    BY Outside
  <2>2. Content(Splitter(w, 0, <<>>, <<>>)) = Splitter(w, 0, <<>>, <<>>)
    BY ContentIs
  <2>3. f = Splitter(w, 0, <<>>, <<>>)
    BY <1>2, <1>4, <2>1, <2>2, Zenon
  <2>4. f.buf = w /\ f.phase = 0 /\ f.reason = <<>> /\ f.content = <<>>
    BY <2>3 DEF Splitter
  <2>5. Split(u, w, <<>>, <<>>, w, 0)
    BY <1>4 DEF Split, Waits
  <2>6. QED BY <1>0, <2>4, <2>5, Zenon DEF Next1
<1>5. CASE Never(w) /\ g = Splitter(w, 2, <<>>, <<>>)
  <2>1. Reasoning(Splitter(w, 2, <<>>, <<>>)) = Splitter(w, 2, <<>>, <<>>)
    BY Outside
  <2>2. Content(Splitter(w, 2, <<>>, <<>>)) = Splitter(<<>>, 2, <<>>, w)
    BY ContentIs
  <2>3. f = Splitter(<<>>, 2, <<>>, w)
    BY <1>2, <1>5, <2>1, <2>2, Zenon
  <2>4. f.buf = <<>> /\ f.phase = 2 /\ f.reason = <<>> /\ f.content = w
    BY <2>3 DEF Splitter
  <2>5. Split(u, w, <<>>, w, <<>>, 2)
    BY <1>5 DEF Split, Unopened
  <2>6. QED BY <1>0, <2>4, <2>5, Zenon DEF Next1
<1>6. ASSUME HasOpened(w), NEW nl \in Text, NEW y \in Text, Drop(T0(w), Len(ThinkOpen)) = nl \o y,
             All(nl, {Newline}), g = Splitter(y, 1, <<>>, <<>>)
      PROVE  Next1(u, w, <<>>, <<>>, f)
  <2>1. Opens(u, w) /\ Inside(u, w) = nl \o y
    BY <1>6 DEF Opens, Inside
  <2>2. ASSUME NEW z \in Text PROVE Apart(nl, y \o z, ThinkClose)
    <3>1. y \o z \in Text /\ All(nl, Blank) /\ ThinkClose \in Tags
      BY <1>6, Joined, NewlinesBlank, FourTags
    <3>2. QED BY <3>1, BlankApart
  <2>3. After(<<>>, nl)
    <3>1. nl \o <<>> = nl
      BY NoText
    <3>2. QED BY <1>6, <3>1 DEF After
  <2>4. f = Content(Reasoning(Splitter(y, 1, <<>>, <<>>)))
    BY <1>2, <1>6, Zenon
  <2>5. \/ f.panic = TRUE
        \/ /\ f.buf \in Text /\ f.reason \in Text /\ f.content \in Text
           /\ Split(u, w, <<>> \o f.reason, f.content, f.buf, f.phase)
    BY <1>0, <2>1, <2>2, <2>3, <2>4, InsideStep, Zenon
  <2>6. f.content \in Text => <<>> \o f.content = f.content
    BY NoText
  <2>7. QED BY <2>5, <2>6, Zenon DEF Next1
<1>7. CASE HasOpened(w) /\ \E nl, y \in Text : /\ Drop(T0(w), Len(ThinkOpen)) = nl \o y /\ All(nl, {Newline})
                                               /\ g = Splitter(y, 1, <<>>, <<>>)
  BY <1>6, <1>7, Zenon
<1>8. QED BY <1>2, <1>3, <1>4, <1>5, <1>7, Zenon DEF Decides

\* Inside the block.
LEMMA ReasonStep ==
  ASSUME NEW u, NEW x \in Text, NEW R \in Text, NEW C \in Text, NEW ch \in Text, NEW b \in Text,
         Reasons(u, x, R, C, b, 1),
         NEW f, f = Content(Reasoning(Splitter(b \o ch, 1, <<>>, <<>>)))
  PROVE  Next1(u, x \o ch, R, C, f)
<1>1. PICK P \in Text : /\ After(R, P) /\ Inside(u, x) = P \o b
                        /\ \A z \in Text : Apart(P, b \o z, ThinkClose)
  BY Zenon DEF Reasons
<1>2. Opens(u, x) /\ C = <<>> /\ ~u.keep
  BY DEF Reasons
<1>3. Opens(u, x \o ch) /\ Inside(u, x \o ch) = Inside(u, x) \o ch
  BY <1>2, OpensMore
<1>4. PICK w, y : w = b \o ch /\ y = x \o ch
  OBVIOUS
<1>5. w \in Text /\ y \in Text /\ Inside(u, y) = P \o w /\ Opens(u, y)
  <2>0. x \in Text /\ b \in Text /\ ch \in Text /\ P \in Text
    OBVIOUS
  <2>1. (P \o b) \o ch = P \o (b \o ch)
    BY ONLY <2>0, Regrouped
  <2>2. w \in Text
    BY ONLY <1>4, <2>0, Joined
  <2>3. y \in Text
    BY ONLY <1>4, <2>0, Joined
  <2>4. QED BY <1>1, <1>3, <1>4, <2>1, <2>2, <2>3, Zenon
<1>6. ASSUME NEW z \in Text PROVE Apart(P, w \o z, ThinkClose)
  <2>1. (b \o ch) \o z = b \o (ch \o z)
    BY Regrouped, Zenon
  <2>2. ch \o z \in Text
    BY Joined, Zenon
  <2>3. QED BY <1>1, <1>4, <2>1, <2>2, Zenon
<1>7. f = Content(Reasoning(Splitter(w, 1, <<>>, <<>>)))
  BY <1>4, Zenon
<1>8. \/ f.panic = TRUE
      \/ /\ f.buf \in Text /\ f.reason \in Text /\ f.content \in Text
         /\ Split(u, y, R \o f.reason, f.content, f.buf, f.phase)
  BY <1>1, <1>2, <1>5, <1>6, <1>7, InsideStep, Zenon
<1>9. f.content \in Text => C \o f.content = f.content
  BY <1>2, NoText
<1>10. QED BY <1>4, <1>8, <1>9, Zenon DEF Next1

\* A chunk is fed whatever the splitter waits for.
LEMMA ThinkStep ==
  ASSUME NEW x \in Text, NEW R \in Text, NEW C \in Text, NEW ch \in Text, NEW th, th.buf \in Text,
         Split(setup, x, R, C, th.buf, th.phase), NEW f, f = ThinkFeed(th, ch)
  PROVE  Next1(setup, x \o ch, R, C, f)
<1>1. PICK b, ph : b = th.buf /\ ph = th.phase
  OBVIOUS
<1>2. b \in Text /\ Split(setup, x, R, C, b, ph)
  BY <1>1, Zenon
<1>3. PICK w : w = b \o ch
  OBVIOUS
<1>4. w \in Text /\ <<>> \in Text
  <2>1. b \in Text /\ ch \in Text
    BY <1>2
  <2>2. QED BY ONLY <1>3, <2>1, Joined, NoText
<1>5. CASE setup.keep
  <2>1. Kept(setup, x, R, C, b, ph)
    BY <1>2, <1>5, Zenon DEF Split, Waits, Reasons, Closes, Unopened
  <2>2. f = Splitter(b, ph, <<>>, ch)
    BY <1>1, <1>5, FedIs, Zenon DEF ThinkFeed
  <2>3. b = <<>> /\ ph = 2
    BY <2>1 DEF Kept
  <2>4. f = Splitter(<<>>, 2, <<>>, ch) /\ Kept(setup, x, R, C, b, 2)
    BY ONLY <2>1, <2>2, <2>3
  <2>5. QED BY <2>4, ContentStep
<1>6. CASE ~setup.keep
  <2>1. f = Content(Reasoning(Undecided(Splitter(w, ph, <<>>, <<>>))))
    BY <1>1, <1>3, <1>6, FedIs, Zenon DEF ThinkFeed
  <2>2. CASE Waits(setup, x, R, C, b, ph)
    <3>1. ph = 0 /\ ~setup.inThink /\ b = x /\ R = <<>> /\ C = <<>>
      BY <2>2 DEF Waits
    <3>2. f = Content(Reasoning(Undecided(Splitter(w, 0, <<>>, <<>>))))
      BY ONLY <2>1, <3>1
    <3>3. Next1(setup, w, <<>>, <<>>, f)
      BY <1>4, <1>6, <3>1, <3>2, WaitStep
    <3>4. QED BY ONLY <1>3, <3>1, <3>3
  <2>3. CASE Reasons(setup, x, R, C, b, ph)
    <3>1. ph = 1
      BY <2>3 DEF Reasons
    <3>2. Undecided(Splitter(w, 1, <<>>, <<>>)) = Splitter(w, 1, <<>>, <<>>)
      <4>1. 1 # 0
        OBVIOUS
      <4>2. QED BY <4>1, Decided
    <3>3. f = Content(Reasoning(Splitter(b \o ch, 1, <<>>, <<>>))) /\ Reasons(setup, x, R, C, b, 1)
      BY ONLY <1>3, <2>1, <2>3, <3>1, <3>2
    <3>4. QED BY <1>2, <3>3, ReasonStep
  <2>4. CASE Closes(setup, x, R, C, b, ph) \/ Unopened(setup, x, R, C, b, ph)
    <3>1. ph = 2 /\ b = <<>>
      BY <2>4 DEF Closes, Unopened
    <3>2. Undecided(Splitter(w, 2, <<>>, <<>>)) = Splitter(w, 2, <<>>, <<>>)
      <4>1. 2 # 0
        OBVIOUS
      <4>2. QED BY <4>1, Decided
    <3>3. Reasoning(Splitter(w, 2, <<>>, <<>>)) = Splitter(w, 2, <<>>, <<>>)
      <4>1. 2 # 1
        OBVIOUS
      <4>2. QED BY <4>1, Outside
    <3>4. Content(Splitter(w, 2, <<>>, <<>>)) = Splitter(<<>>, 2, <<>>, w)
      BY ContentIs
    <3>5. w = ch
      <4>1. <<>> \o ch = ch
        BY NoText
      <4>2. QED BY ONLY <1>3, <3>1, <4>1
    <3>6. f = Splitter(<<>>, 2, <<>>, ch)
      BY ONLY <2>1, <3>1, <3>2, <3>3, <3>4, <3>5
    <3>7. Closes(setup, x, R, C, b, 2) \/ Unopened(setup, x, R, C, b, 2)
      BY ONLY <2>4, <3>1
    <3>8. QED BY <3>6, <3>7, ContentStep
  <2>5. QED BY <1>2, <1>6, <2>2, <2>3, <2>4, Zenon DEF Split, Kept
<1>7. QED BY <1>5, <1>6

\* Nothing before an empty text.
LEMMA NothingAfter == After(<<>>, <<>>) /\ TrimStart(<<>>, Blank) = <<>>
<1>1. <<>> \in Text /\ <<>> \o <<>> = <<>> /\ Len(<<>>) = 0
  BY NoText
<1>2. After(<<>>, <<>>)
  <2>1. PICK e : e = <<>>
    OBVIOUS
  <2>2. e \in Text /\ e = e \o e /\ Len(e) = 0
    BY <1>1, <2>1
  <2>3. All(e, {Newline})
    BY <2>2 DEF All
  <2>4. After(e, e)
    BY <2>2, <2>3, Zenon DEF After
  <2>5. QED BY <2>1, <2>4
<1>3. PICK p, r \in Text : <<>> = p \o r /\ TrimStart(<<>>, Blank) = r
  BY <1>1, TrimStartIs
<1>4. Len(p \o r) = Len(p) + Len(r) /\ Len(p) \in Nat /\ Len(r) \in Nat
  BY JoinIs
<1>5. Len(r) = 0
  <2>1. Len(p \o r) = 0
    BY ONLY <1>1, <1>3, Zenon
  <2>2. QED BY <1>4, <2>1
<1>6. r = <<>>
  <2>1. r \in Text /\ Len(r) = 0
    BY <1>5
  <2>2. QED BY ONLY <2>1, NoText, Zenon
<1>7. QED BY <1>2, <1>3, <1>6, Zenon

\* A new splitter has split the empty reply.
LEMMA StartSplit ==
  Split(setup, <<>>, <<>>, <<>>, NewThink.buf, NewThink.phase) /\ NewThink.buf = <<>>
<1>1. NewThink.buf = <<>> /\ NewThink.phase = IF setup.keep THEN 2 ELSE IF setup.inThink THEN 1 ELSE 0
  BY DEF NewThink
<1>2. CASE setup.keep
  <2>1. Kept(setup, <<>>, <<>>, <<>>, <<>>, 2)
    BY <1>2 DEF Kept
  <2>2. QED BY <1>1, <1>2, <2>1 DEF Split
<1>3. CASE ~setup.keep /\ setup.inThink
  <2>1. PICK e \in Text : e = <<>>
    BY NoText
  <2>2. e \o e = e /\ Len(e) = 0 /\ After(e, e)
    BY <2>1, NoText, NothingAfter
  <2>3. \A z \in Text : Apart(e, e \o z, ThinkClose)
    BY <2>2 DEF Apart
  <2>4. Opens(setup, e) /\ Inside(setup, e) = e
    BY <1>3 DEF Opens, Inside
  <2>5. Len(e) < Len(ThinkClose)
    BY <2>2, BareIs
  <2>6. Reasons(setup, e, e, e, e, 1)
    BY <1>3, <2>1, <2>2, <2>3, <2>4, <2>5 DEF Reasons
  <2>7. QED BY <1>1, <1>3, <2>1, <2>6 DEF Split
<1>4. CASE ~setup.keep /\ ~setup.inThink
  <2>1. PICK t : t = T0(<<>>)
    OBVIOUS
  <2>2. t = <<>> /\ Len(t) = 0 /\ t \in Text
    BY <2>1, NothingAfter, NoText DEF T0
  <2>3. Starts(Bare, t)
    BY <2>2, BareIs, StartsIs
  <2>4. MayOpen(<<>>)
    BY <2>1, <2>2, <2>3, BareIs DEF MayOpen
  <2>5. Waits(setup, <<>>, <<>>, <<>>, <<>>, 0)
    BY <1>4, <2>4 DEF Waits
  <2>6. QED BY <1>1, <1>4, <2>5 DEF Split
<1>5. QED BY <1>2, <1>3, <1>4

\* Every text is behind nothing.
LEMMA AfterItself == ASSUME NEW s \in Text PROVE After(s, s)
<1>1. PICK e : e = <<>>
  OBVIOUS
<1>2. e \in Text /\ s = e \o s /\ Len(e) = 0
  BY <1>1, NoText
<1>3. All(e, {Newline})
  BY <1>2 DEF All
<1>4. QED BY <1>2, <1>3, Zenon DEF After

\* Two texts with the same text behind newlines.
Close(r, q) == \E w \in Text : After(r, w) /\ After(q, w)

\* Reasoning and closed reasoning exclude one another.
LEMMA ClosedOrNot ==
  ASSUME NEW u, NEW x, NEW R, NEW C, NEW b \in Text, NEW ph, NEW R1, NEW C1, NEW b1, NEW ph1,
         Reasons(u, x, R, C, b, ph), Closes(u, x, R1, C1, b1, ph1)
  PROVE  FALSE
<1>1. PICK P \in Text : /\ Inside(u, x) = P \o b
                        /\ \A z \in Text : Apart(P, b \o z, ThinkClose)
  BY Zenon DEF Reasons
<1>2. PICK P1, Q1 \in Text : /\ Inside(u, x) = P1 \o (ThinkClose \o Q1)
                             /\ First(Inside(u, x), ThinkClose, Len(P1))
  BY Zenon DEF Closes
<1>3. Len(b) < Len(ThinkClose) /\ Len(b) \in Nat /\ Len(ThinkClose) \in Nat /\ ThinkClose \in Text
  BY BareIs DEF Reasons, Text
<1>4. ~Has(b, ThinkClose)
  <2>1. ASSUME NEW i \in Nat, At(b, ThinkClose, i) PROVE FALSE
    BY <1>3, <2>1 DEF At
  <2>2. QED BY <1>3, <2>1, HasIs
<1>5. Apart(P, b, ThinkClose)
  <2>1. <<>> \in Text /\ b \o <<>> = b
    BY NoText
  <2>2. QED BY <1>1, <2>1
<1>6. ~Has(P \o b, ThinkClose)
  <2>1. \A j \in 0..(Len(P) - 1) : ~At(P \o b, ThinkClose, j)
    BY <1>5 DEF Apart
  <2>2. QED BY <1>3, <1>4, <2>1, FirstBehind
<1>7. Has(P \o b, ThinkClose)
  <2>1. First(P \o b, ThinkClose, Len(P1)) /\ Len(P1) \in Nat
    BY <1>1, <1>2 DEF Text
  <2>2. P \o b \in Text
    BY <1>1, Joined
  <2>3. QED BY <1>3, <2>1, <2>2, FirstIs
<1>8. QED BY <1>6, <1>7

\* A block is closed in one place.
LEMMA ClosedOnce ==
  ASSUME NEW u, NEW x \in Text, NEW R, NEW C, NEW b, NEW ph, NEW R1, NEW C1, NEW b1, NEW ph1,
         Closes(u, x, R, C, b, ph), Closes(u, x, R1, C1, b1, ph1)
  PROVE  Close(R, R1) /\ Close(C, C1)
<1>1. PICK P, Q \in Text : /\ After(R, P) /\ After(C, Q) /\ Inside(u, x) = P \o (ThinkClose \o Q)
                           /\ First(Inside(u, x), ThinkClose, Len(P))
  BY Zenon DEF Closes
<1>2. PICK P1, Q1 \in Text : /\ After(R1, P1) /\ After(C1, Q1) /\ Inside(u, x) = P1 \o (ThinkClose \o Q1)
                             /\ First(Inside(u, x), ThinkClose, Len(P1))
  BY Zenon DEF Closes
<1>3. PICK y, v, v1 : y = Inside(u, x) /\ v = ThinkClose \o Q /\ v1 = ThinkClose \o Q1
  OBVIOUS
<1>4. ThinkClose \in Text /\ Q \in Text /\ Q1 \in Text /\ P \in Text /\ P1 \in Text
  BY BareIs
<1>5. v \in Text /\ v1 \in Text
  BY ONLY <1>3, <1>4, Joined
<1>6. y = P \o v /\ y = P1 \o v1
  BY <1>1, <1>2, <1>3, Zenon
<1>7. y \in Text
  BY ONLY <1>4, <1>5, <1>6, Joined
<1>8. Len(P) \in Nat /\ Len(P1) \in Nat
  BY <1>4 DEF Text
<1>9. Len(P) = Len(P1)
  <2>1. First(y, ThinkClose, Len(P)) /\ First(y, ThinkClose, Len(P1))
    BY <1>1, <1>2, <1>3, Zenon
  <2>2. Find(y, ThinkClose) = Len(P)
    BY <1>4, <1>7, <1>8, <2>1, FirstIs
  <2>3. Find(y, ThinkClose) = Len(P1)
    BY <1>4, <1>7, <1>8, <2>1, FirstIs
  <2>4. QED BY <2>2, <2>3
<1>10. /\ Upto(P \o v, Len(P)) = P /\ Drop(P \o v, Len(P)) = v
       /\ Upto(P1 \o v1, Len(P1)) = P1 /\ Drop(P1 \o v1, Len(P1)) = v1
  BY <1>4, <1>5, CutJoined
<1>11. P = P1 /\ v = v1
  BY ONLY <1>6, <1>9, <1>10
<1>12. Drop(ThinkClose \o Q, Len(ThinkClose)) = Q /\ Drop(ThinkClose \o Q1, Len(ThinkClose)) = Q1
  BY <1>4, CutJoined
<1>13. Q = Q1
  BY ONLY <1>3, <1>11, <1>12
<1>14. QED BY <1>1, <1>2, <1>4, <1>11, <1>13, Zenon DEF Close

\* Two ways to split a reply differ in newlines at the tags, when one of them has
\* left the block.
Agree(x, R, C, b, ph, R1, C1, b1, ph1) ==
  /\ ph = ph1 /\ b = b1 /\ ph \in {0, 2}
  /\ ph = 0 => MayOpen(x) /\ b = x /\ R = <<>> /\ C = <<>> /\ R1 = <<>> /\ C1 = <<>>
  /\ ph = 2 => b = <<>> /\ Close(R, R1) /\ Close(C, C1)
\* A reply is split in one way but for them.
LEMMA SameSplit ==
  ASSUME NEW u, NEW x \in Text, NEW R, NEW C, NEW b \in Text, NEW ph, NEW R1, NEW C1, NEW b1 \in Text, NEW ph1,
         Split(u, x, R, C, b, ph), Split(u, x, R1, C1, b1, ph1), ph1 # 1
  PROVE  Agree(x, R, C, b, ph, R1, C1, b1, ph1)
<1>1. ~Reasons(u, x, R1, C1, b1, ph1)
  BY DEF Reasons
<1>2. <<>> \in Text
  BY NoText
<1>3. ASSUME u.keep PROVE Agree(x, R, C, b, ph, R1, C1, b1, ph1)
  <2>1. Kept(u, x, R, C, b, ph) /\ Kept(u, x, R1, C1, b1, ph1)
    BY <1>3, Zenon DEF Split, Waits, Reasons, Closes, Unopened
  <2>2. /\ ph = 2 /\ b = <<>> /\ R = <<>> /\ C = x
        /\ ph1 = 2 /\ b1 = <<>> /\ R1 = <<>> /\ C1 = x
    BY <2>1 DEF Kept
  <2>3. Close(R, R1) /\ Close(C, C1)
    BY <1>2, <2>2, AfterItself, Zenon DEF Close
  <2>4. QED BY <2>2, <2>3 DEF Agree
<1>4. ASSUME Waits(u, x, R1, C1, b1, ph1) PROVE Agree(x, R, C, b, ph, R1, C1, b1, ph1)
  <2>1. ~u.keep /\ ph1 = 0 /\ ~u.inThink /\ MayOpen(x) /\ b1 = x /\ R1 = <<>> /\ C1 = <<>>
    BY <1>4 DEF Waits
  <2>2. ~HasOpened(x) /\ ~Never(x)
    BY <2>1, OnlyOne
  <2>3. ~Opens(u, x)
    BY <2>1, <2>2 DEF Opens
  <2>4. Waits(u, x, R, C, b, ph)
    BY <2>1, <2>2, <2>3, Zenon DEF Split, Kept, Reasons, Closes, Unopened
  <2>5. ph = 0 /\ b = x /\ R = <<>> /\ C = <<>>
    BY <2>4 DEF Waits
  <2>6. QED BY <2>1, <2>5 DEF Agree
<1>5. ASSUME Unopened(u, x, R1, C1, b1, ph1) PROVE Agree(x, R, C, b, ph, R1, C1, b1, ph1)
  <2>1. ~u.keep /\ ph1 = 2 /\ ~u.inThink /\ Never(x) /\ b1 = <<>> /\ R1 = <<>> /\ C1 = x
    BY <1>5 DEF Unopened
  <2>2. ~HasOpened(x) /\ ~MayOpen(x)
    BY <2>1, OnlyOne
  <2>3. ~Opens(u, x)
    BY <2>1, <2>2 DEF Opens
  <2>4. Unopened(u, x, R, C, b, ph)
    BY <2>1, <2>2, <2>3, Zenon DEF Split, Kept, Waits, Reasons, Closes
  <2>5. ph = 2 /\ b = <<>> /\ R = <<>> /\ C = x
    BY <2>4 DEF Unopened
  <2>6. Close(R, R1) /\ Close(C, C1)
    BY <1>2, <2>1, <2>5, AfterItself, Zenon DEF Close
  <2>7. QED BY <2>1, <2>5, <2>6 DEF Agree
<1>6. ASSUME Closes(u, x, R1, C1, b1, ph1) PROVE Agree(x, R, C, b, ph, R1, C1, b1, ph1)
  <2>1. ~u.keep /\ ph1 = 2 /\ Opens(u, x) /\ b1 = <<>>
    BY <1>6 DEF Closes
  <2>2. ~Waits(u, x, R, C, b, ph) /\ ~Unopened(u, x, R, C, b, ph)
    BY <2>1, OnlyOne, Zenon DEF Opens, Waits, Unopened
  <2>3. ~Reasons(u, x, R, C, b, ph)
    BY <1>6, ClosedOrNot, Zenon
  <2>4. Closes(u, x, R, C, b, ph)
    BY <2>1, <2>2, <2>3, Zenon DEF Split, Kept
  <2>5. ph = 2 /\ b = <<>>
    BY <2>4 DEF Closes
  <2>6. Close(R, R1) /\ Close(C, C1)
    BY <1>6, <2>4, ClosedOnce, Zenon
  <2>7. QED BY <2>1, <2>5, <2>6 DEF Agree
<1>7. CASE ~u.keep
  <2>1. ~Kept(u, x, R1, C1, b1, ph1)
    BY <1>7 DEF Kept
  <2>2. QED BY <1>1, <1>4, <1>5, <1>6, <2>1, Zenon DEF Split
<1>8. QED BY <1>3, <1>7

-----------------------------------------------------------------------------
\* Answers with the same three fields are the same.
LEMMA AnswerSame ==
  ASSUME NEW s, NEW e, Told(s).content = Told(e).content, Told(s).calls = Told(e).calls,
         Told(s).open = Told(e).open
  PROVE  Told(s) = Told(e)
<1>1. PICK c, l, o : Told(s) = [content |-> c, calls |-> l, open |-> o]
  BY Zenon DEF Told
<1>2. PICK c1, l1, o1 : Told(e) = [content |-> c1, calls |-> l1, open |-> o1]
  BY Zenon DEF Told
<1>3. c = c1 /\ l = l1 /\ o = o1
  BY <1>1, <1>2
<1>4. QED BY <1>1, <1>2, <1>3, Zenon

\* A feed of the filter panics or does not.
LEMMA FeedPanics == ASSUME NEW s \in Filter PROVE ToolFeed(s).panic \in BOOLEAN
<1>1. PICK b : b = TakeBlocks(s)
  OBVIOUS
<1>2. b \in Filter
  BY <1>1, AllTaken
<1>3. /\ b.panic \in BOOLEAN /\ [b EXCEPT !.panic = TRUE].panic \in BOOLEAN
      /\ \A o, v : [b EXCEPT !.out = o, !.buf = v].panic \in BOOLEAN
  BY <1>2 DEF Filter
<1>4. HoldBack(b).panic \in BOOLEAN
  BY <1>3 DEF HoldBack
<1>5. QED BY <1>1, <1>4 DEF ToolFeed

\* The filter in the middle of a reply: b is kept, l are the calls and o the text so far.
Filled(b, l, o) == [buf |-> b, calls |-> l, out |-> o, panic |-> Calm]

\* It is a filter.
LEMMA FilledIs ==
  ASSUME NEW b \in Text, NEW l \in Seq(Text), NEW o \in Text
  PROVE  /\ Filled(b, l, o) \in Filter /\ Filled(b, l, o).panic = Calm
         /\ Filled(b, l, o).buf = b /\ Filled(b, l, o).out = o /\ Filled(b, l, o).calls = l
<1>1. Calm \in BOOLEAN
  BY DEF Calm
<1>2. QED BY <1>1, Zenon DEF Filled, Filter

\* What is fed to it and was fed before.
LEMMA FilledWith ==
  ASSUME NEW f \in Filter, f.panic = FALSE, NEW z \in Text, NEW o \in Text
  PROVE  Ahead(With(f, z), o) = Filled(f.buf \o z, f.calls, o \o f.out)
<1>1. PICK b, l, u, x : f = [buf |-> b, calls |-> l, out |-> u, panic |-> x]
  BY Zenon DEF Filter
<1>2. f.buf = b /\ f.calls = l /\ f.out = u /\ x = Calm
  BY <1>1, FieldsAre DEF Calm
<1>3. PICK v, w : v = b \o z /\ w = o \o u
  OBVIOUS
<1>4. With(f, z) = [buf |-> v, calls |-> l, out |-> u, panic |-> x]
  <2>1. With(f, z) = [f EXCEPT !.buf = v]
    BY <1>2, <1>3, Zenon DEF With
  <2>2. QED BY <1>1, <2>1, FieldsAre
<1>5. PICK g : g = With(f, z)
  OBVIOUS
<1>6. g.out = u
  BY <1>4, <1>5, FieldsAre
<1>7. Ahead(g, o) = [g EXCEPT !.out = w]
  BY <1>3, <1>6, Zenon DEF Ahead
<1>8. [g EXCEPT !.out = w] = [buf |-> v, calls |-> l, out |-> w, panic |-> x]
  BY ONLY <1>4, <1>5, FieldsAre
<1>9. QED BY <1>2, <1>3, <1>5, <1>7, <1>8, Zenon DEF Filled

\* What the filter has, and gave, answers the content C whatever follows.
Answers(b, l, o, C) == \A z \in Text : Told(Filled(b \o z, l, o)) = Told(Whole(C \o z))

\* Feeding more content keeps it so, and holds back no more than a tag.
LEMMA FeedStep ==
  ASSUME NEW b \in Text, NEW l \in Seq(Text), NEW o \in Text, NEW C \in Text, NEW ct \in Text,
         Answers(b, l, o, C), NEW f, f = ToolFeed(Filled(b \o ct, l, <<>>)), ~f.panic
  PROVE  /\ f.buf \in Text /\ f.calls \in Seq(Text) /\ f.out \in Text
         /\ ~HasBlock(f.buf) /\ Held(f.buf)
         /\ Answers(f.buf, f.calls, o \o f.out, C \o ct)
<1>1. PICK s, v, e : s = Filled(v, l, e) /\ v = b \o ct /\ e = <<>>
  OBVIOUS
<1>2. v \in Text /\ e \in Text
  <2>1. b \in Text /\ ct \in Text
    OBVIOUS
  <2>2. QED BY ONLY <1>1, <2>1, Joined, NoText
<1>3. s \in Filter /\ s.panic = FALSE /\ s.buf = v /\ s.out = e /\ s.calls = l
  <2>0. l \in Seq(Text)
    OBVIOUS
  <2>1. /\ Filled(v, l, e) \in Filter /\ Filled(v, l, e).panic = Calm
        /\ Filled(v, l, e).buf = v /\ Filled(v, l, e).out = e /\ Filled(v, l, e).calls = l
    <3>1. v \in Text
      BY <1>2
    <3>2. e \in Text
      BY <1>2
    <3>3. QED BY ONLY <2>0, <3>1, <3>2, FilledIs
  <2>2. s.panic = FALSE
    BY <1>1, <2>1 DEF Calm
  <2>3. QED BY <1>1, <2>1, <2>2, Zenon
<1>4. f = ToolFeed(s)
  BY <1>1
<1>5. f.panic = FALSE
  <2>1. f.panic \in BOOLEAN
    BY <1>3, <1>4, FeedPanics
  <2>2. QED BY <2>1
<1>6. /\ f \in Filter /\ ~HasBlock(f.buf) /\ Held(f.buf)
      /\ \A z \in Text : Told(With(f, z)) = Told(With(s, z))
  BY <1>3, <1>4, <1>5, FeedIs
<1>7. f.buf \in Text /\ f.calls \in Seq(Text) /\ f.out \in Text
  BY <1>6 DEF Filter
<1>8. ASSUME NEW z \in Text
      PROVE  Told(Filled(f.buf \o z, f.calls, o \o f.out)) = Told(Whole((C \o ct) \o z))
  <2>1. PICK g, h : g = With(f, z) /\ h = With(s, z)
    OBVIOUS
  <2>2. g \in Filter /\ h \in Filter
    BY <1>3, <1>6, <2>1, FiltersAre
  <2>3. Told(g) = Told(h)
    BY <1>6, <2>1
  <2>4. Told(Ahead(g, o)) = Told(Ahead(h, o))
    <3>1. /\ Told(Ahead(g, o)).content = o \o Told(g).content
          /\ Told(Ahead(g, o)).calls = Told(g).calls
          /\ Told(Ahead(g, o)).open = Told(g).open
      BY <2>2, AnswerAhead
    <3>2. /\ Told(Ahead(h, o)).content = o \o Told(h).content
          /\ Told(Ahead(h, o)).calls = Told(h).calls
          /\ Told(Ahead(h, o)).open = Told(h).open
      BY <2>2, AnswerAhead
    <3>3. /\ Told(Ahead(g, o)).content = Told(Ahead(h, o)).content
          /\ Told(Ahead(g, o)).calls = Told(Ahead(h, o)).calls
          /\ Told(Ahead(g, o)).open = Told(Ahead(h, o)).open
      BY ONLY <2>3, <3>1, <3>2
    <3>4. QED BY <3>3, AnswerSame
  <2>5. Ahead(g, o) = Filled(f.buf \o z, f.calls, o \o f.out)
    BY <1>5, <1>6, <2>1, FilledWith
  <2>6. Ahead(h, o) = Filled(v \o z, l, o \o e)
    <3>1. Ahead(With(s, z), o) = Filled(s.buf \o z, s.calls, o \o s.out)
      BY <1>3, FilledWith
    <3>2. QED BY <1>3, <2>1, <3>1, Zenon
  <2>7. o \o e = o
    BY <1>1, NoText
  <2>8. PICK y : y = ct \o z
    OBVIOUS
  <2>9. y \in Text /\ v \o z = b \o y /\ (C \o ct) \o z = C \o y
    <3>1. b \in Text /\ ct \in Text /\ z \in Text /\ C \in Text
      OBVIOUS
    <3>2. QED BY ONLY <1>1, <2>8, <3>1, Joined, Regrouped
  <2>10. Told(Filled(b \o y, l, o)) = Told(Whole(C \o y))
    BY <2>9 DEF Answers
  <2>11. Ahead(h, o) = Filled(b \o y, l, o)
    BY ONLY <2>6, <2>7, <2>9
  <2>12. QED BY ONLY <2>4, <2>5, <2>9, <2>10, <2>11
<1>9. Answers(f.buf, f.calls, o \o f.out, C \o ct)
  BY <1>8, Zenon DEF Answers
<1>10. QED BY <1>6, <1>7, <1>9

\* The complete characters among the bytes at hand are taken.
Takes(x, b, p, s, n, y, d) ==
  /\ y \in Text /\ d \in Text /\ Lossy(y) = y /\ Valid(x \o y) /\ (Valid(d) => d = <<>>)
  /\ (x \o b) \o p = (x \o y) \o d
  /\ n = 0 => d = s /\ x \o y = x
\* Taking what ValidUpTo allows does that.
LEMMA TakeIs ==
  ASSUME NEW x, NEW b, NEW p, NEW s, NEW n, NEW y, NEW d, x \in Text, b \in Text, p \in Text,
         s = b \o p, Valid(x), n = ValidUpTo(s), y = Upto(s, n), d = Drop(s, n)
  PROVE  Takes(x, b, p, s, n, y, d)
<1>1. s \in Text
  <2>1. b \in Text /\ p \in Text /\ s = b \o p
    OBVIOUS
  <2>2. QED BY ONLY <2>1, Joined
<1>2. n \in 0..Len(s) /\ Valid(y)
  BY <1>1, ValidUpToIs
<1>3. y \in Text /\ d \in Text /\ Len(y) = n
  BY <1>1, <1>2, CutsAre
<1>4. s = y \o d
  BY <1>1, <1>2, JoinCuts
<1>5. Lossy(y) = y
  BY <1>2, <1>3, LossyIs
<1>6. Valid(x \o y)
  BY <1>2, <1>3, ValidJoined
<1>7. Valid(d) => d = <<>>
  BY <1>1, KeptIs
<1>8. (x \o b) \o p = (x \o y) \o d
  <2>1. x \in Text /\ b \in Text /\ p \in Text /\ s = b \o p
    OBVIOUS
  <2>2. (x \o b) \o p = x \o (b \o p)
    BY ONLY <2>1, Regrouped
  <2>5. x \in Text /\ y \in Text /\ d \in Text
    BY <1>3
  <2>3. (x \o y) \o d = x \o (y \o d)
    BY ONLY <2>5, Regrouped
  <2>4. QED BY ONLY <1>4, <2>1, <2>2, <2>3
<1>9. ASSUME n = 0 PROVE d = s /\ x \o y = x
  <2>1. y = <<>>
    <3>1. y \in Text /\ Len(y) = 0
      BY <1>3, <1>9
    <3>2. QED BY ONLY <3>1, NoText, Zenon
  <2>2. <<>> \o d = d /\ x \o <<>> = x
    BY <1>3, NoText
  <2>3. QED BY ONLY <1>4, <2>1, <2>2
<1>10. QED BY <1>3, <1>5, <1>6, <1>7, <1>8, <1>9 DEF Takes

-----------------------------------------------------------------------------
\* The invariant.  Of the bytes generated, x were taken: R is the reasoning in them,
\* C the content, O what the filter let through of C; the reader has seen R and O.
Live == rsAt \in {"run", "flush", "done"}
Ends == {"none", "stop", "length", "error", "tool_calls"}
Frames == [reason : Text, content : Text, calls : Seq(Text), finish : Ends]
Typed ==
  /\ buf \in Text /\ think.buf \in Text /\ tool.buf \in Text /\ tool.calls \in Seq(Text)
  /\ got \in Frames

Shown(r) == IF setup.chat THEN r ELSE <<>>
Sent(O) == IF rsAt = "done" THEN O \o Leftover ELSE O
Ended ==
  /\ got.calls = IF setup.chat THEN tool.calls ELSE <<>>
  /\ tool.calls # <<>> => got.finish = "tool_calls"
Seen(R, O) ==
  /\ got.reason = Shown(R) /\ got.content = Sent(O)
  /\ rsAt = "done" => Ended
Matches(x, R, C, O) ==
  /\ raw = x \o buf /\ Valid(x) /\ (Valid(buf) => buf = <<>>)
  /\ Split(setup, x, R, C, think.buf, think.phase)
  /\ Answers(tool.buf, tool.calls, O, C) /\ ~HasBlock(tool.buf) /\ Held(tool.buf)
  /\ reader = "reading" => Seen(R, O)
ReplyInv ==
  /\ ReplyTypeOK /\ Typed
  /\ Live => \E x, R, C, O \in Text : Matches(x, R, C, O)

\* What is generated is a text.
LEMMA PiecesAre == ASSUME NEW p \in Pieces PROVE p \in Text
BY TextsAreBytes DEF Text

\* The phases of a split.
LEMMA PhaseIs ==
  ASSUME NEW u, NEW x, NEW R, NEW C, NEW b, NEW ph, Split(u, x, R, C, b, ph)
  PROVE  ph \in {0, 1, 2}
BY DEF Split, Kept, Waits, Reasons, Closes, Unopened

\* The frame a callback writes.
Framed(g, r, c, h) == h \in Frames /\ h.reason = g.reason \o r /\ h.content = g.content \o c
\* Its fields.
LEMMA FrameIs ==
  ASSUME NEW g, NEW r, NEW c, NEW h, g \in Frames, r \in Text, c \in Text,
         h = [g EXCEPT !.reason = @ \o r, !.content = @ \o c]
  PROVE  Framed(g, r, c, h)
<1>1. PICK a, b, l, f : a = g.reason /\ b = g.content /\ l = g.calls /\ f = g.finish
  OBVIOUS
<1>2. /\ a \in Text /\ b \in Text /\ l \in Seq(Text)
      /\ f \in Ends
      /\ g = [reason |-> a, content |-> b, calls |-> l, finish |-> f]
  BY <1>1, Zenon DEF Frames
<1>3. PICK v, w : v = a \o r /\ w = b \o c
  OBVIOUS
<1>4. v \in Text /\ w \in Text
  <2>1. r \in Text /\ c \in Text /\ a \in Text /\ b \in Text
    BY <1>2
  <2>2. QED BY ONLY <1>3, <2>1, Joined
<1>5. h = [reason |-> v, content |-> w, calls |-> l, finish |-> f]
  <2>1. h = [g EXCEPT !.reason = v, !.content = w]
    BY <1>1, <1>3
  <2>2. QED BY <1>2, <2>1
<1>6. h \in Frames
  BY ONLY <1>2, <1>4, <1>5 DEF Frames
<1>7. h.reason = v /\ h.content = w
  BY ONLY <1>5
<1>8. QED BY <1>1, <1>3, <1>6, <1>7 DEF Framed

\* The last frame.
LastFrame(g, c, l, f, h) ==
  /\ h \in Frames /\ h.reason = g.reason /\ h.content = g.content \o c
  /\ h.calls = l /\ h.finish = f
\* Its fields, and the calls and the finish reason in it.
LEMMA LastIs ==
  ASSUME NEW g, NEW c, NEW l, NEW f, NEW h, g \in Frames, c \in Text, l \in Seq(Text), f \in Ends,
         h = [g EXCEPT !.content = @ \o c, !.calls = l, !.finish = f]
  PROVE  LastFrame(g, c, l, f, h)
<1>1. PICK a, b, l1, f1 : a = g.reason /\ b = g.content /\ l1 = g.calls /\ f1 = g.finish
  OBVIOUS
<1>2. /\ a \in Text /\ b \in Text
      /\ g = [reason |-> a, content |-> b, calls |-> l1, finish |-> f1]
  BY <1>1, Zenon DEF Frames
<1>3. PICK w : w = b \o c
  OBVIOUS
<1>4. w \in Text
  <2>1. c \in Text /\ b \in Text
    BY <1>2
  <2>2. QED BY ONLY <1>3, <2>1, Joined
<1>5. h = [reason |-> a, content |-> w, calls |-> l, finish |-> f]
  <2>1. h = [g EXCEPT !.content = w, !.calls = l, !.finish = f]
    BY <1>1, <1>3
  <2>2. QED BY <1>2, <2>1
<1>6. h \in Frames
  <2>1. a \in Text /\ w \in Text /\ l \in Seq(Text) /\ f \in Ends
    BY <1>2, <1>4
  <2>2. QED BY ONLY <1>5, <2>1 DEF Frames
<1>7. h.reason = a /\ h.content = w /\ h.calls = l /\ h.finish = f
  BY ONLY <1>5
<1>8. QED BY <1>1, <1>3, <1>6, <1>7 DEF LastFrame

\* Where a reply starts.
LEMMA RepliesStart == ASSUME RsInit PROVE ReplyInv
<1>1. PICK e : e = <<>>
  OBVIOUS
<1>2. e \in Text /\ Len(e) = 0 /\ e \o e = e /\ e \in Seq(Text)
  BY <1>1, NoText
<1>3. /\ setup \in Setups /\ rsAt = "run" /\ raw = e /\ taken = 0 /\ buf = e /\ think = NewThink
      /\ tool = NewTool /\ reader = "reading"
      /\ got = [reason |-> e, content |-> e, calls |-> e, finish |-> "none"]
  BY <1>1, Zenon DEF RsInit
<1>4. tool.buf = e /\ tool.calls = e
  BY <1>1, <1>3 DEF NewTool
<1>5. think.buf = e /\ Split(setup, e, e, e, think.buf, think.phase)
  BY <1>1, <1>3, StartSplit, Zenon
<1>6. got.reason = e /\ got.content = e /\ got \in Frames
  <2>1. got.reason = e /\ got.content = e
    BY ONLY <1>3
  <2>2. got \in Frames
    BY ONLY <1>2, <1>3 DEF Frames, Ends
  <2>3. QED BY <2>1, <2>2
<1>7. ReplyTypeOK
  <2>1. think.phase \in {0, 1, 2}
    BY <1>5, PhaseIs
  <2>2. taken \in 0..MaxReply
    BY <1>3, ReplyStreamAssumption
  <2>3. QED BY <1>3, <2>1, <2>2 DEF ReplyTypeOK
<1>8. Typed
  BY ONLY <1>2, <1>3, <1>4, <1>5, <1>6 DEF Typed
<1>9. Valid(e)
  BY <1>2 DEF Valid
<1>10. Answers(e, e, e, e)
  <2>1. SUFFICES ASSUME NEW z \in Text PROVE Told(Filled(e \o z, e, e)) = Told(Whole(e \o z))
    BY DEF Answers
  <2>2. Filled(e \o z, e, e) = Whole(e \o z)
    BY <1>1, Zenon DEF Filled, Whole, Calm
  <2>3. QED BY <2>2
<1>11. Len(ToolOpen) \in Nat /\ Len(ToolOpen) >= 1 /\ ToolOpen \in Text
  BY FourTags, TagsAre
<1>12. ~HasBlock(e) /\ Held(e)
  <2>1. ~Has(e, ToolOpen)
    <3>1. ASSUME NEW i \in Nat, At(e, ToolOpen, i) PROVE FALSE
      BY <1>2, <1>11, <3>1 DEF At
    <3>2. QED BY <1>2, <1>11, <3>1, HasIs
  <2>2. QED BY <1>2, <1>11, <2>1 DEF HasBlock, Held
<1>13. Seen(e, e)
  BY <1>1, <1>3, <1>6, Zenon DEF Seen, Shown, Sent
<1>14. Matches(e, e, e, e)
  BY <1>1, <1>2, <1>3, <1>4, <1>5, <1>9, <1>10, <1>12, <1>13, Zenon DEF Matches
<1>15. QED BY <1>2, <1>7, <1>8, <1>14, Zenon DEF ReplyInv

\* The reader leaves.
LEMMA LeavingKeeps == ASSUME ReplyInv, ReaderLeaves PROVE ReplyInv'
<1>1. /\ reader' = "gone" /\ reader' # "reading" /\ reader' # "failed"
      /\ UNCHANGED <<setup, rsAt, raw, taken, buf, think, tool, got>>
  BY DEF ReaderLeaves
<1>2. ReplyTypeOK'
  BY <1>1 DEF ReplyInv, ReplyTypeOK
<1>3. Typed'
  BY <1>1 DEF ReplyInv, Typed
<1>4. ASSUME Live' PROVE \E x, R, C, O \in Text : Matches(x, R, C, O)'
  <2>1. Live
    BY <1>1, <1>4 DEF Live
  <2>2. PICK x, R, C, O \in Text : Matches(x, R, C, O)
    BY <2>1 DEF ReplyInv
  <2>3. Matches(x, R, C, O)'
    BY <1>1, <2>2, Zenon DEF Matches
  <2>4. QED BY <2>3
<1>5. QED BY <1>2, <1>3, <1>4, Zenon DEF ReplyInv

\* What a callback does: the bytes at hand s, of which y are taken and d kept.
Steps(s, n, d, th, tl) ==
  \/ n = 0 /\ buf' = s /\ UNCHANGED <<rsAt, think, tool, reader, got>>
  \/ /\ n # 0 /\ (th.panic \/ tl.panic)
     /\ rsAt' = "panicked" /\ UNCHANGED <<buf, think, tool, reader, got>>
  \/ /\ n # 0 /\ ~th.panic /\ ~tl.panic /\ buf' = d
     /\ think' = [buf |-> th.buf, phase |-> th.phase]
     /\ tool' = [buf |-> tl.buf, calls |-> tl.calls]
     /\ Written(Shown(th.reason), tl.out)
\* A callback is one of the three.
LEMMA CallbackIs ==
  ASSUME NEW p, Callback(p)
  PROVE  /\ rsAt = "run" /\ taken < MaxReply /\ raw' = raw \o p /\ taken' = taken + 1 /\ setup' = setup
         /\ \E s, n, y, d, th, tl :
              /\ s = buf \o p /\ n = ValidUpTo(s) /\ y = Upto(s, n) /\ d = Drop(s, n)
              /\ th = ThinkFeed(think, Lossy(y))
              /\ tl = ToolFeed(Filled(tool.buf \o th.content, tool.calls, <<>>))
              /\ Steps(s, n, d, th, tl)
<1>1. PICK s, n, y, d : s = buf \o p /\ n = ValidUpTo(s) /\ y = Upto(s, n) /\ d = Drop(s, n)
  OBVIOUS
<1>2. PICK th : th = ThinkFeed(think, Lossy(y))
  OBVIOUS
<1>3. PICK tl : tl = ToolFeed(Filled(tool.buf \o th.content, tool.calls, <<>>))
  OBVIOUS
<1>4. Steps(s, n, d, th, tl)
  BY <1>1, <1>2, <1>3, Zenon DEF Callback, Steps, Filled, Calm, Taken, Shown
<1>5. rsAt = "run" /\ taken < MaxReply /\ raw' = raw \o p /\ taken' = taken + 1 /\ setup' = setup
  BY DEF Callback
<1>6. QED BY <1>1, <1>2, <1>3, <1>4, <1>5, Zenon

\* What the writes of a callback leave: the reader as it was, or known to be gone.
LEMMA WritesLeave ==
  ASSUME NEW r, NEW o, Written(r, o)
  PROVE  /\ got' = IF reader = "reading" THEN [got EXCEPT !.reason = @ \o r, !.content = @ \o o] ELSE got
         /\ reader' \in {reader, "failed"} /\ rsAt' \in {"run", "flush"}
         /\ ~WritesRecover /\ reader # "failed" => (rsAt' = "run" => reader' # "failed")
<1>1. PICK first \in Chunk(r, [reader |-> reader, ok |-> TRUE]) :
        \E last \in Chunk(o, first) : reader' = last.reader /\ rsAt' = Continue(last)
  BY DEF Written
<1>6. PICK last \in Chunk(o, first) : reader' = last.reader /\ rsAt' = Continue(last)
  BY <1>1
<1> DEFINE Sane(w) == /\ w.reader \in {reader, "failed"}
                      /\ ~WritesRecover /\ reader # "failed" => (w.ok => w.reader # "failed")
<1>2. \A w \in Sends(reader) \cup Sends("failed") : Sane(w)
  BY DEF Sends
<1>3. Sane(first) /\ (first.reader = reader \/ first.reader = "failed")
  BY <1>1, <1>2 DEF Chunk
<1>4. Sane(last)
  BY <1>2, <1>3, <1>6 DEF Chunk
<1>5. QED BY <1>4, <1>6 DEF Written, Continue

\* A callback that takes characters.
LEMMA TakingKeeps ==
  ASSUME ReplyInv, rsAt = "run", NEW p \in Text, raw' = raw \o p, setup' = setup,
         NEW s, NEW n, NEW y, NEW d, NEW th, NEW tl,
         s = buf \o p, n = ValidUpTo(s), y = Upto(s, n), d = Drop(s, n),
         th = ThinkFeed(think, Lossy(y)),
         tl = ToolFeed(Filled(tool.buf \o th.content, tool.calls, <<>>)),
         ~th.panic, ~tl.panic, buf' = d, think'.buf = th.buf, think'.phase = th.phase,
         tool'.buf = tl.buf, tool'.calls = tl.calls,
         Written(Shown(th.reason), tl.out)
  PROVE  /\ Typed' /\ rsAt' \in {"run", "flush"} /\ think'.phase \in {0, 1, 2}
         /\ reader' \in {"reading", "gone", "failed"}
         /\ \E x, R, C, O \in Text : Matches(x, R, C, O)'
<1>1. PICK x, R, C, O \in Text : Matches(x, R, C, O)
  BY DEF ReplyInv, Live
<1>2. buf \in Text /\ think.buf \in Text /\ tool.buf \in Text /\ tool.calls \in Seq(Text) /\ got \in Frames
  BY DEF ReplyInv, Typed
<1>3. /\ y \in Text /\ d \in Text /\ Lossy(y) = y /\ Valid(x \o y) /\ (Valid(d) => d = <<>>)
      /\ (x \o buf) \o p = (x \o y) \o d
  <2>1. Valid(x)
    BY <1>1 DEF Matches
  <2>2. s = buf \o p /\ n = ValidUpTo(s) /\ y = Upto(s, n) /\ d = Drop(s, n)
    OBVIOUS
  <2>3. buf \in Text /\ p \in Text /\ x \in Text
    BY <1>2
  <2>4. PICK b : b = buf
    OBVIOUS
  <2>5. b \in Text /\ s = b \o p
    BY <2>2, <2>3, <2>4
  <2>6. /\ y \in Text /\ d \in Text /\ Lossy(y) = y /\ Valid(x \o y) /\ (Valid(d) => d = <<>>)
        /\ (x \o b) \o p = (x \o y) \o d
    <3>1. s = b \o p /\ n = ValidUpTo(s) /\ y = Upto(s, n) /\ d = Drop(s, n)
      BY <2>2, <2>5
    <3>2. b \in Text /\ p \in Text /\ x \in Text
      BY <2>3, <2>5
    <3>3. Takes(x, b, p, s, n, y, d)
      BY ONLY <2>1, <3>1, <3>2, TakeIs, Zenon
    <3>4. QED BY ONLY <3>3 DEF Takes
  <2>7. QED BY ONLY <2>4, <2>6
<1>4. /\ th.buf \in Text /\ th.reason \in Text /\ th.content \in Text
      /\ Split(setup, x \o y, R \o th.reason, C \o th.content, th.buf, th.phase)
  <2>1. Split(setup, x, R, C, think.buf, think.phase)
    BY <1>1 DEF Matches
  <2>2. th = ThinkFeed(think, y)
    BY <1>3
  <2>3. Next1(setup, x \o y, R, C, th)
    BY <1>2, <1>3, <2>1, <2>2, ThinkStep
  <2>4. QED BY <2>3 DEF Next1
<1>5. /\ tl.buf \in Text /\ tl.calls \in Seq(Text) /\ tl.out \in Text
      /\ ~HasBlock(tl.buf) /\ Held(tl.buf)
      /\ Answers(tl.buf, tl.calls, O \o tl.out, C \o th.content)
  <2>1. Answers(tool.buf, tool.calls, O, C)
    BY <1>1 DEF Matches
  <2>2. QED BY <1>2, <1>4, <2>1, FeedStep
<1>6. PICK x1, R1, C1, O1 : x1 = x \o y /\ R1 = R \o th.reason /\ C1 = C \o th.content /\ O1 = O \o tl.out
  OBVIOUS
<1>7. x1 \in Text /\ R1 \in Text /\ C1 \in Text /\ O1 \in Text
  <2>1. x \in Text /\ y \in Text /\ R \in Text /\ C \in Text /\ O \in Text
    BY <1>3
  <2>2. th.reason \in Text /\ th.content \in Text /\ tl.out \in Text
    BY <1>4, <1>5
  <2>3. x1 \in Text
    BY ONLY <1>6, <2>1, Joined
  <2>4. R1 \in Text
    BY ONLY <1>6, <2>1, <2>2, Joined
  <2>5. C1 \in Text
    BY ONLY <1>6, <2>1, <2>2, Joined
  <2>6. O1 \in Text
    BY ONLY <1>6, <2>1, <2>2, Joined
  <2>7. QED BY <2>3, <2>4, <2>5, <2>6
<1>8. PICK r, o : r = Shown(th.reason) /\ o = tl.out
  OBVIOUS
<1>9. r \in Text /\ o \in Text
  BY <1>4, <1>5, <1>8, NoText DEF Shown
<1>10. /\ got' = IF reader = "reading" THEN [got EXCEPT !.reason = @ \o r, !.content = @ \o o] ELSE got
       /\ reader' \in {reader, "failed"} /\ rsAt' \in {"run", "flush"}
  <2>1. Written(r, o)
    BY <1>8, Zenon
  <2>2. QED BY ONLY <2>1, WritesLeave
<1>11. got' \in Frames
  <2>1. [got EXCEPT !.reason = @ \o r, !.content = @ \o o] \in Frames
    <3>1. PICK g, h : g = got /\ h = [got EXCEPT !.reason = @ \o r, !.content = @ \o o]
      OBVIOUS
    <3>2. g \in Frames /\ h = [g EXCEPT !.reason = @ \o r, !.content = @ \o o]
      BY <1>2, <3>1
    <3>3. Framed(g, r, o, h)
      BY ONLY <1>9, <3>2, FrameIs, Zenon
    <3>4. QED BY <3>1, <3>3, Zenon DEF Framed
  <2>2. QED BY <1>2, <1>10, <2>1
<1>12. rsAt' \in {"run", "flush"}
  BY <1>10
<1>13. reader' \in {"reading", "gone", "failed"}
  BY <1>10 DEF ReplyInv, ReplyTypeOK
<1>14. th.phase \in {0, 1, 2}
  BY <1>4, PhaseIs
<1>15. Typed'
  BY <1>3, <1>4, <1>5, <1>11, <1>12, Zenon DEF Typed
<1>16. ASSUME reader' = "reading" PROVE Seen(R1, O1)'
  <2>1. reader = "reading" /\ Seen(R, O)
    BY <1>1, <1>10, <1>16 DEF Matches
  <2>2. got.reason = Shown(R) /\ got.content = O
    BY <2>1 DEF Seen, Sent
  <2>3. got'.reason = got.reason \o r /\ got'.content = got.content \o o
    <3>1. got' = [got EXCEPT !.reason = @ \o r, !.content = @ \o o]
      BY <1>10, <2>1
    <3>2. PICK g, h : g = got /\ h = got'
      OBVIOUS
    <3>3. h = [g EXCEPT !.reason = @ \o r, !.content = @ \o o]
      BY ONLY <3>1, <3>2
    <3>4. g \in Frames
      BY <1>2, <3>2
    <3>5. h.reason = g.reason \o r /\ h.content = g.content \o o
      <4>1. Framed(g, r, o, h)
        BY ONLY <1>9, <3>3, <3>4, FrameIs, Zenon
      <4>2. QED BY ONLY <4>1 DEF Framed
    <3>6. QED BY <3>2, <3>5
  <2>4. got'.content = O1
    BY <1>6, <1>8, <2>2, <2>3, Zenon
  <2>5. got'.reason = IF setup.chat THEN R1 ELSE <<>>
    <3>1. CASE setup.chat
      BY <1>6, <1>8, <2>2, <2>3, <3>1, Zenon DEF Shown
    <3>2. CASE ~setup.chat
      <4>1. <<>> \o <<>> = <<>>
        BY NoText
      <4>2. Shown(R) = <<>> /\ r = <<>>
        BY <1>8, <3>2 DEF Shown
      <4>3. got'.reason = <<>>
        BY ONLY <2>2, <2>3, <4>1, <4>2
      <4>4. QED BY <3>2, <4>3
    <3>3. QED BY <3>1, <3>2
  <2>6. got'.reason = Shown(R1)'
    BY <2>5, Zenon DEF Shown
  <2>7. rsAt' # "done"
    BY <1>12
  <2>8. QED BY <2>4, <2>6, <2>7 DEF Seen, Sent
<1>17. raw' = x1 \o d
  <2>1. raw = x \o buf
    BY <1>1 DEF Matches
  <2>2. QED BY <1>3, <1>6, <2>1, Zenon
<1>18. Split(setup, x1, R1, C1, th.buf, th.phase) /\ Answers(tl.buf, tl.calls, O1, C1) /\ Valid(x1)
  BY <1>3, <1>4, <1>5, <1>6, Zenon
<1>19. Matches(x1, R1, C1, O1)'
  BY <1>3, <1>5, <1>16, <1>17, <1>18, Zenon DEF Matches
<1>20. QED BY <1>7, <1>12, <1>13, <1>14, <1>15, <1>19, Zenon

\* A callback that only collects bytes of a character.
LEMMA CollectingKeeps ==
  ASSUME ReplyInv, rsAt = "run", NEW p \in Text, raw' = raw \o p, setup' = setup,
         NEW s, s = buf \o p, ValidUpTo(s) = 0, buf' = s,
         UNCHANGED <<rsAt, think, tool, reader, got>>
  PROVE  Typed' /\ \E x, R, C, O \in Text : Matches(x, R, C, O)'
<1>1. PICK x, R, C, O \in Text : Matches(x, R, C, O)
  BY DEF ReplyInv, Live
<1>2. PICK b, n, y, d : b = buf /\ n = ValidUpTo(s) /\ y = Upto(s, n) /\ d = Drop(s, n)
  OBVIOUS
<1>3. x \in Text /\ b \in Text /\ p \in Text /\ s = b \o p /\ Valid(x) /\ raw = x \o b /\ n = 0
  BY <1>1, <1>2 DEF ReplyInv, Typed, Matches
<1>4. Takes(x, b, p, s, n, y, d)
  BY ONLY <1>2, <1>3, TakeIs, Zenon
<1>5. d = s /\ x \o y = x /\ d \in Text /\ (Valid(d) => d = <<>>) /\ (x \o b) \o p = (x \o y) \o d
  BY ONLY <1>3, <1>4 DEF Takes
<1>6. s \in Text /\ (Valid(s) => s = <<>>) /\ (x \o b) \o p = x \o s
  BY ONLY <1>5
<1>7. raw' = x \o s
  BY <1>3, <1>6, Zenon
<1>8. Typed'
  BY <1>6 DEF ReplyInv, Typed
<1>9. Matches(x, R, C, O)'
  BY <1>1, <1>6, <1>7, Zenon DEF Matches, Seen, Shown, Sent, Leftover, Ended
<1>10. QED BY <1>8, <1>9, Zenon

\* A callback keeps the invariant.
LEMMA CallingKeeps == ASSUME ReplyInv, NEW p \in Pieces, Callback(p) PROVE ReplyInv'
<1>1. /\ rsAt = "run" /\ taken < MaxReply /\ raw' = raw \o p /\ taken' = taken + 1 /\ setup' = setup
      /\ p \in Text
  BY CallbackIs, PiecesAre
<1>2. PICK s, n, y, d, th, tl :
        /\ s = buf \o p /\ n = ValidUpTo(s) /\ y = Upto(s, n) /\ d = Drop(s, n)
        /\ th = ThinkFeed(think, Lossy(y))
        /\ tl = ToolFeed(Filled(tool.buf \o th.content, tool.calls, <<>>))
        /\ Steps(s, n, d, th, tl)
  BY CallbackIs, Zenon
<1>3. setup' \in Setups /\ taken' \in 0..MaxReply
  BY <1>1, ReplyStreamAssumption DEF ReplyInv, ReplyTypeOK
<1>4. CASE n = 0 /\ buf' = s /\ UNCHANGED <<rsAt, think, tool, reader, got>>
  <2>1. Typed' /\ \E x, R, C, O \in Text : Matches(x, R, C, O)'
    BY <1>1, <1>2, <1>4, CollectingKeeps
  <2>2. ReplyTypeOK'
    BY <1>3, <1>4 DEF ReplyInv, ReplyTypeOK
  <2>3. QED BY <2>1, <2>2, Zenon DEF ReplyInv
<1>5. CASE rsAt' = "panicked" /\ UNCHANGED <<buf, think, tool, reader, got>>
  <2>1. Typed'
    BY <1>5 DEF ReplyInv, Typed
  <2>2. ReplyTypeOK'
    BY <1>3, <1>5 DEF ReplyInv, ReplyTypeOK
  <2>3. ~Live'
    BY <1>5 DEF Live
  <2>4. QED BY <2>1, <2>2, <2>3, Zenon DEF ReplyInv
<1>6. CASE /\ n # 0 /\ ~th.panic /\ ~tl.panic /\ buf' = d
           /\ think' = [buf |-> th.buf, phase |-> th.phase]
           /\ tool' = [buf |-> tl.buf, calls |-> tl.calls]
           /\ Written(Shown(th.reason), tl.out)
  <2>1. /\ think'.buf = th.buf /\ think'.phase = th.phase
        /\ tool'.buf = tl.buf /\ tool'.calls = tl.calls
    BY <1>6
  <2>2. /\ Typed' /\ rsAt' \in {"run", "flush"} /\ think'.phase \in {0, 1, 2}
        /\ reader' \in {"reading", "gone", "failed"}
        /\ \E x, R, C, O \in Text : Matches(x, R, C, O)'
    BY <1>1, <1>2, <1>6, <2>1, TakingKeeps, Zenon
  <2>3. ReplyTypeOK'
    BY <1>3, <2>2 DEF ReplyTypeOK
  <2>4. QED BY <2>2, <2>3, Zenon DEF ReplyInv
<1>7. QED BY <1>2, <1>4, <1>5, <1>6, Zenon DEF Steps

\* The tails are texts.
LEMMA LeftoverIs == ASSUME Typed PROVE Leftover \in Text /\ ThinkFlush(think).content \in Text
<1>1. think.buf \in Text /\ tool.buf \in Text /\ <<>> \in Text
  BY NoText DEF Typed
<1>2. ThinkFlush(think).content \in Text
  BY <1>1 DEF ThinkFlush
<1>3. QED BY <1>1, <1>2, Joined DEF Leftover

\* The last frame keeps it.
LEMMA FinishingKeeps ==
  ASSUME ReplyInv, NEW end \in {"stop", "length", "error"}, Finish(end)
  PROVE  ReplyInv'
<1>1. /\ rsAt \in {"run", "flush"} /\ rsAt' = IF end = "error" THEN "error" ELSE "done"
      /\ UNCHANGED <<setup, raw, taken, buf, think, tool, reader>>
  BY DEF Finish
<1>2. PICK c, l, f : /\ c = Leftover /\ l = (IF setup.chat THEN tool.calls ELSE <<>>)
                     /\ f = (IF tool.calls # <<>> THEN "tool_calls" ELSE end)
  OBVIOUS
<1>3. c \in Text /\ l \in Seq(Text) /\ f \in Ends
  <2>1. c \in Text
    BY <1>2, LeftoverIs DEF ReplyInv
  <2>2. l \in Seq(Text)
    BY <1>2 DEF ReplyInv, Typed
  <2>3. f \in Ends
    <3>1. f = "tool_calls" \/ f = end
      BY <1>2, Zenon
    <3>2. QED BY <3>1 DEF Ends
  <2>4. QED BY <2>1, <2>2, <2>3
<1>4. got' = IF reader = "reading" THEN [got EXCEPT !.content = @ \o c, !.calls = l, !.finish = f] ELSE got
  BY <1>2, Zenon DEF Finish
<1>5. PICK g, h : g = got /\ h = [g EXCEPT !.content = @ \o c, !.calls = l, !.finish = f]
  OBVIOUS
<1>6. g \in Frames
  BY <1>5 DEF ReplyInv, Typed
<1>7. LastFrame(g, c, l, f, h)
  BY ONLY <1>3, <1>5, <1>6, LastIs, Zenon
<1>8. got' = IF reader = "reading" THEN h ELSE g
  BY ONLY <1>4, <1>5
<1>9. got' \in Frames
  BY <1>6, <1>7, <1>8 DEF LastFrame
<1>10. ReplyTypeOK'
  BY <1>1 DEF ReplyInv, ReplyTypeOK
<1>11. Typed'
  BY <1>1, <1>9 DEF ReplyInv, Typed
<1>12. ASSUME Live' PROVE \E x, R, C, O \in Text : Matches(x, R, C, O)'
  <2>1. rsAt' = "done" /\ rsAt # "done" /\ Live
    BY <1>1, <1>12 DEF Live
  <2>2. PICK x, R, C, O \in Text : Matches(x, R, C, O)
    BY <2>1 DEF ReplyInv
  <2>3. ASSUME reader' = "reading" PROVE Seen(R, O)'
    <3>1. Seen(R, O) /\ got' = h
      BY <1>1, <1>8, <2>2, <2>3 DEF Matches
    <3>2. h.reason = Shown(R) /\ h.content = O \o c /\ h.calls = l /\ h.finish = f
      BY <1>5, <1>7, <2>1, <3>1 DEF Seen, Sent, LastFrame
    <3>3. Shown(R)' = Shown(R) /\ Leftover' = c
      BY <1>1, <1>2, Zenon DEF Shown, Leftover, ThinkFlush
    <3>4. Sent(O)' = O \o c
      BY <2>1, <3>3, Zenon DEF Sent
    <3>5. Ended'
      BY <1>1, <1>2, <3>1, <3>2, Zenon DEF Ended
    <3>6. QED BY <3>1, <3>2, <3>3, <3>4, <3>5, Zenon DEF Seen
  <2>4. Matches(x, R, C, O)'
    BY <1>1, <2>2, <2>3, Zenon DEF Matches
  <2>5. QED BY <2>4
<1>13. QED BY <1>10, <1>11, <1>12, Zenon DEF ReplyInv

\* Every step keeps it.
LEMMA RepliesKeep == ASSUME ReplyInv, [RsNext]_rsVars PROVE ReplyInv'
<1>1. CASE UNCHANGED rsVars
  <2>1. UNCHANGED <<setup, rsAt, raw, taken, buf, think, tool, reader, got>>
    BY <1>1 DEF rsVars
  <2>2. ReplyTypeOK' /\ Typed' /\ (Live' <=> Live)
    BY <2>1 DEF ReplyInv, ReplyTypeOK, Typed, Live
  <2>3. ASSUME Live' PROVE \E x, R, C, O \in Text : Matches(x, R, C, O)'
    <3>1. PICK x, R, C, O \in Text : Matches(x, R, C, O)
      BY <2>2, <2>3 DEF ReplyInv
    <3>2. Matches(x, R, C, O)'
      BY <2>1, <3>1, Zenon DEF Matches, Seen, Shown, Sent, Leftover, ThinkFlush, Ended
    <3>3. QED BY <3>2
  <2>4. QED BY <2>2, <2>3, Zenon DEF ReplyInv
<1>2. CASE RsNext
  <2>1. CASE \E p \in Pieces : Callback(p)
    <3>1. PICK p \in Pieces : Callback(p)
      BY <2>1
    <3>2. QED BY <3>1, CallingKeeps, Zenon
  <2>2. CASE ReaderLeaves
    BY <2>2, LeavingKeeps
  <2>3. CASE \E end \in {"stop", "length", "error"} : Finish(end)
    BY <2>3, FinishingKeeps
  <2>4. QED BY <1>2, <2>1, <2>2, <2>3 DEF RsNext
<1>3. QED BY <1>1, <1>2

\* What is held back is the start of a tag or an open tool block.
LEMMA OnlyTagsHeld == ASSUME ReplyInv PROVE HeldIsATag
<1>1. SUFFICES ASSUME rsAt = "run"
               PROVE  /\ CASE think.phase = 0 -> Starts(Bare, TrimStart(think.buf, Blank))
                           [] think.phase = 1 -> Len(think.buf) < Len(ThinkClose)
                           [] think.phase = 2 -> think.buf = <<>>
                      /\ Len(tool.buf) < Len(ToolOpen) \/ Starts(tool.buf, ToolOpen)
  BY DEF HeldIsATag
<1>2. PICK x, R, C, O \in Text : Matches(x, R, C, O)
  BY <1>1 DEF ReplyInv, Live
<1>3. Held(tool.buf) /\ Split(setup, x, R, C, think.buf, think.phase)
  BY <1>2 DEF Matches
<1>4. PICK b, ph : b = think.buf /\ ph = think.phase
  OBVIOUS
<1>5. Split(setup, x, R, C, b, ph)
  BY <1>3, <1>4, Zenon
<1>6. ph \in {0, 1, 2}
  BY <1>5, PhaseIs
<1>7. ASSUME ph = 0 PROVE Starts(Bare, TrimStart(b, Blank))
  <2>1. Waits(setup, x, R, C, b, ph)
    BY <1>5, <1>7 DEF Split, Kept, Reasons, Closes, Unopened
  <2>2. b = x /\ MayOpen(x)
    BY <2>1 DEF Waits
  <2>3. QED BY <2>2, Zenon DEF MayOpen, T0
<1>8. ASSUME ph = 1 PROVE Len(b) < Len(ThinkClose)
  <2>1. Reasons(setup, x, R, C, b, ph)
    BY <1>5, <1>8 DEF Split, Kept, Waits, Closes, Unopened
  <2>2. QED BY <2>1 DEF Reasons
<1>9. ASSUME ph = 2 PROVE b = <<>>
  BY <1>5, <1>9 DEF Split, Kept, Waits, Reasons, Closes, Unopened
<1>10. /\ think.phase \in {0, 1, 2}
       /\ think.phase = 0 => Starts(Bare, TrimStart(think.buf, Blank))
       /\ think.phase = 1 => Len(think.buf) < Len(ThinkClose)
       /\ think.phase = 2 => think.buf = <<>>
  BY ONLY <1>4, <1>6, <1>7, <1>8, <1>9
<1>11. Len(tool.buf) < Len(ToolOpen) \/ Starts(tool.buf, ToolOpen)
  BY <1>3 DEF Held
<1>12. QED BY ONLY <1>10, <1>11

-----------------------------------------------------------------------------
\* What a filter without a complete block answers.
LEMMA NoBlocksLeft ==
  ASSUME NEW b \in Text, NEW l \in Seq(Text), NEW o \in Text, ~HasBlock(b)
  PROVE  /\ Told(Filled(b, l, o)).content = o \o Before(b)
         /\ Told(Filled(b, l, o)).calls = l
         /\ Told(Filled(b, l, o)).open = Has(b, ToolOpen)
<1>1. PICK s : s = Filled(b, l, o)
  OBVIOUS
<1>2. s \in Filter /\ s.buf = b /\ s.out = o /\ s.calls = l
  <2>1. Filled(b, l, o) \in Filter
    BY FilledIs
  <2>2. Filled(b, l, o).buf = b /\ Filled(b, l, o).out = o /\ Filled(b, l, o).calls = l
    BY FilledIs
  <2>3. QED BY <1>1, <2>1, <2>2, Zenon
<1>3. TakeBlocks(s) = s
  BY <1>2, TakesRound
<1>4. /\ Told(s).content = s.out \o Before(s.buf) /\ Told(s).calls = s.calls
      /\ Told(s).open = Has(s.buf, ToolOpen)
  BY <1>3 DEF Told
<1>5. QED BY <1>1, <1>2, <1>4, Zenon

\* A reply that may still become a tag has no tool tag.
LEMMA NoToolYet == ASSUME NEW x \in Text, MayOpen(x) PROVE ~Has(x, ToolOpen)
<1>1. PICK p, t \in Text : x = p \o t /\ All(p, Blank) /\ T0(x) = t
  BY TrimStartIs DEF T0
<1>2. ToolOpen \in Tags /\ ToolOpen \in Text
  BY FourTags, TagsAre
<1>3. Apart(p, t, ToolOpen)
  BY <1>1, <1>2, BlankApart
<1>4. Has(p \o t, ToolOpen) <=> Has(t, ToolOpen)
  <2>1. \A j \in 0..(Len(p) - 1) : ~At(p \o t, ToolOpen, j)
    BY <1>3 DEF Apart
  <2>2. QED BY <1>2, <2>1, FirstBehind
<1>5. ~Has(t, ToolOpen)
  <2>1. Starts(Bare, t) /\ Bare \in Text /\ Len(t) \in Nat
    BY <1>1, BareIs DEF MayOpen, Text
  <2>2. Len(t) \in 0..Len(Bare) /\ Upto(Bare, Len(t)) = t
    BY <2>1, BareIs DEF Starts
  <2>3. PICK r : r = Drop(Bare, Len(t))
    OBVIOUS
  <2>4. r \in Text /\ Bare = t \o r
    <3>1. r \in Text
      BY <2>1, <2>2, <2>3, CutsAre
    <3>2. Upto(Bare, Len(t)) \o r = Bare
      BY <2>1, <2>2, <2>3, JoinCuts
    <3>3. QED BY <2>2, <3>1, <3>2
  <2>5. ASSUME NEW i \in Nat, At(t, ToolOpen, i) PROVE FALSE
    <3>1. At(t \o r, ToolOpen, i)
      BY <1>2, <2>4, <2>5, AtMore
    <3>2. Has(Bare, ToolOpen)
      BY <1>2, <2>1, <2>4, <3>1, HasIs
    <3>3. QED BY <3>2, TagsAreApart, Zenon
  <2>6. QED BY <1>2, <2>5, HasIs
<1>6. QED BY <1>1, <1>4, <1>5

\* Texts that differ in newlines in front answer the same.
LEMMA CloseTrims ==
  ASSUME NEW r \in Text, NEW q \in Text, Close(r, q)
  PROVE  Trim(r) = Trim(q)
<1>1. PICK w \in Text : After(r, w) /\ After(q, w)
  BY DEF Close
<1>2. Trim(w) = Trim(r)
  BY <1>1, AfterTrims
<1>3. Trim(w) = Trim(q)
  BY <1>1, AfterTrims
<1>4. QED BY <1>2, <1>3, Zenon

\* And have the same calls.
Alike(a, b) ==
  a.calls = b.calls /\ a.open = b.open /\ Trim(a.content) = Trim(b.content)
\* So are the answers to texts that differ in newlines in front.
LEMMA CloseAnswers ==
  ASSUME NEW r \in Text, NEW q \in Text, Close(r, q)
  PROVE  Alike(Told(Whole(r)), Told(Whole(q)))
<1>1. PICK w \in Text : After(r, w) /\ After(q, w)
  BY DEF Close
<1>2. /\ Told(Whole(w)).calls = Told(Whole(r)).calls
      /\ Told(Whole(w)).open = Told(Whole(r)).open
      /\ Trim(Told(Whole(w)).content) = Trim(Told(Whole(r)).content)
  BY <1>1, AfterAnswers
<1>3. /\ Told(Whole(w)).calls = Told(Whole(q)).calls
      /\ Told(Whole(w)).open = Told(Whole(q)).open
      /\ Trim(Told(Whole(w)).content) = Trim(Told(Whole(q)).content)
  BY <1>1, AfterAnswers
<1>4. QED BY ONLY <1>2, <1>3 DEF Alike

\* Nothing is trimmed off nothing.
LEMMA TrimNothing == Trim(<<>>) = <<>>
<1>1. PICK e : e = <<>>
  OBVIOUS
<1>2. e \in Text /\ Len(e) = 0
  BY <1>1, NoText
<1>3. TrimStart(e, Blank) = e
  BY <1>1, NothingAfter
<1>4. PICK n : n = CHOOSE m \in 0..Len(e) : /\ \A i \in (m + 1)..Len(e) : e[i] \in Blank
                                            /\ m > 0 => e[m] \notin Blank
  OBVIOUS
<1>5. n = 0
  <2>1. \E m \in 0..Len(e) : (\A i \in (m + 1)..Len(e) : e[i] \in Blank) /\ (m > 0 => e[m] \notin Blank)
    <3>1. 0 \in 0..Len(e) /\ (\A i \in (0 + 1)..Len(e) : e[i] \in Blank) /\ (0 > 0 => e[0] \notin Blank)
      BY <1>2
    <3>2. QED BY <3>1
  <2>2. n \in 0..Len(e)
    BY <1>4, <2>1, Zenon
  <2>3. QED BY <1>2, <2>2
<1>6. TrimEnd(e) = Upto(e, n)
  BY <1>4, Zenon DEF TrimEnd
<1>7. Upto(e, n) \in Text /\ Len(Upto(e, n)) = 0
  <2>1. n \in 0..Len(e)
    BY <1>2, <1>5
  <2>2. QED BY <1>2, <1>5, <2>1, CutsAre
<1>8. Upto(e, n) = <<>>
  BY ONLY <1>7, NoText, Zenon
<1>9. Trim(e) = <<>>
  BY <1>3, <1>6, <1>8, Zenon DEF Trim
<1>10. QED BY <1>1, <1>9, Zenon

\* The one-shot splitter has split the reply, and its content has no open block.
OneSplit(sp, x) ==
  /\ sp.buf \in Text /\ sp.reason \in Text /\ sp.content \in Text
  /\ Split(setup, x, sp.reason, sp.content, sp.buf, sp.phase) /\ sp.phase # 1
  /\ ~Told(Whole(sp.content)).open
\* It has, when the reply closes its blocks.
LEMMA OneSplits ==
  ASSUME NEW x \in Text, Closed(x), NEW sp, sp = ThinkFeed(NewThink, x)
  PROVE  OneSplit(sp, x)
<1>1. PICK e : e = <<>>
  OBVIOUS
<1>2. e \in Text /\ e \o x = x
  BY <1>1, NoText
<1>3. Split(setup, e, e, e, NewThink.buf, NewThink.phase) /\ NewThink.buf \in Text
  BY <1>1, <1>2, StartSplit, Zenon
<1>4. Next1(setup, e \o x, e, e, sp)
  BY <1>2, <1>3, ThinkStep
<1>5. ~sp.panic /\ sp.phase # 1 /\ ~Has(ToolFeed(Whole(sp.content)).buf, ToolOpen)
  BY Zenon DEF Closed, Whole
<1>6. /\ sp.buf \in Text /\ sp.reason \in Text /\ sp.content \in Text
      /\ Split(setup, x, e \o sp.reason, e \o sp.content, sp.buf, sp.phase)
  BY <1>2, <1>4, <1>5, Zenon DEF Next1
<1>7. e \o sp.reason = sp.reason /\ e \o sp.content = sp.content
  BY <1>1, <1>6, NoText
<1>8. Split(setup, x, sp.reason, sp.content, sp.buf, sp.phase)
  BY <1>6, <1>7, Zenon
<1>9. Whole(sp.content) \in Filter
  BY <1>6, WholeIs
<1>10. ~Told(Whole(sp.content)).open
  BY <1>5, <1>9, FeedClosed
<1>11. QED BY <1>5, <1>6, <1>8, <1>10, Zenon DEF OneSplit

\* At the end, what was written says what the one-shot content c, text behind the
\* reasoning, says.
Says(sp, c) ==
  /\ Trim(got.content) = ToolParse(c).content /\ tool.calls = ToolParse(c).calls
  /\ Trim(got.reason) = IF setup.chat THEN Trim(sp.reason) ELSE <<>>
\* When the splitter was behind the block, or there is none.
LEMMA SaysBehind ==
  ASSUME Typed, NEW x \in Text, NEW R \in Text, NEW C \in Text, NEW O \in Text, Matches(x, R, C, O),
         rsAt = "done", reader = "reading", NEW sp, OneSplit(sp, x), think.phase = 2,
         think.buf = <<>>, Close(R, sp.reason), Close(C, sp.content)
  PROVE  Says(sp, sp.content)
<1>1. PICK b, l, r1, c1 : b = tool.buf /\ l = tool.calls /\ r1 = sp.reason /\ c1 = sp.content
  OBVIOUS
<1>2. /\ b \in Text /\ l \in Seq(Text) /\ r1 \in Text /\ c1 \in Text
      /\ Close(R, r1) /\ Close(C, c1) /\ ~Told(Whole(c1)).open
      /\ Answers(b, l, O, C) /\ ~HasBlock(b)
  BY <1>1, Zenon DEF Typed, OneSplit, Matches
<1>3. got.reason = Shown(R) /\ got.content = O \o Leftover
  <2>1. Seen(R, O)
    BY DEF Matches
  <2>2. QED BY <2>1 DEF Seen, Sent
<1>4. Leftover = b
  <2>1. ThinkFlush(think).content = think.buf
    BY DEF ThinkFlush
  <2>2. <<>> \o b = b
    BY <1>2, NoText
  <2>3. QED BY <1>1, <2>1, <2>2, Zenon DEF Leftover
<1>5. Told(Filled(b, l, O)) = Told(Whole(C))
  <2>1. <<>> \in Text /\ b \o <<>> = b /\ C \o <<>> = C
    BY <1>2, NoText
  <2>2. QED BY <1>2, <2>1, Zenon DEF Answers
<1>6. Alike(Told(Whole(C)), Told(Whole(c1)))
  BY <1>2, CloseAnswers
<1>7. /\ Told(Filled(b, l, O)).content = O \o Before(b)
      /\ Told(Filled(b, l, O)).calls = l
      /\ Told(Filled(b, l, O)).open = Has(b, ToolOpen)
  BY <1>2, NoBlocksLeft
<1>8. Before(b) = b
  <2>1. Told(Whole(C)).open = Has(b, ToolOpen)
    BY <1>5, <1>7, Zenon
  <2>2. Told(Whole(C)).open = Told(Whole(c1)).open
    BY <1>6, Zenon DEF Alike
  <2>3. ~Has(b, ToolOpen)
    BY <1>2, <2>1, <2>2
  <2>4. QED BY <2>3 DEF Before
<1>9. got.content = Told(Whole(C)).content /\ l = Told(Whole(C)).calls
  BY <1>3, <1>4, <1>5, <1>7, <1>8, Zenon
<1>10. /\ ToolParse(c1).content = Trim(Told(Whole(c1)).content)
       /\ ToolParse(c1).calls = Told(Whole(c1)).calls
  BY <1>2, ParseIs
<1>11. Trim(got.content) = ToolParse(c1).content /\ l = ToolParse(c1).calls
  BY <1>6, <1>9, <1>10, Zenon DEF Alike
<1>12. Trim(got.reason) = IF setup.chat THEN Trim(r1) ELSE <<>>
  <2>1. Trim(R) = Trim(r1)
    BY <1>2, CloseTrims
  <2>2. Trim(<<>>) = <<>>
    BY TrimNothing
  <2>3. QED BY <1>3, <2>1, <2>2, Zenon DEF Shown
<1>13. QED BY <1>1, <1>11, <1>12, Zenon DEF Says

\* A reply that ended while it might have become a tag is content.
LEMMA SaysWaiting ==
  ASSUME Typed, NEW x \in Text, NEW O \in Text, Matches(x, <<>>, <<>>, O),
         rsAt = "done", reader = "reading", NEW sp, OneSplit(sp, x), think.phase = 0,
         think.buf = x, MayOpen(x), sp.reason = <<>>
  PROVE  Says(sp, x)
<1>1. PICK b, l, e : b = tool.buf /\ l = tool.calls /\ e = <<>>
  OBVIOUS
<1>2. /\ b \in Text /\ l \in Seq(Text) /\ e \in Text /\ e \in Seq(Text)
      /\ Answers(b, l, O, e) /\ ~HasBlock(b)
  <2>1. b \in Text /\ l \in Seq(Text)
    BY <1>1, Zenon DEF Typed
  <2>2. e \in Text /\ e \in Seq(Text)
    BY <1>1, NoText
  <2>3. Answers(b, l, O, e) /\ ~HasBlock(b)
    BY <1>1, Zenon DEF Matches
  <2>4. QED BY <2>1, <2>2, <2>3
<1>3. got.reason = Shown(<<>>) /\ got.content = O \o Leftover
  <2>1. Seen(<<>>, O)
    BY DEF Matches
  <2>2. QED BY <2>1 DEF Seen, Sent
<1>4. Leftover = x \o b
  <2>1. ThinkFlush(think).content = think.buf
    BY DEF ThinkFlush
  <2>2. QED BY <1>1, <2>1, Zenon DEF Leftover
<1>5. Told(Filled(b, l, O)) = Told(Whole(e))
  <2>1. e \in Text /\ b \o e = b /\ e \o e = e
    BY <1>1, <1>2, NoText
  <2>2. QED BY <1>2, <2>1, Zenon DEF Answers
<1>6. ASSUME NEW v \in Text, ~Has(v, ToolOpen)
      PROVE  Told(Whole(v)).content = v /\ Told(Whole(v)).calls = e /\ ~Told(Whole(v)).open
  <2>1. ~HasBlock(v)
    BY <1>6 DEF HasBlock
  <2>2. Whole(v) = Filled(v, e, e)
    BY <1>1, Zenon DEF Whole, Filled, Calm
  <2>3. /\ Told(Filled(v, e, e)).content = e \o Before(v)
        /\ Told(Filled(v, e, e)).calls = e
        /\ Told(Filled(v, e, e)).open = Has(v, ToolOpen)
    BY <1>2, <2>1, NoBlocksLeft
  <2>4. e \o v = v /\ Before(v) = v
    BY <1>1, <1>6, NoText DEF Before
  <2>5. ~Told(Filled(v, e, e)).open
    BY <1>6, <2>3
  <2>6. QED BY <2>2, <2>3, <2>4, <2>5, Zenon
<1>7. ~Has(e, ToolOpen) /\ ToolOpen \in Text /\ Len(e) = 0
  <2>1. Len(e) = 0 /\ ToolOpen \in Text /\ Len(ToolOpen) \in Nat /\ Len(ToolOpen) >= 1
    BY <1>1, NoText, FourTags, TagsAre
  <2>2. ASSUME NEW i \in Nat, At(e, ToolOpen, i) PROVE FALSE
    BY <2>1, <2>2 DEF At
  <2>3. QED BY <1>2, <2>1, <2>2, HasIs
<1>8. Told(Whole(e)).content = e /\ Told(Whole(e)).calls = e /\ ~Told(Whole(e)).open
  BY <1>2, <1>6, <1>7
<1>9. /\ Told(Filled(b, l, O)).content = O \o Before(b)
      /\ Told(Filled(b, l, O)).calls = l
      /\ Told(Filled(b, l, O)).open = Has(b, ToolOpen)
  BY <1>2, NoBlocksLeft
<1>10. l = e /\ O \o b = e
  <2>1. ~Has(b, ToolOpen)
    BY <1>5, <1>8, <1>9
  <2>2. Before(b) = b
    BY <2>1 DEF Before
  <2>3. QED BY <1>5, <1>8, <1>9, <2>2, Zenon
<1>11. O = e /\ b = e
  <2>1. Len(O \o b) = Len(O) + Len(b) /\ Len(O) \in Nat /\ Len(b) \in Nat
    BY <1>2, JoinIs
  <2>2. Len(O \o b) = 0
    BY ONLY <1>7, <1>10
  <2>3. Len(O) = 0 /\ Len(b) = 0
    BY ONLY <2>1, <2>2
  <2>4. O \in Text /\ b \in Text
    BY <1>2
  <2>5. O = <<>>
    BY ONLY <2>3, <2>4, NoText, Zenon
  <2>6. b = <<>>
    BY ONLY <2>3, <2>4, NoText, Zenon
  <2>7. QED BY <1>1, <2>5, <2>6, Zenon
<1>12. got.content = x
  <2>1. x \o e = x /\ e \o x = x
    BY <1>1, NoText
  <2>2. QED BY <1>3, <1>4, <1>11, <2>1, Zenon
<1>13. Told(Whole(x)).content = x /\ Told(Whole(x)).calls = e
  BY <1>6, NoToolYet
<1>14. ToolParse(x).content = Trim(x) /\ ToolParse(x).calls = e
  <2>1. /\ ToolParse(x).content = Trim(Told(Whole(x)).content)
        /\ ToolParse(x).calls = Told(Whole(x)).calls
    BY ParseIs
  <2>2. QED BY <1>13, <2>1, Zenon
<1>15. Trim(got.reason) = IF setup.chat THEN Trim(sp.reason) ELSE <<>>
  <2>1. Trim(<<>>) = <<>>
    BY TrimNothing
  <2>2. QED BY <1>3, <2>1, Zenon DEF Shown
<1>16. QED BY <1>1, <1>10, <1>12, <1>14, <1>15, Zenon DEF Says

\* The stream and the one answer agree.
LEMMA StreamsMatch == ASSUME ReplyInv PROVE StreamMatchesOneShot
<1>1. SUFFICES ASSUME rsAt = "done", reader = "reading", Valid(raw), Closed(raw)
               PROVE  LET one == OneShot(raw, got.finish) IN
                      /\ Trim(got.reason) = one.reason /\ Trim(got.content) = one.content
                      /\ got.calls = one.calls /\ got.finish = one.finish
  BY Zenon DEF StreamMatchesOneShot
<1>2. PICK x, R, C, O \in Text : Matches(x, R, C, O)
  BY <1>1 DEF ReplyInv, Live
<1>3. Typed
  BY DEF ReplyInv
<1>4. raw = x
  <2>1. raw = x \o buf /\ Valid(x) /\ (Valid(buf) => buf = <<>>)
    BY <1>2 DEF Matches
  <2>2. buf \in Text
    BY <1>3 DEF Typed
  <2>3. Valid(x \o buf)
    BY <1>1, <2>1
  <2>4. Valid(buf)
    BY <2>1, <2>2, <2>3, ValidTail
  <2>5. x \o <<>> = x
    BY NoText
  <2>6. QED BY <2>1, <2>4, <2>5, Zenon
<1>5. Lossy(raw) = x
  <2>1. Valid(x)
    BY <1>1, <1>4
  <2>2. Lossy(x) = x
    BY <2>1, LossyIs
  <2>3. QED BY <1>4, <2>2, Zenon
<1>6. PICK sp : sp = ThinkFeed(NewThink, x)
  OBVIOUS
<1>7. OneSplit(sp, x)
  <2>1. Closed(x)
    BY <1>1, <1>4, Zenon
  <2>2. QED BY <1>6, <2>1, OneSplits
<1>8. Agree(x, R, C, think.buf, think.phase, sp.reason, sp.content, sp.buf, sp.phase)
  <2>1. /\ Split(setup, x, R, C, think.buf, think.phase)
        /\ Split(setup, x, sp.reason, sp.content, sp.buf, sp.phase) /\ sp.phase # 1
        /\ think.buf \in Text /\ sp.buf \in Text
    BY <1>2, <1>3, <1>7, Zenon DEF Matches, OneSplit, Typed
  <2>2. QED BY <2>1, SameSplit, Zenon
<1>9. PICK c : c = sp.content \o ThinkFlush(sp).content
  OBVIOUS
<1>10. ThinkFlush(sp).content = sp.buf /\ ThinkFlush(sp).reason = <<>> /\ sp.phase # 1
  <2>1. sp.phase # 1
    BY <1>7 DEF OneSplit
  <2>2. QED BY <2>1 DEF ThinkFlush
<1>11. Says(sp, c)
  <2>1. think.phase \in {0, 2}
    BY <1>8, Zenon DEF Agree
  <2>2. CASE think.phase = 2
    <3>1. think.buf = <<>> /\ sp.buf = think.buf /\ Close(R, sp.reason) /\ Close(C, sp.content)
      BY <1>8, <2>2 DEF Agree
    <3>2. Says(sp, sp.content)
      BY <1>1, <1>2, <1>3, <1>7, <2>2, <3>1, SaysBehind, Zenon
    <3>3. sp.content \o <<>> = sp.content
      BY <1>7, NoText DEF OneSplit
    <3>4. c = sp.content
      BY <1>9, <1>10, <3>1, <3>3, Zenon
    <3>5. QED BY <3>2, <3>4, Zenon
  <2>3. CASE think.phase = 0
    <3>1. /\ MayOpen(x) /\ think.buf = x /\ sp.buf = think.buf /\ R = <<>> /\ C = <<>>
          /\ sp.reason = <<>> /\ sp.content = <<>>
      BY <1>8, <2>3 DEF Agree
    <3>2. Matches(x, <<>>, <<>>, O)
      BY <1>2, <3>1, Zenon
    <3>3. Says(sp, x)
      BY <1>1, <1>3, <1>7, <2>3, <3>1, <3>2, SaysWaiting, Zenon
    <3>4. <<>> \o x = x
      BY NoText
    <3>5. c = x
      BY <1>9, <1>10, <3>1, <3>4, Zenon
    <3>6. QED BY <3>3, <3>5, Zenon
  <2>4. QED BY <2>1, <2>2, <2>3
<1>12. Ended
  BY <1>1, <1>2 DEF Matches, Seen
<1>13. PICK one : one = OneShot(raw, got.finish)
  OBVIOUS
<1>14. /\ one.reason = IF setup.chat THEN Trim(sp.reason \o ThinkFlush(sp).reason) ELSE <<>>
       /\ one.content = ToolParse(c).content
       /\ one.calls = IF setup.chat THEN ToolParse(c).calls ELSE <<>>
       /\ one.finish = IF ToolParse(c).calls # <<>> THEN "tool_calls" ELSE got.finish
  <2>1. one = [panic |-> sp.panic,
               reason |-> IF setup.chat THEN Trim(sp.reason \o ThinkFlush(sp).reason) ELSE <<>>,
               content |-> ToolParse(c).content,
               calls |-> IF setup.chat THEN ToolParse(c).calls ELSE <<>>,
               finish |-> IF ToolParse(c).calls # <<>> THEN "tool_calls" ELSE got.finish]
    BY <1>5, <1>6, <1>9, <1>13, Zenon DEF OneShot
  <2>2. QED BY ONLY <2>1
<1>15. sp.reason \o ThinkFlush(sp).reason = sp.reason
  <2>1. sp.reason \o <<>> = sp.reason
    BY <1>7, NoText DEF OneSplit
  <2>2. QED BY <1>10, <2>1, Zenon
<1>16. Trim(got.reason) = one.reason
  BY <1>11, <1>14, <1>15, Zenon DEF Says
<1>17. Trim(got.content) = one.content
  BY <1>11, <1>14, Zenon DEF Says
<1>18. got.calls = one.calls
  BY <1>11, <1>12, <1>14, Zenon DEF Says, Ended
<1>19. got.finish = one.finish
  BY <1>11, <1>12, <1>14, Zenon DEF Says, Ended
<1>20. QED BY <1>13, <1>16, <1>17, <1>18, <1>19, Zenon

\* A stream tells what the reply says, for any tokens, tags, setups and length.
THEOREM StreamsFaithfully == RsSpec => []StreamFaithful
<1>1. RsInit => ReplyInv
  BY RepliesStart
<1>2. ReplyInv /\ [RsNext]_rsVars => ReplyInv'
  BY RepliesKeep
<1>3. ReplyInv => StreamFaithful
  BY StreamsMatch, OnlyTagsHeld, Zenon DEF StreamFaithful, ReplyInv
<1>4. QED BY <1>1, <1>2, <1>3, PTL DEF RsSpec

\* A reader that hung up stops the generation, where a connection that broke stays
\* broken: a callback that goes on has seen no write fail, not the first either.
THEOREM GoneReadersStop == ASSUME ~WritesRecover PROVE RsSpec => GoneReaderStops
<1> DEFINE Unseen == rsAt = "run" => reader # "failed"
<1>1. RsInit => Unseen
  BY DEF RsInit
<1>2. Unseen /\ [RsNext]_rsVars => Unseen'
  <2>1. SUFFICES ASSUME Unseen, [RsNext]_rsVars, rsAt' = "run" PROVE reader' # "failed"
    OBVIOUS
  <2>2. CASE UNCHANGED rsVars
    BY <2>1, <2>2 DEF rsVars
  <2>3. CASE \E p \in Pieces : Callback(p)
    <3>1. PICK p \in Pieces : Callback(p)
      BY <2>3
    <3>2. PICK s, n, d, th, tl : Steps(s, n, d, th, tl) /\ rsAt = "run"
      BY <3>1, CallbackIs, Zenon
    <3>3. CASE Written(Shown(th.reason), tl.out)
      <4>1. PICK r, o : r = Shown(th.reason) /\ o = tl.out
        OBVIOUS
      <4>2. Written(r, o)
        BY <3>3, <4>1, Zenon
      <4>3. reader # "failed"
        BY <2>1, <3>2
      <4>4. rsAt' = "run" => reader' # "failed"
        BY ONLY <4>2, <4>3, ~WritesRecover, WritesLeave
      <4>5. QED BY ONLY <2>1, <4>4
    <3>4. CASE UNCHANGED <<rsAt, reader>> \/ rsAt' = "panicked"
      BY <2>1, <3>2, <3>4
    <3>5. QED BY ONLY <3>2, <3>3, <3>4 DEF Steps
  <2>4. CASE ReaderLeaves
    BY <2>4 DEF ReaderLeaves
  <2>5. CASE \E end \in {"stop", "length", "error"} : Finish(end)
    BY <2>1, <2>5 DEF Finish
  <2>6. QED BY <2>1, <2>2, <2>3, <2>4, <2>5 DEF RsNext
<1>3. Unseen /\ [RsNext]_rsVars => [reader = "failed" => raw' = raw]_rsVars
  <2>1. SUFFICES ASSUME Unseen, RsNext, reader = "failed" PROVE raw' = raw
    OBVIOUS
  <2>2. rsAt # "run"
    BY <2>1
  <2>3. QED BY <2>1, <2>2 DEF RsNext, Callback, ReaderLeaves, Finish
<1>4. QED BY <1>1, <1>2, <1>3, PTL DEF RsSpec, GoneReaderStops
=============================================================================
