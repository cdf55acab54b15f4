---------------------------- MODULE ReplyStream ----------------------------
(***************************************************************************)
(* How the bytes of a reply become the fields of the wire format:          *)
(* run_completion of src/server.rs with its ThinkSplitter and ToolFilter,  *)
(* streaming (one callback per generated piece) and not (all at once).     *)
(*                                                                         *)
(* Text is a sequence of bytes over a small alphabet.  The four tags are   *)
(* constants, so short ones stand for <think>, </think>, <tool_call> and   *)
(* </tool_call>; Lead Cont is a two-byte character.  Slicing a string off  *)
(* a character boundary panics, as it does in Rust.                        *)
(***************************************************************************)
EXTENDS Integers, Sequences

CONSTANTS
  Pieces,      \* the byte sequences a token can stand for
  MaxReply,   \* bound: tokens of one reply
  Setups,      \* how the server was started, and the endpoint
  ThinkOpen, ThinkClose, ToolOpen, ToolClose,
  Lead, Cont,  \* first and second byte of a two-byte character
  Replacement,         \* U+FFFD, what a lossy conversion puts for an invalid byte
  Blank,       \* whitespace bytes
  Newline,
  Fn,          \* stands for <function=NAME> in a tool block
  WritesRecover  \* whether a write can succeed behind one that failed

ASSUME ReplyStreamAssumption ==
  /\ MaxReply \in Nat
  \* keep: --keep-think;  inThink: the prompt ends with <think>;  chat: endpoint
  /\ Setups \subseteq [keep : BOOLEAN, inThink : BOOLEAN, chat : BOOLEAN]
  /\ Newline \in Blank
  /\ WritesRecover \in BOOLEAN

VARIABLES
  setup,
  rsAt,         \* "run" while generate runs, "flush" when the callback ended it,
              \* then "done", "error" (generate failed) or "panicked"
  raw,        \* history: all the bytes generated
  taken,      \* history: the number of pieces
  buf,        \* bytes that are not yet a complete UTF-8 prefix
  think,      \* ThinkSplitter: buf and phase
  tool,       \* ToolFilter: buf and calls
  reader,     \* "reading", "gone", or "failed": a write to it has failed
  got         \* what was written for the reader

rsVars == <<setup, rsAt, raw, taken, buf, think, tool, reader, got>>

-----------------------------------------------------------------------------
\* Strings: prefixes, tails, searching, trimming, character boundaries.
Upto(s, n) == SubSeq(s, 1, n)
Drop(s, n) == SubSeq(s, n + 1, Len(s))
Starts(s, t) == Len(t) <= Len(s) /\ Upto(s, Len(t)) = t
FoundAt(s, t) == {i \in 0..(Len(s) - Len(t)) : SubSeq(s, i + 1, i + Len(t)) = t}
Has(s, t) == FoundAt(s, t) # {}
\* Bytes before the first occurrence.
Find(s, t) == CHOOSE i \in FoundAt(s, t) : \A j \in FoundAt(s, t) : i <= j

TrimStart(s, bytes) ==
  Drop(s, CHOOSE n \in 0..Len(s) :
            /\ \A i \in 1..n : s[i] \in bytes
            /\ n < Len(s) => s[n + 1] \notin bytes)
TrimEnd(s) ==
  Upto(s, CHOOSE n \in 0..Len(s) :
             /\ \A i \in (n + 1)..Len(s) : s[i] \in Blank
             /\ n > 0 => s[n] \notin Blank)
Trim(s) == TrimEnd(TrimStart(s, Blank))

Boundary(s, n) == n \in 0..Len(s) /\ (n < Len(s) => s[n + 1] # Cont)

Complete(s, i) ==
  /\ s[i] = Lead => i < Len(s) /\ s[i + 1] = Cont
  /\ s[i] = Cont => i > 1 /\ s[i - 1] = Lead
Valid(s) == \A i \in 1..Len(s) : Complete(s, i)
ValidUpTo(s) ==
  CHOOSE n \in 0..Len(s) : /\ Valid(Upto(s, n))
                           /\ \A k \in (n + 1)..Len(s) : ~Valid(Upto(s, k))
Lossy(s) == [i \in 1..Len(s) |-> IF Complete(s, i) THEN s[i] ELSE Replacement]

-----------------------------------------------------------------------------
\* ThinkSplitter: phase 0 is undecided, 1 inside the block, 2 content.
NewThink == [buf |-> <<>>, phase |-> IF setup.keep THEN 2 ELSE IF setup.inThink THEN 1 ELSE 0]

Bare == Upto(ThinkOpen, Len(ThinkOpen) - 1)

Fed(th) == [buf |-> th.buf, phase |-> th.phase, reason |-> <<>>, content |-> <<>>, panic |-> FALSE]

\* Phase 0: wait while the text may still become "<think", else decide.
Undecided(s) ==
  LET t == TrimStart(s.buf, Blank) IN
  IF s.phase # 0 \/ (Len(t) < Len(Bare) /\ Starts(Bare, t)) THEN s
  ELSE IF ~Starts(t, Bare) THEN [s EXCEPT !.phase = 2]
  ELSE IF ~Boundary(t, Len(ThinkOpen)) THEN [s EXCEPT !.panic = TRUE]
  ELSE [s EXCEPT !.buf = TrimStart(Drop(t, Len(ThinkOpen)), {Newline}), !.phase = 1]

\* Phase 1 keeps back what may be the start of the closing tag.
ThinkHeld_Short == Len(ThinkClose) - 2
ThinkHeld == Len(ThinkClose) - 1

Reasoning(s) ==
  IF s.phase # 1 \/ s.panic THEN s
  ELSE IF Has(s.buf, ThinkClose)
  THEN LET i == Find(s.buf, ThinkClose) IN
       [s EXCEPT !.reason = Upto(s.buf, i),
                 !.buf = TrimStart(Drop(s.buf, i + Len(ThinkClose)), {Newline}),
                 !.phase = 2]
  ELSE IF Len(s.buf) <= ThinkHeld THEN s
  ELSE LET cut == Len(s.buf) - ThinkHeld IN
       IF ~Boundary(s.buf, cut) THEN [s EXCEPT !.panic = TRUE]
       ELSE [s EXCEPT !.reason = Upto(s.buf, cut), !.buf = Drop(s.buf, cut)]

Content(s) ==
  IF s.phase # 2 \/ s.panic THEN s ELSE [s EXCEPT !.content = s.buf, !.buf = <<>>]

ThinkFeed(th, text) ==
  IF setup.keep THEN [Fed(th) EXCEPT !.content = text]
  ELSE Content(Reasoning(Undecided([Fed(th) EXCEPT !.buf = th.buf \o text])))

ThinkFlush(th) ==
  IF ~setup.keep /\ th.phase = 1 THEN [reason |-> th.buf, content |-> <<>>]
  ELSE [reason |-> <<>>, content |-> th.buf]

-----------------------------------------------------------------------------
\* parse_tool_block: a block that names a function is a call.
Calls(block) == IF \E i \in 1..Len(block) : block[i] = Fn THEN <<block>> ELSE <<>>

NewTool == [buf |-> <<>>, calls |-> <<>>]

\* ToolFilter keeps back what may be the start of the opening tag.
ToolHeld == Len(ToolOpen) - 1

\* A complete block: an opening tag and, from it on, a closing one.
HasBlock(text) == Has(text, ToolOpen) /\ Has(Drop(text, Find(text, ToolOpen)), ToolClose)
TakeBlock(s) ==
  LET i == Find(s.buf, ToolOpen)
      rest == Drop(s.buf, i)
      j == Find(rest, ToolClose) IN
  [s EXCEPT !.calls = @ \o Calls(SubSeq(rest, Len(ToolOpen) + 1, j)),
            !.out = @ \o Upto(s.buf, i),
            !.buf = Drop(rest, j + Len(ToolClose))]

\* n rounds of its loop; a text has fewer blocks than bytes.
Round(s) == IF HasBlock(s.buf) THEN TakeBlock(s) ELSE s
Rounds(s, n) == LET after[k \in 0..n] == IF k = 0 THEN s ELSE Round(after[k - 1]) IN after[n]
TakeBlocks(s) == Rounds(s, Len(s.buf))

\* Behind the last complete block: stop at an open one.
HoldBack(s) ==
  IF Has(s.buf, ToolOpen)
  THEN LET i == Find(s.buf, ToolOpen) IN [s EXCEPT !.out = @ \o Upto(s.buf, i), !.buf = Drop(s.buf, i)]
  ELSE IF Len(s.buf) <= ToolHeld THEN s
  ELSE LET cut == Len(s.buf) - ToolHeld IN
       IF ~Boundary(s.buf, cut) THEN [s EXCEPT !.panic = TRUE]
       ELSE [s EXCEPT !.out = @ \o Upto(s.buf, cut), !.buf = Drop(s.buf, cut)]

ToolFeed(s) == HoldBack(TakeBlocks(s))

\* parse_tool_calls, the one-shot counterpart: an unclosed block is dropped.
Behind(text) == Drop(text, Find(text, ToolOpen) + Len(ToolOpen))
ParseRound(s) ==
  IF Has(s.rest, ToolOpen) /\ Has(Behind(s.rest), ToolClose)
  THEN LET after == Behind(s.rest)
           j == Find(after, ToolClose) IN
       [rest |-> Drop(after, j + Len(ToolClose)),
        content |-> s.content \o Upto(s.rest, Find(s.rest, ToolOpen)),
        calls |-> s.calls \o Calls(Upto(after, j))]
  ELSE s
ParseRounds(s, n) ==
  LET after[k \in 0..n] == IF k = 0 THEN s ELSE ParseRound(after[k - 1]) IN after[n]
ToolParse(text) ==
  LET end == ParseRounds([rest |-> text, content |-> <<>>, calls |-> <<>>], Len(text))
      left == IF Has(end.rest, ToolOpen) THEN Upto(end.rest, Find(end.rest, ToolOpen)) ELSE end.rest
  IN [content |-> Trim(end.content \o left), calls |-> end.calls]

\* Texts are bytes.  The tags have none that is trimmed, the start of the opening
\* think tag holds no tool tag, and a closing tool tag never starts in an opening one.
Tags == {ThinkOpen, ThinkClose, ToolOpen, ToolClose}
Byte == UNION {{s[i] : i \in DOMAIN s} : s \in Pieces \cup Tags}
ASSUME TextsAreBytes == Pieces \cup Tags \subseteq Seq(Byte)
ASSUME TagsAreApart ==
  /\ \A t \in Tags : t # <<>> /\ \A i \in 1..Len(t) : t[i] \notin Blank
  /\ Bare # <<>> /\ ~Has(Bare, ToolOpen)
  /\ \A i \in 0..(Len(ToolOpen) - 1) : \E k \in 1..Len(ToolClose) :
       i + k \in DOMAIN ToolOpen /\ ToolOpen[i + k] # ToolClose[k]

\* The non-streaming answer to the same bytes.
OneShot(bytes, end) ==
  LET sp    == ThinkFeed(NewThink, Lossy(bytes))
      tail  == ThinkFlush(sp)
      tc    == ToolParse(sp.content \o tail.content)
  IN [panic   |-> sp.panic,
      reason  |-> IF setup.chat THEN Trim(sp.reason \o tail.reason) ELSE <<>>,
      content |-> tc.content,
      calls   |-> IF setup.chat THEN tc.calls ELSE <<>>,
      finish  |-> IF tc.calls # <<>> THEN "tool_calls" ELSE end]

-----------------------------------------------------------------------------
RsInit ==
  /\ setup \in Setups
  /\ rsAt = "run"
  /\ raw = <<>> /\ taken = 0 /\ buf = <<>>
  /\ think = NewThink
  /\ tool = NewTool
  /\ reader = "reading"
  /\ got = [reason |-> <<>>, content |-> <<>>, calls |-> <<>>, finish |-> "none"]

\* The reader hangs up; nobody notices before a frame is written.
ReaderLeaves ==
  /\ rsAt = "run" /\ reader = "reading"
  /\ reader' = "gone"
  /\ UNCHANGED <<setup, rsAt, raw, taken, buf, think, tool, got>>

\* sse_chunk: what a write to a reader r finds, and whether it succeeds.  The
\* system may accept what is written to a reader that hung up, or the write fails.
Sends(r) ==
  {w \in [reader : {r, "failed"}, ok : BOOLEAN] :
     IF w.ok THEN w.reader = r /\ (r = "failed" => WritesRecover)
             ELSE w.reader = "failed" /\ r # "reading"}

\* A frame is written only if it carries text, behind what the last write found.
Chunk(text, w) == IF text = <<>> THEN {w} ELSE Sends(w.reader)

\* A failed write makes the callback return false, and generate ends.
Continue_Always(w) == "run"
Continue(w) == IF w.ok THEN "run" ELSE "flush"

\* The frames of one callback: the reasoning (delta.reasoning_content exists on
\* the chat endpoint only), then the content.  The callback returns what the
\* last write said: the content's replaces the reasoning's.
Written(reason, content) ==
  /\ got' = IF reader = "reading"
            THEN [got EXCEPT !.reason = @ \o reason, !.content = @ \o content]
            ELSE got
  /\ \E first \in Chunk(reason, [reader |-> reader, ok |-> TRUE]) :
       \E last \in Chunk(content, first) :
         reader' = last.reader /\ rsAt' = Continue(last)

\* The complete characters of the buffer are taken, the rest is kept.
Taken(bytes) == ValidUpTo(bytes)

\* The callback for one generated piece.
Callback(p) ==
  /\ rsAt = "run" /\ taken < MaxReply
  /\ raw' = raw \o p /\ taken' = taken + 1
  /\ LET bytes == buf \o p
         n     == Taken(bytes)
         th    == ThinkFeed(think, Lossy(Upto(bytes, n)))
         tl    == ToolFeed([buf |-> tool.buf \o th.content, calls |-> tool.calls,
                            out |-> <<>>, panic |-> FALSE])
     IN IF n = 0
        THEN buf' = bytes /\ UNCHANGED <<rsAt, think, tool, reader, got>>
        ELSE IF th.panic \/ tl.panic
        THEN rsAt' = "panicked" /\ UNCHANGED <<buf, think, tool, reader, got>>
        ELSE /\ buf' = Drop(bytes, n)
             /\ think' = [buf |-> th.buf, phase |-> th.phase]
             /\ tool' = [buf |-> tl.buf, calls |-> tl.calls]
             /\ Written(IF setup.chat THEN th.reason ELSE <<>>, tl.out)
  /\ UNCHANGED setup

\* generate has returned: the tails are flushed, the calls and the last frame
\* are written.
Leftover == ThinkFlush(think).content \o tool.buf

Finish(end) ==
  /\ rsAt \in {"run", "flush"}
  /\ rsAt = "flush" => end = "stop"
  /\ LET calls == IF setup.chat THEN tool.calls ELSE <<>> IN
     got' = IF reader = "reading"
            THEN [got EXCEPT !.content = @ \o Leftover, !.calls = calls,
                             !.finish = IF tool.calls # <<>> THEN "tool_calls" ELSE end]
            ELSE got
  /\ rsAt' = IF end = "error" THEN "error" ELSE "done"
  /\ UNCHANGED <<setup, raw, taken, buf, think, tool, reader>>

RsNext ==
  \/ \E p \in Pieces : Callback(p)
  \/ ReaderLeaves
  \/ \E end \in {"stop", "length", "error"} : Finish(end)

RsSpec == RsInit /\ [][RsNext]_rsVars
-----------------------------------------------------------------------------
\* Type invariant.
ReplyTypeOK ==
  /\ setup \in Setups
  /\ rsAt \in {"run", "flush", "done", "error", "panicked"}
  /\ taken \in 0..MaxReply
  /\ think.phase \in {0, 1, 2}
  /\ reader \in {"reading", "gone", "failed"}

\* The reply as one text closes its blocks.
Closed(text) ==
  LET sp == ThinkFeed(NewThink, text)
      tl == ToolFeed([buf |-> sp.content, calls |-> <<>>, out |-> <<>>, panic |-> FALSE])
  IN ~sp.panic /\ sp.phase # 1 /\ ~Has(tl.buf, ToolOpen)

\* Chunking is invisible: a reply of valid text with its blocks closed gives a
\* streaming reader the same reasoning, content, calls and finish reason as a
\* reader that asked for it in one piece, however the tags and characters were
\* cut into tokens (src/server.rs:785-909 against 911-984).
StreamMatchesOneShot ==
  rsAt = "done" /\ reader = "reading" /\ Valid(raw) /\ Closed(raw) =>
    LET one == OneShot(raw, got.finish) IN
    /\ Trim(got.reason) = one.reason
    /\ Trim(got.content) = one.content
    /\ got.calls = one.calls
    /\ got.finish = one.finish

\* Streaming is prompt: of the text taken so far only a possible start of a tag
\* or an open tool block is held back, and what is held was not sent.
HeldIsATag ==
  rsAt = "run" =>
    /\ CASE think.phase = 0 -> Starts(Bare, TrimStart(think.buf, Blank))
         [] think.phase = 1 -> Len(think.buf) < Len(ThinkClose)
         [] think.phase = 2 -> think.buf = <<>>
    /\ Len(tool.buf) < Len(ToolOpen) \/ Starts(tool.buf, ToolOpen)

\* A stream tells what the reply says: nothing is held back but what may still be
\* a tag, and at the end the frames add up to the one-shot answer.
StreamFaithful == ReplyTypeOK /\ StreamMatchesOneShot /\ HeldIsATag

\* server.rs:280, "returns `false` to stop early (client disconnect)": no piece is
\* generated after a write to the reader has failed, and the engine is free.  So
\* it is where a connection that broke stays broken (~WritesRecover, TCP's way);
\* a second frame of the callback that does get through hides the first one's
\* failure (WritesRecover).
GoneReaderStops == [][reader = "failed" => raw' = raw]_rsVars

\* server.rs:794 buffers pieces so that a multi-byte character is never split:
\* no reply makes the callback panic.
NeverPanics == rsAt # "panicked"

\* server.rs:160: an unterminated reasoning block stays reasoning, all of it.
UnterminatedStaysReasoning ==
  rsAt = "done" /\ reader = "reading" /\ setup.chat /\ Valid(raw) /\ think.phase = 1 =>
    Trim(got.reason) = OneShot(raw, "stop").reason
=============================================================================
