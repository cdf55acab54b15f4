--------------------------------- MODULE Json ---------------------------------
(***************************************************************************)
(* src/json.rs: the parser of request bodies and of tool arguments, the      *)
(* writer of tool arguments and the escaping of everything that a frame of    *)
(* the answer carries.  A document is a sequence of characters; a multi-byte  *)
(* character is one of them.  A float is its significant digits and the place *)
(* of the point, without rounding: literals have few digits.                 *)
(***************************************************************************)
EXTENDS Integers, SequencesExt, FiniteSetsExt

CONSTANTS
  Documents,  \* what is parsed: [text, value], the value it was written from or
              \* NoValue
  Named,      \* codepoint -> character, of those that are written as escapes
  Control     \* control characters without an escape of their own -> hex digits

NoValue == [j |-> "none"]
JNull == [j |-> "null"]
JBool(b) == [j |-> "bool", b |-> b]
JNum(n) == [j |-> "num", n |-> n]
JStr(s) == [j |-> "str", s |-> s]
JArr(items) == [j |-> "arr", items |-> items]
JObj(pairs) == [j |-> "obj", pairs |-> pairs]

VARIABLES
  jsAt,      \* "parse", "write", "done" or "off"
  document,
  parsed,    \* what parse returned: [ok, v, i]
  written    \* to_json of it

jsVars == <<jsAt, document, parsed, written>>

-----------------------------------------------------------------------------
\* The digits that a writer uses; from_str_radix takes capitals and a sign as well.
HexDigit == <<"0", "1", "2", "3", "4", "5", "6", "7", "8", "9", "a", "b", "c", "d", "e", "f">>

\* A parser takes the text b and the place i of the next character, and returns
\* the value and the place behind it.
GoodJson(v, i) == [ok |-> TRUE, v |-> v, i |-> i]
BadJson == [ok |-> FALSE, v |-> NoValue, i |-> 0]
CharAt(b, i) == IF i <= Len(b) THEN b[i] ELSE "end"

JsonWhite == {" ", "tab", "nl", "cr"}
SkipWs(b, i) == CHOOSE k \in i..(Len(b) + 1) :
                  /\ \A m \in i..(k - 1) : b[m] \in JsonWhite
                  /\ CharAt(b, k) \notin JsonWhite

Lit(b, i, word, v) ==
  IF i + Len(word) - 1 <= Len(b) /\ SubSeq(b, i, i + Len(word) - 1) = word THEN GoodJson(v, i + Len(word)) ELSE BadJson

NumberChars == {"-", "+", ".", "e", "E", "0", "1", "2", "3", "4", "5", "6", "7", "8", "9"}

\* parse::<f64>: a sign, digits with or without a point among, before or behind
\* them, an exponent; too large is infinite and too small zero.
DigitChars == {"0", "1", "2", "3", "4", "5", "6", "7", "8", "9"}
NoNumber == [digits |-> <<>>, point |-> -1, neg |-> FALSE]
Zero == [digits |-> <<>>, point |-> 0, neg |-> FALSE]
Infinite == [digits |-> <<>>, point |-> 310, neg |-> FALSE]
Signed(s) == s # <<>> /\ Head(s) \in {"-", "+"}
Unsigned(s) == IF Signed(s) THEN Tail(s) ELSE s
\* The part before the first of the marks, and the part behind it.
Upto(s, marks) == LET k == SelectInSeq(s, LAMBDA c : c \in marks) IN IF k = 0 THEN s ELSE SubSeq(s, 1, k - 1)
Behind(s, marks) == SubSeq(s, Len(Upto(s, marks)) + 2, Len(s))
AllDigits(s) == ToSet(s) \subseteq DigitChars
NatOf(s) == FoldLeft(LAMBDA acc, c : 10 * acc + (CHOOSE d \in 0..9 : HexDigit[d + 1] = c), 0, s)
Parsed(literal) ==
  LET E == {"e", "E"}
      mantissa == Upto(Unsigned(literal), E)
      exponent == Behind(Unsigned(literal), E)
      power == NatOf(Unsigned(exponent)) * IF Signed(exponent) /\ Head(exponent) = "-" THEN -1 ELSE 1
      whole == Upto(mantissa, {"."})
      all == whole \o Behind(mantissa, {"."})
      first == SelectInSeq(all, LAMBDA c : c # "0")
      point == Len(whole) - (first - 1) + power IN
  IF ~AllDigits(all) \/ all = <<>> \/ ~AllDigits(Unsigned(exponent))
     \/ (Unsigned(exponent) = <<>> /\ ToSet(literal) \cap E # {})
  THEN NoNumber
  ELSE IF first = 0 \/ point < -323 THEN Zero
  ELSE IF point > 309 THEN Infinite
  ELSE [digits |-> SubSeq(all, first, SelectLastInSeq(all, LAMBDA c : c # "0")), point |-> point,
        neg |-> Head(literal) = "-"]

ParseNum(b, i) ==
  LET k == CHOOSE k \in i..(Len(b) + 1) :
             /\ \A m \in i..(k - 1) : b[m] \in NumberChars
             /\ CharAt(b, k) \notin NumberChars
      literal == SubSeq(b, i, k - 1) IN
  IF Parsed(literal) = NoNumber THEN BadJson ELSE GoodJson(JNum(Parsed(literal)), k)

Digits(b, i) == SubSeq(b, i, i + 3)
IsHex4(b, i) == i + 3 <= Len(b) /\ \A k \in 1..4 : Digits(b, i)[k] \in ToSet(HexDigit)
Hex4(b, i) ==
  FoldLeft(LAMBDA acc, c : 16 * acc + (CHOOSE d \in 0..15 : HexDigit[d + 1] = c), 0, Digits(b, i))

\* char::from_u32
High(cp) == cp >= 55296 /\ cp < 56320
LowHalf(cp) == cp >= 56320 /\ cp < 57344
CharOf(cp) ==
  IF High(cp) \/ LowHalf(cp) \/ cp >= 1114112 THEN "U+FFFD"
  ELSE IF cp \in DOMAIN Named THEN Named[cp] ELSE "unnamed"

\* The second half is taken for a low surrogate without a look.
Paired_NoBase(hi, lo) == CharOf((hi - 55296) * 1024 + lo - 56320)
Paired(hi, lo) == CharOf(65536 + (hi - 55296) * 1024 + lo - 56320)

Simple == ("\"" :> "\"") @@ ("\\" :> "\\") @@ ("/" :> "/") @@ ("b" :> "bs") @@ ("f" :> "ff")
          @@ ("n" :> "nl") @@ ("r" :> "cr") @@ ("t" :> "tab")

RECURSIVE ParseChars(_, _, _)
ParseChars(b, i, out) ==
  LET c == CharAt(b, i)
      e == CharAt(b, i + 1) IN
  IF c = "end" THEN BadJson
  ELSE IF c = "\"" THEN GoodJson(out, i + 1)
  ELSE IF c # "\\" THEN ParseChars(b, i + 1, Append(out, c))
  ELSE IF e \in DOMAIN Simple THEN ParseChars(b, i + 2, Append(out, Simple[e]))
  ELSE IF e # "u" \/ ~IsHex4(b, i + 2) THEN BadJson
  ELSE IF High(Hex4(b, i + 2)) /\ CharAt(b, i + 6) = "\\" /\ CharAt(b, i + 7) = "u"
  THEN IF ~IsHex4(b, i + 8) THEN BadJson
       ELSE ParseChars(b, i + 12, Append(out, Paired(Hex4(b, i + 2), Hex4(b, i + 8))))
  ELSE ParseChars(b, i + 6, Append(out, CharOf(Hex4(b, i + 2))))
ParseStr(b, i) == IF CharAt(b, i) # "\"" THEN BadJson ELSE ParseChars(b, i + 1, <<>>)

RECURSIVE ParseValue(_, _), ParseItems(_, _, _), ParsePairs(_, _, _)
ParseValue(b, at) ==
  LET i == SkipWs(b, at)
      c == CharAt(b, i)
      first == SkipWs(b, i + 1) IN
  CASE c = "end" -> BadJson
    [] c = "{" -> IF CharAt(b, first) = "}" THEN GoodJson(JObj(<<>>), first + 1) ELSE ParsePairs(b, first, <<>>)
    [] c = "[" -> IF CharAt(b, first) = "]" THEN GoodJson(JArr(<<>>), first + 1) ELSE ParseItems(b, first, <<>>)
    [] c = "\"" -> LET s == ParseStr(b, i) IN IF s.ok THEN GoodJson(JStr(s.v), s.i) ELSE BadJson
    [] c = "t" -> Lit(b, i, <<"t", "r", "u", "e">>, JBool(TRUE))
    [] c = "f" -> Lit(b, i, <<"f", "a", "l", "s", "e">>, JBool(FALSE))
    [] c = "n" -> Lit(b, i, <<"n", "u", "l", "l">>, JNull)
    [] OTHER -> ParseNum(b, i)

ParseItems(b, at, items) ==
  LET v == ParseValue(b, at)
      i == SkipWs(b, v.i)
      all == Append(items, v.v) IN
  IF ~v.ok THEN BadJson
  ELSE IF CharAt(b, i) = "]" THEN GoodJson(JArr(all), i + 1)
  ELSE IF CharAt(b, i) = "," THEN ParseItems(b, i + 1, all)
  ELSE BadJson

ParsePairs(b, at, pairs) ==
  LET k == ParseStr(b, SkipWs(b, at))
      colon == SkipWs(b, k.i)
      v == ParseValue(b, colon + 1)
      i == SkipWs(b, v.i)
      all == Append(pairs, <<k.v, v.v>>) IN
  IF ~k.ok THEN BadJson
  ELSE IF CharAt(b, colon) # ":" \/ ~v.ok THEN BadJson
  ELSE IF CharAt(b, i) = "}" THEN GoodJson(JObj(all), i + 1)
  ELSE IF CharAt(b, i) = "," THEN ParsePairs(b, i + 1, all)
  ELSE BadJson

JsonParse(b) ==
  LET v == ParseValue(b, 1) IN
  IF v.ok /\ SkipWs(b, v.i) = Len(b) + 1 THEN v ELSE BadJson

-----------------------------------------------------------------------------
\* escape and to_json.
EscapeOf == [c \in {"\"", "\\", "nl", "cr", "tab", "bs", "ff"} |->
  CASE c = "\"" -> "\"" [] c = "\\" -> "\\" [] c = "nl" -> "n" [] c = "cr" -> "r" [] c = "tab" -> "t"
    [] c = "bs" -> "b" [] c = "ff" -> "f"]
Escape(s) ==
  FlattenSeq([k \in DOMAIN s |->
    IF s[k] \in DOMAIN EscapeOf THEN <<"\\", EscapeOf[s[k]]>>
    ELSE IF s[k] \in DOMAIN Control THEN <<"\\", "u">> \o Control[s[k]] ELSE <<s[k]>>])
Quoted(s) == <<"\"">> \o Escape(s) \o <<"\"">>
Commas(parts) == FlattenSeq([k \in DOMAIN parts |-> IF k = 1 THEN parts[k] ELSE <<",">> \o parts[k]])

\* A float is printed without an exponent.
Zeros(k) == [i \in 1..k |-> "0"]
Printed(x) ==
  LET k == Len(x.digits) IN
  (IF x.neg THEN <<"-">> ELSE <<>>) \o
  CASE x = Zero -> <<"0">>
    [] x # Zero /\ x.point <= 0 -> <<"0", ".">> \o Zeros(-x.point) \o x.digits
    [] x.point >= k /\ x.point > 0 -> x.digits \o Zeros(x.point - k)
    [] OTHER -> SubSeq(x.digits, 1, x.point) \o <<".">> \o SubSeq(x.digits, x.point + 1, k)

RECURSIVE ToJson(_)
ToJson(v) ==
  CASE v.j = "null" -> <<"n", "u", "l", "l">>
    [] v.j = "bool" -> IF v.b THEN <<"t", "r", "u", "e">> ELSE <<"f", "a", "l", "s", "e">>
    [] v.j = "num" -> IF v.n = Infinite THEN <<"n", "u", "l", "l">> ELSE Printed(v.n)
    [] v.j = "str" -> Quoted(v.s)
    [] v.j = "arr" -> <<"[">> \o Commas([k \in DOMAIN v.items |-> ToJson(v.items[k])]) \o <<"]">>
    [] v.j = "obj" ->
         <<"{">> \o Commas([k \in DOMAIN v.pairs |->
                             Quoted(v.pairs[k][1]) \o <<":">> \o ToJson(v.pairs[k][2])]) \o <<"}">>

-----------------------------------------------------------------------------
JsIdle == jsAt = "off" /\ document = [text |-> <<>>, value |-> NoValue] /\ parsed = BadJson /\ written = <<>>
JsInit == jsAt = "parse" /\ document \in Documents /\ parsed = BadJson /\ written = <<>>

ParseIt ==
  /\ jsAt = "parse"
  /\ parsed' = JsonParse(document.text)
  /\ jsAt' = IF parsed'.ok THEN "write" ELSE "done"
  /\ UNCHANGED <<document, written>>

WriteIt ==
  /\ jsAt = "write"
  /\ written' = ToJson(parsed.v)
  /\ jsAt' = "done"
  /\ UNCHANGED <<document, parsed>>

JsNext == ParseIt \/ WriteIt
JsSpec == JsInit /\ [][JsNext]_jsVars
-----------------------------------------------------------------------------
\* What can be read of a value that was written: infinity is written as null.
RECURSIVE Readable(_)
Readable(v) ==
  CASE v = JNum(Infinite) -> JNull
    [] v.j = "arr" -> JArr([k \in DOMAIN v.items |-> Readable(v.items[k])])
    [] v.j = "obj" -> JObj([k \in DOMAIN v.pairs |-> <<v.pairs[k][1], Readable(v.pairs[k][2])>>])
    [] OTHER -> v

\* A document is read as the value it stands for, with or without white space: an
\* escape as its character, a pair of surrogates one character, half a pair a
\* replacement, a number whatever its form.  What was read and is written again, as
\* the arguments of a tool call are (src/server.rs:616 and 244), is read as the same
\* once more, but for infinity.
ReadsWhatItWrote ==
  jsAt = "done" =>
    /\ document.value # NoValue => parsed.ok /\ parsed.v = document.value
    /\ parsed.ok => JsonParse(written).ok /\ JsonParse(written).v = Readable(parsed.v)

InString(b, k) ==
  FoldLeft(LAMBDA acc, c : CASE acc = "out" -> (IF c = "\"" THEN "in" ELSE "out")
                             [] acc = "esc" -> "in"
                             [] OTHER -> (IF c = "\"" THEN "out" ELSE IF c = "\\" THEN "esc" ELSE "in"),
           "out", SubSeq(b, 1, k)) # "out"

\* A word is a literal with what touches it.  Canonical text has no white space
\* between the tokens, numbers as they are printed, and no control character in a
\* string but as an escape; escapes stay as they are.
WordChars == NumberChars \cup {"t", "r", "u", "f", "a", "l", "s", "n"}
InWord(b, k) == k \in DOMAIN b /\ b[k] \in WordChars /\ ~InString(b, k)
WordAt(b, k) == SubSeq(b, k, Max({e \in k..Len(b) : \A i \in k..e : InWord(b, i)}))
CanonWord(w) ==
  CASE Parsed(w) = NoNumber -> w
    [] Parsed(w) = Infinite -> <<"n", "u", "l", "l">>
    [] OTHER -> Printed(Parsed(w))
Canon(b) ==
  FlattenSeq([k \in DOMAIN b |->
    CASE InString(b, k) -> IF b[k] \in {"\"", "\\"} THEN <<b[k]>> ELSE Escape(<<b[k]>>)
      [] InWord(b, k) -> IF InWord(b, k - 1) THEN <<>> ELSE CanonWord(WordAt(b, k))
      [] b[k] \in JsonWhite /\ ~InString(b, k) -> <<>>
      [] OTHER -> <<b[k]>>])

\* A damaged document (a character lost or doubled) is refused, unless what is
\* left is a document in the parser's own, wider sense, whose numbers may have any
\* form of Rust's and whose strings may hold control characters as they are; and
\* then all of it has been read: nothing is skipped or made up.
AcceptsOnlyDocuments ==
  jsAt = "done" /\ document.value = NoValue /\ parsed.ok => written = Canon(document.text)

\* A frame of an event stream ends at the first line break (src/server.rs:493):
\* what is written for a text has none, and no control character at all.
FramesStayWhole ==
  ToSet(written) \cap ({"nl", "cr", "tab", "bs", "ff"} \cup DOMAIN Control) = {}

\* Parser and writer are inverse but for infinity, what is read is read whole, and
\* what is written fits one line of an event stream.
JsonFaithful == ReadsWhatItWrote /\ AcceptsOnlyDocuments /\ FramesStayWhole
=============================================================================
