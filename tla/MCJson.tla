-------------------------------- MODULE MCJson --------------------------------
(* Values nested up to three deep as the writer prints them, with and without *)
(* white space between tokens, and damaged in every place: one character lost *)
(* or doubled.  String literals of up to four pieces: a character as itself,  *)
(* as \u escape, as short escape, and the two halves of a surrogate pair.     *)
EXTENDS Json, TLC

JsonControl == ("^A" :> <<"0", "0", "0", "1">>) @@ ("nul" :> <<"0", "0", "0", "0">>)
JsonNamed == (0 :> "nul") @@ (1 :> "^A") @@ (97 :> "a") @@ (128512 :> "smile")

\* A number of these digits, the point before, among or behind them, and numbers that
\* are written in several forms, in any that RFC 8259 has and in some that it has not.
Number(digits, point) == JNum([digits |-> digits, point |-> point, neg |-> FALSE])
One == Number(<<"1">>, 1)
MinusTwoAndAHalf == JNum([digits |-> <<"2", "5">>, point |-> 1, neg |-> TRUE])
NumberForms ==
  (<<"1", "e", "1">> :> Number(<<"1">>, 2)) @@ (<<"-", "2", ".", "5", "E", "-", "3">> :>
     JNum([digits |-> <<"2", "5">>, point |-> -2, neg |-> TRUE]))
  @@ (<<"0", "1">> :> One) @@ (<<"+", "1">> :> One) @@ (<<"1", ".">> :> One)
  @@ (<<".", "5">> :> Number(<<"5">>, 0)) @@ (<<"-", "0">> :> JNum(Zero))
  @@ (<<"1", "e", "9", "9", "9">> :> JNum(Infinite)) @@ (<<"1", "e", "-", "9", "9", "9">> :> JNum(Zero))

Strings == {<<>>, <<"a">>, <<"\"">>, <<"\\", "a">>, <<"cr">>, <<"nl", "^A">>, <<" ">>,
            <<",", "]">>, <<"tab", "bs", "ff">>}
JsonLeaves == {JNull, JBool(TRUE), JBool(FALSE), One, JNum(Zero), MinusTwoAndAHalf,
               Number(<<"1">>, 17), Number(<<"5">>, -1)} \cup {JStr(s) : s \in Strings}
FewValues == {One, JStr(<<"a">>), JStr(<<"\"">>), JArr(<<>>), JObj(<<>>)}
FlatValues ==
  JsonLeaves \cup {JArr(<<>>), JObj(<<>>)} \cup {JArr(<<v>>) : v \in JsonLeaves}
  \cup {JArr(<<v, w>>) : v, w \in FewValues}
  \cup {JObj(<<<<k, v>>>>) : k \in Strings, v \in FewValues}
  \cup {JObj(<<<<<<"a">>, v>>, <<<<"a">>, w>>>>) : v, w \in FewValues}
DeepValues == {JArr(<<v>>) : v \in {JArr(<<w>>) : w \in FewValues}
                                   \cup {JObj(<<<<<<>>, w>>>>) : w \in FewValues}}
JsonValues == FlatValues \cup DeepValues \cup {JObj(<<<<<<"a">>, v>>>>) : v \in DeepValues}

\* White space around every token but not in a string.
SpacedOut(b, ws) ==
  FlattenSeq([k \in DOMAIN b |->
    IF b[k] \in {"[", "]", "{", "}", ",", ":"} /\ ~InString(b, k) THEN <<ws, b[k], ws>> ELSE <<b[k]>>])
Damaged(b) == {RemoveAt(b, k) : k \in DOMAIN b} \cup {InsertAt(b, k, b[k]) : k \in DOMAIN b}

\* A piece of a literal and the character it stands for.
Escaped(h) == <<"\\", "u">> \o h
LiteralPieces ==
  {[t |-> <<"a">>, c |-> "a"], [t |-> Escaped(<<"0", "0", "6", "1">>), c |-> "a"],
   [t |-> <<"\\", "/">>, c |-> "/"], [t |-> <<"\\", "r">>, c |-> "cr"],
   [t |-> Escaped(<<"d", "8", "3", "d">>), c |-> "high"],
   [t |-> Escaped(<<"d", "e", "0", "0">>), c |-> "low"]}
PairAt(ps, k) == k \in 1..(Len(ps) - 1) /\ ps[k].c = "high" /\ ps[k + 1].c = "low"
Meaning(ps) ==
  FlattenSeq([k \in DOMAIN ps |->
    CASE PairAt(ps, k) -> <<"smile">>
      [] PairAt(ps, k - 1) -> <<>>
      [] ps[k].c \in {"high", "low"} /\ ~PairAt(ps, k) /\ ~PairAt(ps, k - 1) -> <<"U+FFFD">>
      [] OTHER -> <<ps[k].c>>])
\* A high surrogate before an escape that is no low one is left out (json.rs:143).
HalfBeforeEscape(ps) ==
  \E k \in 1..(Len(ps) - 1) :
    ps[k].c = "high" /\ ps[k + 1].c # "low" /\ Len(ps[k + 1].t) > 2
Literals == {ps \in UNION {[1..k -> LiteralPieces] : k \in 1..4} : ~HalfBeforeEscape(ps)}

\* Texts that to_json does not write, and what they stand for: other forms of a number,
\* and control characters that are not escaped.
Bracketed(t) == <<"[">> \o t \o <<"]">>
OtherForms ==
  {[text |-> Bracketed(t), value |-> JArr(<<NumberForms[t]>>)] : t \in DOMAIN NumberForms}
  \cup {[text |-> Bracketed(<<"\"">> \o t \o <<"\"">>), value |-> JArr(<<JStr(t)>>)] :
         t \in {<<"tab">>, <<"nl", "^A">>, <<"a", "nul">>}}

JsonDocuments ==
  UNION {{[text |-> ToJson(v), value |-> v], [text |-> SpacedOut(ToJson(v), " "), value |-> v],
          [text |-> SpacedOut(ToJson(v), "nl"), value |-> v]} : v \in JsonValues}
  \cup {[text |-> <<"\"">> \o FlattenSeq([k \in DOMAIN ps |-> ps[k].t]) \o <<"\"">>,
         value |-> JStr(Meaning(ps))] : ps \in Literals}
  \cup UNION {{[text |-> b, value |-> NoValue] : b \in Damaged(ToJson(v))} : v \in JsonValues}
  \cup {[text |-> SpacedOut(ToJson(v), "cr"), value |-> Readable(v)] : v \in {JNum(Infinite), JArr(<<JNum(Infinite), One>>)}}
  \cup OtherForms
  \cup UNION {{[text |-> b, value |-> NoValue] : b \in Damaged(d.text)} : d \in OtherForms}
=============================================================================
