----------------------------- MODULE MCTokenizer -----------------------------
(* Texts of up to four characters, one of each kind that the scanner tells    *)
(* apart and those a contraction is made of; and, with special tokens, texts  *)
(* of up to five in which one special token begins or ends inside another.    *)
EXTENDS Tokenizer, TLC

CharKind ==
  [c \in {"s", "r", "e", "L"} |-> "letter"] @@ [c \in {"'", "."} |-> "punct"]
  @@ (" " :> "space") @@ ("nl" :> "newline") @@ ("tab" :> "blank") @@ ("1" :> "number")
  @@ ("m" :> "mark") @@ ("ctl" :> "none")
CharLower == [c \in DOMAIN CharKind |-> IF c = "L" THEN "l" ELSE c]
CharUtf8 ==
  ("s" :> <<115>>) @@ ("r" :> <<114>>) @@ ("e" :> <<195, 173>>) @@ ("L" :> <<76>>)
  @@ ("'" :> <<39>>) @@ ("." :> <<46>>) @@ (" " :> <<32>>) @@ ("nl" :> <<10>>)
  @@ ("tab" :> <<226, 128, 131>>) @@ ("ctl" :> <<1>>) @@ ("1" :> <<49>>) @@ ("m" :> <<204, 128>>)

InVocab(s, t) == [text |-> s, type |-> t]
Nested == <<InVocab(<<"s">>, 1), InVocab(<<".", "s">>, 3), InVocab(<<"s", ".">>, 4), InVocab(<<"s", ".", "s">>, 3)>>
Repeating == <<InVocab(<<".", ".">>, 4), InVocab(<<>>, 3), InVocab(<<".">>, 3)>>

UpTo(S, k) == UNION {[1..j -> S] : j \in 0..k}
NoSpecials(S) == {[text |-> t, vocab |-> <<>>, parse |-> FALSE] : t \in S}
TextEncodings ==
  NoSpecials(UpTo(DOMAIN CharKind, 3)) \cup NoSpecials([1..4 -> {"L", "'", "m", " ", "nl", ".", "1"}])
  \cup {[text |-> t, vocab |-> v, parse |-> p] :
          t \in UpTo({"s", ".", " "}, 5), v \in {Nested, Repeating}, p \in BOOLEAN}

\* tokenizer.rs:315 quotes a class that holds a symbol without a flag, such as a
\* control character; the scanner (317, 321) stops before it.  CutsAsTheRegex says
\* so for every text; this is the shortest one that shows it.
ASSUME FlaglessDiverges ==
  /\ Match(<<".", "ctl">>, 1, Symbols) = 3
  /\ Flagless(<<".", "ctl">>, 1) = {2}
=============================================================================
