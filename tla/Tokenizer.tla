------------------------------- MODULE Tokenizer -------------------------------
(***************************************************************************)
(* encode of src/tokenizer.rs before the merges: the text is split at the    *)
(* special tokens (partition), what is left between them into words by the   *)
(* codepoint scanner (scan_qwen35), and each word is byte-encoded.  BpeMerge  *)
(* has what encode_word then does with a word.                               *)
(*                                                                          *)
(* A codepoint is a member of a small set that has one of each kind the      *)
(* scanner tells apart; Kind, Lower and Utf8 give its flags, its lower case   *)
(* and its bytes.                                                           *)
(***************************************************************************)
EXTENDS Integers, SequencesExt, FiniteSetsExt

CONSTANTS
  Kind,     \* codepoint -> one of Kinds (flags_of)
  Lower,    \* codepoint -> to_lower
  Utf8,     \* codepoint -> bytes
  Encodings \* what is encoded: [text, vocab, parse], vocab a sequence of [text, type]

\* Newline and blank are whitespace, too; "none" has no flag: a control character,
\* or one without a category.
White == {"space", "newline", "blank"}
Main == White \cup {"letter", "mark", "number"}
Kinds == Main \cup {"punct", "none"}

ASSUME TokenizerAssumption ==
  /\ \A c \in DOMAIN Kind :
       /\ Kind[c] \in Kinds
       /\ Utf8[c] \in Seq(0..255)
       /\ Lower[c] = "'" <=> c = "'"
  /\ \A e \in Encodings :
       /\ e.text \in Seq(DOMAIN Kind)
       /\ e.vocab \in Seq([text : Seq(DOMAIN Kind), type : Nat])
       /\ e.parse \in BOOLEAN

VARIABLES
  tkAt,     \* "partition", "scan", "done" or "off"
  text, vocab, parse,
  special,  \* the next token of the vocabulary to cut out
  frags,    \* fragments: [id, at, len], id 0 for raw text
  nextFrags,  \* those with the tokens of this round cut out (next)
  frag,     \* the fragment in work
  cursor,   \* how far it has been searched or scanned
  words     \* what was emitted: [id, at, len, cs], cs the encoded bytes

tkVars == <<tkAt, text, vocab, parse, special, frags, nextFrags, frag, cursor, words>>

-----------------------------------------------------------------------------
\* The byte map of GPT-2.
Exempt(b) == b \in 33..126 \/ b \in 161..172 \/ b \in 174..255
ByteToChar == [b \in 0..255 |->
  IF Exempt(b) THEN b ELSE 256 + Cardinality({x \in 0..(b - 1) : ~Exempt(x)})]
\* A word's bytes, codepoint by codepoint.
Bytes(t) == [i \in DOMAIN t |-> Utf8[t[i]]]
ByteEncodeWord(t) == [i \in DOMAIN t |-> [j \in DOMAIN Utf8[t[i]] |-> ByteToChar[Utf8[t[i]][j]]]]
\* A character outside the map stands for its own UTF-8, which no encoded word has.
ByteOfChar(c) == CHOOSE b \in 0..255 : ByteToChar[b] = c
DecodeBytes(cs) == [i \in DOMAIN cs |-> [j \in DOMAIN cs[i] |-> ByteOfChar(cs[i][j])]]

-----------------------------------------------------------------------------
Part(f) == SubSeq(text, f.at, f.at + f.len - 1)
Raw(at, len) == IF len = 0 THEN <<>> ELSE <<[id |-> 0, at |-> at, len |-> len]>>

TkIdle ==
  /\ tkAt = "off" /\ text = <<>> /\ vocab = <<>> /\ parse = FALSE
  /\ special = 1 /\ frags = <<>> /\ nextFrags = <<>> /\ frag = 1 /\ cursor = 0 /\ words = <<>>

TkInit ==
  /\ tkAt = "partition"
  /\ \E e \in Encodings : text = e.text /\ vocab = e.vocab /\ parse = e.parse
  /\ special = 1 /\ nextFrags = <<>> /\ frag = 1 /\ cursor = 0 /\ words = <<>>
  /\ frags = <<[id |-> 0, at |-> 1, len |-> Len(text)]>>

Current == vocab[special]

\* Vocab::from_gguf lists the control (3) and user-defined (4) tokens in the order
\* of ids; control tokens are text unless the caller asks for them.
Listed == Current.type \in {3, 4}
Skipped == ~Listed \/ (~parse /\ Current.type \in {0, 3})
SkipSpecial ==
  /\ tkAt = "partition" /\ special <= Len(vocab) /\ Skipped
  /\ special' = special + 1
  /\ UNCHANGED <<tkAt, text, vocab, parse, frags, nextFrags, frag, cursor, words>>

\* Where the token occurs in a fragment, and what is left to search of the one in
\* work.
OccursAt(i) == Current.text # <<>> /\ SubSeq(text, i, i + Len(Current.text) - 1) = Current.text
Found_Once(f) == {i \in f.at..(f.at + f.len - Len(Current.text)) : OccursAt(i) /\ cursor = 0}
Found(f) == {i \in f.at..(f.at + f.len - Len(Current.text)) : OccursAt(i)}
Rest == [frags[frag] EXCEPT !.at = @ + cursor, !.len = @ - cursor]

Cutting == tkAt = "partition" /\ special <= Len(vocab) /\ ~Skipped /\ frag <= Len(frags)

\* A token, and raw text without an occurrence, goes to the next list as it is.
KeepFragment ==
  /\ Cutting /\ cursor = 0 /\ (frags[frag].id # 0 \/ Found(Rest) = {})
  /\ nextFrags' = Append(nextFrags, frags[frag]) /\ frag' = frag + 1
  /\ UNCHANGED <<tkAt, text, vocab, parse, special, frags, cursor, words>>

\* split_fragment: cut at the first occurrence, whose left part has no other, and
\* go on with what is on its right.
CutToken ==
  /\ Cutting /\ frags[frag].id = 0 /\ Found(Rest) # {}
  /\ LET m == Min(Found(Rest)) IN
     /\ nextFrags' = nextFrags \o Raw(Rest.at, m - Rest.at)
                       \o <<[id |-> special, at |-> m, len |-> Len(Current.text)]>>
     /\ cursor' = m + Len(Current.text) - frags[frag].at
  /\ UNCHANGED <<tkAt, text, vocab, parse, special, frags, frag, words>>

KeepRest ==
  /\ Cutting /\ cursor > 0 /\ Found(Rest) = {}
  /\ nextFrags' = nextFrags \o Raw(Rest.at, Rest.len)
  /\ frag' = frag + 1 /\ cursor' = 0
  /\ UNCHANGED <<tkAt, text, vocab, parse, special, frags, words>>

NextSpecial ==
  /\ tkAt = "partition" /\ special <= Len(vocab) /\ ~Skipped /\ frag > Len(frags)
  /\ special' = special + 1 /\ frag' = 1
  /\ frags' = nextFrags /\ nextFrags' = <<>>
  /\ UNCHANGED <<tkAt, text, vocab, parse, cursor, words>>

Partitioned ==
  /\ tkAt = "partition" /\ special > Len(vocab)
  /\ tkAt' = "scan" /\ frag' = 1 /\ cursor' = 0
  /\ UNCHANGED <<text, vocab, parse, special, frags, nextFrags, words>>

-----------------------------------------------------------------------------
\* The scanner.  p counts from 1 within the fragment; past its end there is a
\* codepoint without flags.
Cs == Part(frags[frag])
CAt(p) == IF p <= Len(Cs) THEN Cs[p] ELSE "end"
KindAt(p) == IF p <= Len(Cs) THEN Kind[Cs[p]] ELSE "none"
Is(p, kinds) == KindAt(p) \in kinds
LowerAt(p) == IF p <= Len(Cs) THEN Lower[Cs[p]] ELSE "end"

\* The first place from p on that is not of the kinds.
Past(p, kinds) == Min({q \in p..(Len(Cs) + 1) : ~Is(q, kinds)})

\* (?i:'s|'t|'re|'ve|'m|'ll|'d)
Contraction(p) ==
  IF CAt(p) # "'" THEN {}
  ELSE IF LowerAt(p + 1) \in {"s", "t", "m", "d"} THEN {p + 2}
  ELSE IF <<LowerAt(p + 1), LowerAt(p + 2)>> \in {<<"r", "e">>, <<"v", "e">>, <<"l", "l">>} THEN {p + 3}
  ELSE {}

\* [^\r\n\p{L}\p{N}]?[\p{L}\p{M}]+
LetterRun(p) ==
  IF ~Is(p, {"newline", "number"}) /\ (Is(p, {"letter", "mark"}) \/ Is(p + 1, {"letter", "mark"}))
  THEN {Past(p + 1, {"letter", "mark"})} ELSE {}

Digit(p) == IF Is(p, {"number"}) THEN {p + 1} ELSE {}

\* <space>?[^\s\p{L}\p{M}\p{N}]+[\r\n]*
PunctRun(p) ==
  LET f2 == IF Is(p, {"space"}) THEN p + 1 ELSE p IN
  IF ~Is(f2, Main) /\ ~Is(p, {"none"}) THEN {Past(Past(f2, {"punct"}), {"newline"})} ELSE {}

\* \s*[\r\n]+ | \s+(?!\S) | \s+
WhiteRun_All(p) == IF Is(p, White) THEN {Past(p, White)} ELSE {}
WhiteRun(p) ==
  LET q == Past(p, White)
      newlines == {i \in p..(q - 1) : Is(i, {"newline"})} IN
  IF q = p THEN {}
  ELSE IF newlines # {} THEN {Max(newlines) + 1}
  ELSE IF q > p + 1 /\ q <= Len(Cs) THEN {q - 1} ELSE {q}

\* The first of the sets that has an element.
FirstOf(sets) == sets[Min({k \in DOMAIN sets : sets[k] # {}})]

\* The order of the tests; what nothing matches is a word by itself.
WordEnd(p) ==
  CHOOSE e \in FirstOf(<<Contraction(p), LetterRun(p), Digit(p), PunctRun(p), WhiteRun(p), {p + 1}>>) : TRUE

EmitPiece(id, at, len, cs) == words' = Append(words, [id |-> id, at |-> at, len |-> len, cs |-> cs])

ScanWord ==
  /\ tkAt = "scan" /\ frag <= Len(frags) /\ frags[frag].id = 0 /\ cursor < Len(Cs)
  /\ LET e == WordEnd(cursor + 1) - 1 IN
     /\ EmitPiece(0, frags[frag].at + cursor, e - cursor, ByteEncodeWord(SubSeq(Cs, cursor + 1, e)))
     /\ cursor' = e
  /\ UNCHANGED <<tkAt, text, vocab, parse, special, frags, nextFrags, frag>>

EmitSpecial ==
  /\ tkAt = "scan" /\ frag <= Len(frags) /\ frags[frag].id # 0 /\ cursor = 0
  /\ LET f == frags[frag] IN EmitPiece(f.id, f.at, f.len, <<>>) /\ cursor' = f.len
  /\ UNCHANGED <<tkAt, text, vocab, parse, special, frags, nextFrags, frag>>

NextFrag ==
  /\ tkAt = "scan" /\ frag <= Len(frags) /\ cursor >= Len(Cs)
  /\ frag' = frag + 1 /\ cursor' = 0
  /\ UNCHANGED <<tkAt, text, vocab, parse, special, frags, nextFrags, words>>

EndEncode ==
  /\ tkAt = "scan" /\ frag > Len(frags)
  /\ tkAt' = "done"
  /\ UNCHANGED <<text, vocab, parse, special, frags, nextFrags, frag, cursor, words>>

TkNext ==
  \/ SkipSpecial \/ KeepFragment \/ CutToken \/ KeepRest \/ NextSpecial \/ Partitioned
  \/ ScanWord \/ EmitSpecial \/ NextFrag \/ EndEncode
TkSpec == TkInit /\ [][TkNext]_tkVars

-----------------------------------------------------------------------------
\* The pieces are the text: fragments and, at the end, words follow each other
\* without a gap or an overlap, and the bytes of the words decode to the text's.
EndOf(f) == f.at + f.len
Tiles(fs) ==
  /\ \A i \in DOMAIN fs : fs[i].len >= 0
  /\ IF fs = <<>> THEN text = <<>> ELSE fs[1].at = 1 /\ EndOf(fs[Len(fs)]) = Len(text) + 1
  /\ \A i \in 1..(Len(fs) - 1) : fs[i + 1].at = EndOf(fs[i])
PiecesAreTheText ==
  /\ tkAt # "off" => Tiles(frags)
  /\ tkAt = "done" =>
       /\ Tiles(words)
       /\ \A i \in DOMAIN words : words[i].id = 0 => DecodeBytes(words[i].cs) = Bytes(Part(words[i]))

\* After the partition no raw fragment holds a special token that counts, and a
\* special fragment holds its own; a control token counts only on request.
NoSpecialIsLeft ==
  tkAt \in {"scan", "done"} =>
    \A i \in DOMAIN frags :
      IF frags[i].id # 0
      THEN /\ Part(frags[i]) = vocab[frags[i].id].text
           /\ parse \/ vocab[frags[i].id].type = 4
      ELSE \A v \in DOMAIN vocab :
             vocab[v].text # <<>> /\ (vocab[v].type = 4 \/ (parse /\ vocab[v].type = 3)) =>
               \A a, b \in DOMAIN Part(frags[i]) : SubSeq(Part(frags[i]), a, b) # vocab[v].text

\* The regular expression of qwen35's pre-tokenizer: the ends of what each
\* alternative matches from p on in c.  Symbols is the class [^\s\p{L}\p{M}\p{N}].
Symbols == Kinds \ Main
Ends(c, p) == (p + 1)..(Len(c) + 1)
Within(c, p, e, kinds) == \A i \in p..(e - 1) : Kind[c[i]] \in kinds
LowerOf(c, p, e) == [i \in 1..(e - p) |-> Lower[c[p + i - 1]]]
ByApostrophe(c, p) ==
  {e \in Ends(c, p) : LowerOf(c, p, e) \in {<<"'", "s">>, <<"'", "t">>, <<"'", "m">>, <<"'", "d">>,
                                           <<"'", "r", "e">>, <<"'", "v", "e">>, <<"'", "l", "l">>}}
ByLetters(c, p) ==
  {e \in Ends(c, p) : \E s \in {p, p + 1} :
     /\ s < e /\ Within(c, s, e, {"letter", "mark"})
     /\ Within(c, p, s, {"space", "blank", "mark", "punct", "none"})}
ByDigit(c, p) == {e \in Ends(c, p) : e = p + 1 /\ Within(c, p, e, {"number"})}
BySymbols(c, p, symbols) ==
  {e \in Ends(c, p) : \E s \in {p, p + 1}, m \in Ends(c, p) :
     s < m /\ m <= e /\ Within(c, p, s, {"space"}) /\ Within(c, s, m, symbols) /\ Within(c, m, e, {"newline"})}
ByNewline(c, p) == {e \in Ends(c, p) : Within(c, p, e, White) /\ Kind[c[e - 1]] = "newline"}
BeforeWhite(c, p) == {e \in Ends(c, p) : Within(c, p, e, White) /\ (e <= Len(c) => Kind[c[e]] \in White)}
ByWhite(c, p) == {e \in Ends(c, p) : Within(c, p, e, White)}
\* The last is what nothing matches.
Alternatives(c, p, symbols) ==
  <<ByApostrophe(c, p), ByLetters(c, p), ByDigit(c, p), BySymbols(c, p, symbols),
    ByNewline(c, p), BeforeWhite(c, p), ByWhite(c, p), {p + 1}>>
Match(c, p, symbols) == Max(FirstOf(Alternatives(c, p, symbols)))

\* The codepoints without a flag among the symbols that the expression matches from
\* p on.
Flagless(c, p) ==
  {q \in p..(Match(c, p, Symbols) - 1) :
     Kind[c[q]] = "none" /\ \A k \in 1..3 : Alternatives(c, p, Symbols)[k] = {}}

\* A word ends where the longest match of the first alternative that matches where
\* it begins ends, within its fragment; but of symbols the scanner takes those with
\* a flag only (tokenizer.rs:317, 321): the word ends before the first without one,
\* unless it begins with it: then it is the word.
ScansAsTheRegex ==
  \A i \in DOMAIN words : words[i].id = 0 =>
    \A f \in DOMAIN frags :
      LET c == Part(frags[f])
          p == words[i].at - frags[f].at + 1 IN
      frags[f].id = 0 /\ p \in DOMAIN c =>
        p + words[i].len = IF Flagless(c, p) = {} THEN Match(c, p, Symbols)
                           ELSE Max({p + 1, Min(Flagless(c, p))})

\* A text is cut without loss, every special token that counts is cut out, in
\* whatever order the vocabulary lists them, and what lies between is split into
\* words as the regular expression would, but for symbols without a flag.
CutsAsTheRegex == PiecesAreTheText /\ NoSpecialIsLeft /\ ScansAsTheRegex
====
