----------------------------- MODULE Model_proof -----------------------------
(***************************************************************************)
(* Proofs about Decoder, for any number of layers, any interval of full    *)
(* attention, any convolution kernel, any taps and sequences of any length, *)
(* and about Sampler, for any row of logits and any settings.               *)
(***************************************************************************)
EXTENDS Decoder, Sampler, Pieces_proof, FiniteSetTheorems, TLAPS

now == Append(fed, tok)

\* What the caches of layer l hold when it has seen the tokens of s.
RowsAre(l, r, s) ==
  /\ Len(r) = Len(s)
  /\ \A j \in 1..Len(s) : r[j] = [in |-> InputAt(l, s, j), pos |-> j - 1]
WindowInput(l, s, j, i) ==
  IF j + i > NPrev + 1 THEN InputAt(l, s, j + i - NPrev - 1) ELSE Zero
ConvIs(l, c, s) == \A i \in 1..NPrev : c[i] = WindowInput(l, s, Len(s) + 1, i)
WindowIs(l, w, s, j) ==
  /\ Len(w) = NPrev + 1
  /\ \A i \in 1..(NPrev + 1) : w[i] = WindowInput(l, s, j, i)
StateIs(l, ws, s) ==
  /\ Len(ws) = Len(s)
  /\ \A j \in 1..Len(s) : WindowIs(l, ws[j], s, j)

\* Which part of layer l this forward has passed.
Passed(l, steps) == pc # "idle" /\ (l < il \/ (l = il /\ pc \in steps))
Seen(b) == IF b THEN now ELSE fed
AfterKv == {"attend", "ffn", "norm"}
AfterConv == {"fold", "recur", "ffn", "norm"}
AfterFold == {"recur", "ffn", "norm"}
AfterTap == {"append", "attend", "convolve", "fold", "recur", "ffn", "norm"}

Places ==
  /\ pc # "idle" => ~failed
  /\ pc \in {"append", "attend"} => il \in AttnLayers
  /\ pc \in {"convolve", "fold", "recur"} => il \in SsmLayers
  /\ pc = "norm" => il = NLayers - 1

KvRight ==
  \A l \in AttnLayers, st \in Stores :
    IF st \in Used THEN RowsAre(l, cache[l][st], Seen(Passed(l, AfterKv)))
                   ELSE cache[l][st] = <<>>
ConvRight == \A l \in SsmLayers : ConvIs(l, conv[l], Seen(Passed(l, AfterConv)))
StateRight == \A l \in SsmLayers : StateIs(l, state[l], Seen(Passed(l, AfterFold)))
WindowRight == pc = "fold" => WindowIs(il, window, now, Len(now))
StreamRight ==
  /\ pc \in {"tap", "append", "attend", "convolve", "fold", "recur"} =>
       cur = InputAt(il, now, Len(now))
  /\ pc \in {"ffn", "norm"} => cur = now
TapsSoFar ==
  \A l \in Wanted : Passed(l, AfterTap) => taps[l] = InputAt(l, now, Len(now))

\* The inductive invariant: while nothing failed, every cache of a layer holds
\* the sequence up to the token that this layer has last seen.
IInv ==
  /\ TypeOK /\ Places /\ TornByOne
  /\ ~failed => /\ KvRight /\ ConvRight /\ StateRight
                /\ WindowRight /\ StreamRight /\ TapsSoFar
                /\ HiddenRight /\ TapsRight

-----------------------------------------------------------------------------
\* A function on 1..n is a sequence of length n.
LEMMA FunIsSeq ==
  ASSUME NEW S, NEW n \in Nat, NEW f \in [1..n -> S]
  PROVE  f \in Seq(S) /\ Len(f) = n
<1>1. f \in Seq(S)
  BY SeqDef
<1>2. DOMAIN f = 1..Len(f) /\ Len(f) \in Nat
  BY <1>1, LenProperties
<1>3. 1..n = 1..Len(f)
  BY <1>2
<1>4. QED BY <1>1, <1>2, <1>3

LEMMA TokensAreDigests ==
  ASSUME NEW s \in Seq(Token)
  PROVE  s \in Digests
BY SeqMonotonic DEF Digests

\* The input of a layer is a prefix that ends in the token itself.
LEMMA InputFacts ==
  ASSUME NEW l, NEW s \in Seq(Token), NEW j \in 1..Len(s)
  PROVE  /\ InputAt(l, s, j) \in Seq(Token)
         /\ InputAt(l, s, j) \in Digests
         /\ End(InputAt(l, s, j)) = s[j]
<1>1. Len(s) \in Nat /\ s[j] \in Token
  BY LenProperties, ElementOfSeq
<1>2. CASE l = 0
  <2>1. <<s[j]>> \in Seq(Token) /\ Len(<<s[j]>>) = 1 /\ <<s[j]>>[1] = s[j]
    BY <1>1
  <2>2. QED BY <1>2, <2>1, TokensAreDigests DEF InputAt, End
<1>3. CASE l # 0
  <2>1. \A i \in 1..j : s[i] \in Token
    BY <1>1, ElementOfSeq
  <2>2. /\ SubSeq(s, 1, j) \in Seq(Token)
        /\ Len(SubSeq(s, 1, j)) = j
        /\ \A i \in 1..j : SubSeq(s, 1, j)[i] = s[i]
    BY <1>1, <2>1, SubSeqProperties
  <2>3. SubSeq(s, 1, j)[Len(SubSeq(s, 1, j))] = s[j]
    BY <1>1, <2>2
  <2>4. QED BY <1>3, <2>2, <2>3, TokensAreDigests DEF InputAt, End
<1>4. QED BY <1>2, <1>3

\* One more token changes no earlier input.
LEMMA InputStays ==
  ASSUME NEW l, NEW s \in Seq(Token), NEW t \in Token, NEW j \in 1..Len(s)
  PROVE  InputAt(l, Append(s, t), j) = InputAt(l, s, j)
<1> DEFINE e == Append(s, t)
<1>1. /\ e \in Seq(Token) /\ Len(e) = Len(s) + 1 /\ Len(s) \in Nat
      /\ \A i \in 1..Len(s) : e[i] = s[i]
  BY AppendProperties, LenProperties
<1>2. \A i \in 1..j : s[i] \in Token /\ e[i] \in Token /\ e[i] = s[i]
  BY <1>1, ElementOfSeq
<1>3. /\ SubSeq(s, 1, j) \in Seq(Token) /\ SubSeq(e, 1, j) \in Seq(Token)
      /\ Len(SubSeq(s, 1, j)) = j /\ Len(SubSeq(e, 1, j)) = j
      /\ \A i \in 1..j : SubSeq(s, 1, j)[i] = s[i] /\ SubSeq(e, 1, j)[i] = e[i]
  BY <1>1, <1>2, SubSeqProperties
<1>4. SubSeq(e, 1, j) = SubSeq(s, 1, j)
  BY <1>2, <1>3, SeqEqual
<1>5. QED BY <1>1, <1>4 DEF InputAt

\* Above layer 0 the input for the last token is the whole sequence.
LEMMA InputOfLast ==
  ASSUME NEW l \in Nat \ {0}, NEW s \in Seq(Token)
  PROVE  InputAt(l, s, Len(s)) = s
BY SubSeqFull DEF InputAt

\* A layer that has seen the right inputs computes the right output.
LEMMA MixRight ==
  ASSUME NEW l, NEW s \in Seq(Token), NEW ins,
         ins = [j \in 1..Len(s) |-> InputAt(l, s, j)]
  PROVE  Mix(l, ins) = s
<1>1. Len(s) \in Nat /\ s \in [1..Len(s) -> Token]
  BY LenProperties
<1>2. ins \in [1..Len(s) -> Digests]
  BY InputFacts
<1>3. Len(ins) = Len(s)
  BY <1>1, <1>2, FunIsSeq
<1>4. \A j \in 1..Len(s) : ins[j] = InputAt(l, s, j) /\ End(ins[j]) = s[j]
  BY InputFacts
<1>5. [j \in 1..Len(ins) |-> End(ins[j])] = s
  BY <1>1, <1>3, <1>4
<1>6. QED BY <1>3, <1>4, <1>5 DEF Mix

LEMMA NowFacts ==
  ASSUME TypeOK
  PROVE  /\ now \in Seq(Token)
         /\ Len(fed) \in Nat
         /\ Len(now) = Len(fed) + 1
         /\ now[Len(fed) + 1] = tok
         /\ now # <<>>
         /\ NPrev \in Nat \ {0}
BY AppendProperties, LenProperties, ShapeAssumption, DecoderAssumption DEF TypeOK, now

LEMMA CountedIsUsed == Counted \in Used /\ Used \subseteq Stores /\ Counted \in Stores
BY DEF Counted, Used, Stores

\* Attention over the rows of the sequence so far.
LEMMA AttendRight ==
  ASSUME TypeOK, NEW l \in AttnLayers,
         \A st \in Used : RowsAre(l, cache[l][st], now),
         cur = InputAt(l, now, Len(now))
  PROVE  Attended(l) = now
<1> DEFINE n == pos + 1
<1>1. /\ now \in Seq(Token) /\ n = Len(now) /\ n \in Nat \ {0}
  BY NowFacts DEF pos
<1>2. \A st \in Used : cache[l][st] \in Seq(Rows)
  BY CountedIsUsed DEF TypeOK
<1>3. \A st \in Used :
        /\ Len(cache[l][st]) = n
        /\ \A j \in 1..n : /\ cache[l][st][j].in = InputAt(l, now, j)
                          /\ cache[l][st][j].pos = j - 1
  <2> SUFFICES ASSUME NEW st \in Used, NEW r, r = cache[l][st]
               PROVE  /\ Len(r) = n
                      /\ \A j \in 1..n : r[j].in = InputAt(l, now, j) /\ r[j].pos = j - 1
    OBVIOUS
  <2>1. RowsAre(l, r, now)
    OBVIOUS
  <2>2. Len(r) = n
    BY <1>1, <2>1 DEF RowsAre
  <2>3. ASSUME NEW j \in 1..n
        PROVE  r[j].in = InputAt(l, now, j) /\ r[j].pos = j - 1
    <3>1. r[j] = [in |-> InputAt(l, now, j), pos |-> j - 1]
      BY <1>1, <2>1 DEF RowsAre
    <3>2. QED BY <3>1
  <2>4. QED BY <2>2, <2>3
<1>4. ASSUME NEW st \in Used
      PROVE  SubSeq(cache[l][st], 1, n) = cache[l][Counted]
  <2>1. SubSeq(cache[l][st], 1, n) = cache[l][st]
    BY <1>2, <1>3, SubSeqFull
  <2>2. \A j \in 1..n : cache[l][st][j] = cache[l][Counted][j]
    BY <1>1, CountedIsUsed DEF RowsAre
  <2>3. cache[l][st] = cache[l][Counted]
    BY <1>2, <1>3, <2>2, CountedIsUsed, SeqEqual
  <2>4. QED BY <2>1, <2>3
<1>5. \A st \in Used : SubSeq(cache[l][st], 1, n) = SubSeq(cache[l][Counted], 1, n)
  BY <1>4, CountedIsUsed
<1>6. \A st \in Used : cache[l][st][n].in = cur
  BY <1>1, <1>3
<1>7. [j \in 1..n |-> cache[l][Counted][j].in] = [j \in 1..Len(now) |-> InputAt(l, now, j)]
  BY <1>1, <1>3, CountedIsUsed
<1>8. Mix(l, [j \in 1..n |-> cache[l][Counted][j].in]) = now
  BY <1>1, <1>7, MixRight
<1>9. \A st \in Used : /\ Len(cache[l][st]) >= n
                      /\ cache[l][st][n].in = cur
                      /\ \A j \in 1..n : cache[l][st][j].pos = j - 1
  BY <1>1, <1>3, <1>6
<1> HIDE DEF n
<1>10. Attended(l) = Mix(l, [j \in 1..n |-> cache[l][Counted][j].in])
  BY <1>5, <1>9 DEF Attended, n
<1>11. QED BY <1>8, <1>10

\* The delta net over the windows of the sequence so far.
LEMMA RecurRight ==
  ASSUME TypeOK, NEW l \in SsmLayers, StateIs(l, state[l], now)
  PROVE  Recurred(l) = now
<1> DEFINE w == state[l]
           ins == [j \in 1..Len(w) |-> End(w[j])]
<1>1. /\ now \in Seq(Token) /\ Len(w) = Len(now) /\ Len(now) \in Nat /\ NPrev \in Nat \ {0}
  BY NowFacts DEF StateIs
<1>2. w \in Seq(Seq(Digests))
  BY DEF TypeOK
<1>3. \A j \in 1..Len(now) : WindowIs(l, w[j], now, j) /\ w[j] \in Seq(Digests)
  BY <1>1, <1>2, ElementOfSeq DEF StateIs
<1>4. ASSUME NEW j \in 1..Len(now)
      PROVE  End(w[j]) = InputAt(l, now, j)
  <2>1. w[j][NPrev + 1] = WindowInput(l, now, j, NPrev + 1) /\ Len(w[j]) = NPrev + 1
    BY <1>1, <1>3 DEF WindowIs
  <2>2. j + (NPrev + 1) > NPrev + 1 /\ j + (NPrev + 1) - NPrev - 1 = j
    BY <1>1
  <2>3. QED BY <2>1, <2>2 DEF WindowInput, End
<1>5. ins = [j \in 1..Len(now) |-> InputAt(l, now, j)]
  BY <1>1, <1>4
<1>6. Mix(l, ins) = now
  BY <1>1, <1>5, MixRight
<1>7. ASSUME NEW j \in 1..Len(now)
      PROVE  w[j] = WindowAt(ins, j)
  <2>1. w[j] \in [1..(NPrev + 1) -> Digests]
    BY <1>3, LenProperties DEF WindowIs
  <2>2. ASSUME NEW i \in 1..(NPrev + 1)
        PROVE  w[j][i] = IF j + i > NPrev + 1 THEN ins[j + i - NPrev - 1] ELSE Zero
    <3>1. w[j][i] = WindowInput(l, now, j, i)
      BY <1>3 DEF WindowIs
    <3>2. CASE j + i > NPrev + 1
      <4>1. j + i - NPrev - 1 \in 1..Len(now)
        BY <1>1, <3>2
      <4>2. ins[j + i - NPrev - 1] = InputAt(l, now, j + i - NPrev - 1)
        BY <1>5, <4>1
      <4>3. QED BY <3>1, <3>2, <4>2 DEF WindowInput
    <3>3. CASE ~(j + i > NPrev + 1)
      BY <3>1, <3>3 DEF WindowInput
    <3>4. QED BY <3>2, <3>3
  <2>3. QED BY <2>1, <2>2 DEF WindowAt
<1>8. Len(ins) = Len(now)
  <2>1. ins \in [1..Len(now) -> Digests]
    BY <1>1, <1>5, InputFacts
  <2>2. QED BY <1>1, <2>1, FunIsSeq
<1>9. \A j \in 1..Len(ins) : w[j] = WindowAt(ins, j)
  BY <1>7, <1>8
<1>10. Recurred(l) = Mix(l, ins)
  BY <1>9 DEF Recurred, Folded
<1>11. QED BY <1>6, <1>10

-----------------------------------------------------------------------------
\* Nothing is cached in a fresh decoder.
LEMMA FreshCaches ==
  ASSUME ShapeAssumption, DecoderAssumption, fed = <<>>,
         \A l \in AttnLayers, st \in Stores : cache[l][st] = <<>>,
         \A l \in SsmLayers : conv[l] = ZeroConv /\ state[l] = <<>>,
         pc = "idle"
  PROVE  KvRight /\ ConvRight /\ StateRight /\ TornByOne
<1>1. Len(fed) = 0 /\ 1..Len(fed) = {} /\ NPrev \in Nat
  BY DEF ShapeAssumption, DecoderAssumption
<1>2. \A b : Seen(Passed(b, AfterKv)) = fed /\ Seen(Passed(b, AfterConv)) = fed
           /\ Seen(Passed(b, AfterFold)) = fed
  BY DEF Seen, Passed
<1>3. KvRight
  BY <1>1, <1>2 DEF KvRight, RowsAre
<1>4. ConvRight
  <2> SUFFICES ASSUME NEW l \in SsmLayers, NEW i \in 1..NPrev
               PROVE  conv[l][i] = WindowInput(l, fed, Len(fed) + 1, i)
    BY <1>2 DEF ConvRight, ConvIs
  <2>1. ~(Len(fed) + 1 + i > NPrev + 1)
    BY <1>1
  <2>2. conv[l][i] = Zero
    BY DEF ZeroConv
  <2>3. QED BY <2>1, <2>2 DEF WindowInput
<1>5. StateRight
  BY <1>1, <1>2 DEF StateRight, StateIs
<1>6. TornByOne
  <2>1. Len(<<>>) = 0 /\ Len(<<>>) - Len(fed) = 0
    BY <1>1
  <2>2. QED BY <2>1, CountedIsUsed DEF TornByOne
<1>7. QED BY <1>3, <1>4, <1>5, <1>6

LEMMA InitIInv == Init => IInv
<1> SUFFICES ASSUME Init PROVE IInv
  OBVIOUS
<1>1. TypeOK
  <2>1. ZeroConv \in [1..NPrev -> Digests] /\ <<>> \in Digests
    BY ShapeAssumption, DecoderAssumption DEF ZeroConv, Zero, Digests
  <2>2. EmptyKv \in [Stores -> Seq(Rows)]
    BY DEF EmptyKv
  <2>3. 0 \in Layers
    BY ShapeAssumption, DecoderAssumption DEF Layers
  <2>4. <<>> \in Seq(Token) /\ <<>> \in Seq(Digests) /\ <<>> \in Seq(Seq(Digests))
    OBVIOUS
  <2>5. /\ cache \in [AttnLayers -> [Stores -> Seq(Rows)]]
        /\ conv \in [SsmLayers -> [1..NPrev -> Digests]]
        /\ state \in [SsmLayers -> Seq(Seq(Digests))]
        /\ taps \in [Wanted -> Digests]
    BY <2>1, <2>2, <2>4 DEF Init
  <2>6. QED BY <2>1, <2>3, <2>4, <2>5 DEF Init, TypeOK
<1>2. KvRight /\ ConvRight /\ StateRight /\ TornByOne
  BY FreshCaches, ShapeAssumption, DecoderAssumption DEF Init, EmptyKv
<1>3. Places /\ WindowRight /\ StreamRight /\ TapsSoFar /\ HiddenRight /\ TapsRight
  BY DEF Init, Places, WindowRight, StreamRight, TapsSoFar, HiddenRight, TapsRight, Passed
<1>4. QED BY <1>1, <1>2, <1>3 DEF IInv

\* A part of the caches that a step leaves alone, and whose layers it does not
\* pass, stays right.
LEMMA KvFrame ==
  ASSUME KvRight, UNCHANGED <<mode, cache, fed, tok>>,
         \A l \in AttnLayers : Passed(l, AfterKv)' = Passed(l, AfterKv)
  PROVE  KvRight'
<1>1. now' = now /\ Used' = Used
  BY DEF now, Used
<1>2. \A l \in AttnLayers : Seen(Passed(l, AfterKv))' = Seen(Passed(l, AfterKv))
  BY <1>1 DEF Seen
<1>3. QED BY <1>1, <1>2 DEF KvRight

LEMMA ConvFrame ==
  ASSUME ConvRight, UNCHANGED <<conv, fed, tok>>,
         \A l \in SsmLayers : Passed(l, AfterConv)' = Passed(l, AfterConv)
  PROVE  ConvRight'
<1>1. \A l \in SsmLayers : Seen(Passed(l, AfterConv))' = Seen(Passed(l, AfterConv))
  BY DEF Seen, now
<1>2. QED BY <1>1 DEF ConvRight

LEMMA StateFrame ==
  ASSUME StateRight, UNCHANGED <<state, fed, tok>>,
         \A l \in SsmLayers : Passed(l, AfterFold)' = Passed(l, AfterFold)
  PROVE  StateRight'
<1>1. \A l \in SsmLayers : Seen(Passed(l, AfterFold))' = Seen(Passed(l, AfterFold))
  BY DEF Seen, now
<1>2. QED BY <1>1 DEF StateRight

LEMMA TornFrame ==
  ASSUME TornByOne, UNCHANGED <<mode, fed, cache, state>>
  PROVE  TornByOne'
BY DEF TornByOne, Used

-----------------------------------------------------------------------------
LEMMA BeginStep ==
  ASSUME IInv, NEW t \in Token, Begin(t)
  PROVE  IInv'
<1> USE DEF Begin, input, caches
<1>1. ~failed /\ ~failed' /\ TypeOK
  BY DEF IInv, MayForward, TypeOK
<1>2. TypeOK'
  <2>1. <<t>> \in Digests /\ 0 \in Layers
    BY ShapeAssumption, DecoderAssumption DEF Digests, Layers
  <2>2. QED BY <1>1, <2>1 DEF TypeOK
<1>3. \A l \in Layers, steps \in {AfterKv, AfterConv, AfterFold, AfterTap} :
        ~Passed(l, steps) /\ ~Passed(l, steps)'
  BY ShapeAssumption, DecoderAssumption DEF Passed, Layers, AfterKv, AfterConv, AfterFold, AfterTap
<1>4. AttnLayers \subseteq Layers /\ SsmLayers \subseteq Layers /\ Wanted \subseteq Layers
  BY ShapeAssumption, DecoderAssumption DEF AttnLayers, SsmLayers, Layers
<1>5. KvRight'
  <2>1. \A l \in AttnLayers : Seen(Passed(l, AfterKv))' = fed /\ Seen(Passed(l, AfterKv)) = fed
    BY <1>3, <1>4 DEF Seen
  <2>2. QED BY <1>1, <2>1 DEF IInv, KvRight, Used
<1>6. ConvRight'
  <2>1. \A l \in SsmLayers : Seen(Passed(l, AfterConv))' = fed /\ Seen(Passed(l, AfterConv)) = fed
    BY <1>3, <1>4 DEF Seen
  <2>2. QED BY <1>1, <2>1 DEF IInv, ConvRight
<1>7. StateRight'
  <2>1. \A l \in SsmLayers : Seen(Passed(l, AfterFold))' = fed /\ Seen(Passed(l, AfterFold)) = fed
    BY <1>3, <1>4 DEF Seen
  <2>2. QED BY <1>1, <2>1 DEF IInv, StateRight
<1>8. StreamRight'
  <2>1. now'[Len(now')] = t
    BY <1>1, AppendProperties, LenProperties DEF TypeOK, now
  <2>2. QED BY <2>1 DEF StreamRight, InputAt
<1>9. Places' /\ WindowRight' /\ TapsSoFar' /\ HiddenRight' /\ TapsRight'
  BY <1>1, <1>3, <1>4 DEF Places, WindowRight, TapsSoFar, HiddenRight, TapsRight
<1>10. TornByOne'
  BY TornFrame DEF IInv
<1>11. QED BY <1>2, <1>5, <1>6, <1>7, <1>8, <1>9, <1>10 DEF IInv

LEMMA LayerFacts ==
  /\ AttnLayers \subseteq Layers /\ SsmLayers \subseteq Layers /\ Wanted \subseteq Layers
  /\ AttnLayers \cap SsmLayers = {}
  /\ Layers \subseteq Nat
  /\ \A l \in Layers : IsFullAttention(l) => l \in AttnLayers
  /\ \A l \in Layers : ~IsFullAttention(l) => l \in SsmLayers
BY ShapeAssumption, DecoderAssumption DEF AttnLayers, SsmLayers, Layers

LEMMA StreamType ==
  ASSUME TypeOK, NEW l \in Layers
  PROVE  /\ InputAt(l, now, Len(now)) \in Digests
         /\ now \in Digests
<1>1. now \in Seq(Token) /\ Len(now) \in 1..Len(now)
  BY NowFacts
<1>2. QED BY <1>1, InputFacts, TokensAreDigests

LEMMA TapStep ==
  ASSUME IInv, Tap
  PROVE  IInv'
<1> USE DEF Tap, input, caches
<1>1. ~failed /\ ~failed' /\ TypeOK /\ il \in Layers /\ cur = InputAt(il, now, Len(now))
  BY DEF IInv, Places, TypeOK, StreamRight
<1>2. now' = now
  BY DEF now
<1>3. TypeOK'
  <2>1. taps' \in [Wanted -> Digests]
    BY <1>1 DEF TypeOK, Tapped
  <2>2. QED BY <1>1, <2>1 DEF TypeOK
<1>4. /\ \A l \in AttnLayers : Passed(l, AfterKv)' = Passed(l, AfterKv)
      /\ \A l \in SsmLayers : Passed(l, AfterConv)' = Passed(l, AfterConv)
      /\ \A l \in SsmLayers : Passed(l, AfterFold)' = Passed(l, AfterFold)
  BY DEF Passed, AfterKv, AfterConv, AfterFold
<1>5. KvRight' /\ ConvRight' /\ StateRight' /\ TornByOne'
  BY <1>1, <1>4, KvFrame, ConvFrame, StateFrame, TornFrame DEF IInv
<1>6. TapsSoFar'
  <2> SUFFICES ASSUME NEW l \in Wanted, Passed(l, AfterTap)'
               PROVE  taps'[l] = InputAt(l, now, Len(now))
    BY <1>2 DEF TapsSoFar
  <2>1. CASE l = il
    <3>1. taps' = [taps EXCEPT ![l] = cur]
      BY <2>1 DEF Tapped
    <3>2. taps'[l] = cur
      BY <1>1, <3>1 DEF TypeOK
    <3>3. QED BY <1>1, <2>1, <3>2
  <2>2. CASE l # il
    <3>1. taps'[l] = taps[l]
      BY <1>1, <2>2 DEF TypeOK, Tapped
    <3>2. Passed(l, AfterTap)
      BY <2>2 DEF Passed
    <3>3. QED BY <1>1, <3>1, <3>2 DEF IInv, TapsSoFar
  <2>3. QED BY <2>1, <2>2
<1>7. Places'
  BY <1>1, LayerFacts DEF Places
<1>8. WindowRight' /\ StreamRight' /\ HiddenRight' /\ TapsRight'
  BY <1>1, <1>2 DEF WindowRight, StreamRight, HiddenRight, TapsRight
<1>9. QED BY <1>3, <1>5, <1>6, <1>7, <1>8 DEF IInv

\* Appending what the next token needs keeps the rows right.
LEMMA RowsAppend ==
  ASSUME TypeOK, NEW l, NEW r \in Seq(Rows), RowsAre(l, r, fed),
         NEW row \in Rows, row = [in |-> InputAt(l, now, Len(now)), pos |-> Len(fed)]
  PROVE  RowsAre(l, Append(r, row), now)
<1>1. fed \in Seq(Token) /\ tok \in Token /\ Len(fed) \in Nat /\ Len(now) = Len(fed) + 1
  BY NowFacts DEF TypeOK
<1>2. /\ Len(Append(r, row)) = Len(fed) + 1
      /\ \A j \in 1..Len(fed) : Append(r, row)[j] = r[j]
      /\ Append(r, row)[Len(fed) + 1] = row
  BY <1>1, AppendProperties DEF RowsAre
<1>3. ASSUME NEW j \in 1..Len(fed)
      PROVE  Append(r, row)[j] = [in |-> InputAt(l, now, j), pos |-> j - 1]
  <2>1. InputAt(l, now, j) = InputAt(l, fed, j)
    BY <1>1, InputStays DEF now
  <2>2. QED BY <1>2, <2>1 DEF RowsAre
<1>4. Append(r, row)[Len(now)] = [in |-> InputAt(l, now, Len(now)), pos |-> Len(now) - 1]
  BY <1>1, <1>2
<1>5. \A j \in 1..Len(now) : Append(r, row)[j] = [in |-> InputAt(l, now, j), pos |-> j - 1]
  <2>1. \A j \in 1..Len(now) : j \in 1..Len(fed) \/ j = Len(now)
    BY <1>1
  <2>2. QED BY <1>3, <1>4, <2>1
<1>6. QED BY <1>1, <1>2, <1>5 DEF RowsAre

LEMMA AppendRowStep ==
  ASSUME IInv, AppendRow
  PROVE  IInv'
<1> USE DEF AppendRow, input
<1> DEFINE row == [in |-> cur, pos |-> pos]
<1>1. /\ ~failed /\ ~failed' /\ TypeOK /\ il \in AttnLayers
      /\ cur = InputAt(il, now, Len(now))
  BY DEF IInv, Places, TypeOK, StreamRight
<1>2. now' = now /\ Used' = Used
  BY DEF now, Used
<1>3. row \in Rows
  BY <1>1, NowFacts DEF TypeOK, Rows, pos
<1>4. \A l \in AttnLayers, st \in Stores :
        cache'[l][st] = IF l = il /\ st \in Used THEN Append(cache[l][st], row) ELSE cache[l][st]
  BY <1>1 DEF TypeOK
<1>5. \A l \in AttnLayers, st \in Stores : cache[l][st] \in Seq(Rows) /\ cache'[l][st] \in Seq(Rows)
  BY <1>1, <1>3, <1>4, AppendProperties DEF TypeOK
<1>6. TypeOK'
  <2>1. cache' \in [AttnLayers -> [Stores -> Seq(Rows)]]
    <3>1. \A l \in AttnLayers : cache'[l] \in [Stores -> Seq(Rows)]
      <4>1. ASSUME NEW l \in AttnLayers
            PROVE  cache'[l] = IF l = il THEN [st \in Stores |-> cache'[l][st]] ELSE cache[l]
        BY <1>1 DEF TypeOK
      <4>2. QED BY <1>1, <1>5, <4>1 DEF TypeOK
    <3>2. cache' = [l \in AttnLayers |-> cache'[l]]
      BY <1>1 DEF TypeOK
    <3>3. QED BY <3>1, <3>2
  <2>2. QED BY <1>1, <2>1 DEF TypeOK
<1>7. /\ \A l \in AttnLayers : l # il => Passed(l, AfterKv)' = Passed(l, AfterKv)
      /\ Passed(il, AfterKv)' /\ ~Passed(il, AfterKv)
      /\ \A l \in SsmLayers : Passed(l, AfterConv)' = Passed(l, AfterConv)
      /\ \A l \in SsmLayers : Passed(l, AfterFold)' = Passed(l, AfterFold)
      /\ \A l \in Wanted : Passed(l, AfterTap)' = Passed(l, AfterTap)
  BY <1>1, LayerFacts DEF Passed, AfterKv, AfterConv, AfterFold, AfterTap
<1>8. KvRight'
  <2> SUFFICES ASSUME NEW l \in AttnLayers, NEW st \in Stores
               PROVE  IF st \in Used
                      THEN RowsAre(l, cache'[l][st], Seen(Passed(l, AfterKv))')
                      ELSE cache'[l][st] = <<>>
    BY <1>2 DEF KvRight
  <2>1. IF st \in Used THEN RowsAre(l, cache[l][st], Seen(Passed(l, AfterKv)))
                       ELSE cache[l][st] = <<>>
    BY <1>1 DEF IInv, KvRight
  <2>2. CASE l = il /\ st \in Used
    <3>1. RowsAre(l, cache[l][st], fed)
      BY <1>7, <2>1, <2>2 DEF Seen
    <3>2. RowsAre(l, Append(cache[l][st], row), now)
      BY <1>1, <1>3, <1>5, <2>2, <3>1, RowsAppend DEF pos
    <3>3. Seen(Passed(l, AfterKv))' = now
      BY <1>2, <1>7, <2>2 DEF Seen
    <3>4. QED BY <1>4, <2>2, <3>2, <3>3
  <2>3. CASE l # il
    <3>1. Seen(Passed(l, AfterKv))' = Seen(Passed(l, AfterKv))
      BY <1>2, <1>7, <2>3 DEF Seen
    <3>2. QED BY <1>4, <2>1, <2>3, <3>1
  <2>4. CASE st \notin Used
    BY <1>4, <2>1, <2>4
  <2>5. QED BY <2>2, <2>3, <2>4
<1>9. ConvRight' /\ StateRight'
  BY <1>1, <1>7, ConvFrame, StateFrame DEF IInv
<1>10. TapsSoFar'
  BY <1>1, <1>2, <1>7 DEF IInv, TapsSoFar
<1>11. Places' /\ WindowRight' /\ StreamRight' /\ HiddenRight' /\ TapsRight'
  BY <1>1, <1>2, LayerFacts DEF Places, WindowRight, StreamRight, HiddenRight, TapsRight
<1>12. TornByOne'
  <2>1. ASSUME NEW l \in AttnLayers, NEW st \in Used
        PROVE  Len(cache'[l][st]) - Len(fed) \in {0, 1}
    <3>1. CASE l = il
      <4>1. RowsAre(l, cache[l][st], fed)
        BY <1>1, <1>7, <3>1, CountedIsUsed DEF IInv, KvRight, Seen
      <4>2. Len(cache'[l][st]) = Len(fed) + 1
        <5>1. cache'[l][st] = Append(cache[l][st], row) /\ cache[l][st] \in Seq(Rows)
          BY <1>4, <1>5, <3>1, CountedIsUsed
        <5>2. Len(cache'[l][st]) = Len(cache[l][st]) + 1
          BY <1>3, <5>1, AppendProperties
        <5>3. QED BY <4>1, <5>2 DEF RowsAre
      <4>3. QED BY <1>1, <4>2, NowFacts
    <3>2. CASE l # il
      BY <1>1, <1>4, <3>2, CountedIsUsed DEF IInv, TornByOne
    <3>3. QED BY <3>1, <3>2
  <2>2. QED BY <1>1, <1>2, <2>1 DEF IInv, TornByOne
<1>13. QED BY <1>6, <1>8, <1>9, <1>10, <1>11, <1>12 DEF IInv

LEMMA AttendStep ==
  ASSUME IInv, Attend
  PROVE  IInv'
<1> USE DEF Attend, input, caches
<1>1. /\ ~failed /\ ~failed' /\ TypeOK /\ il \in AttnLayers /\ il \in Layers
      /\ cur = InputAt(il, now, Len(now))
  BY LayerFacts DEF IInv, Places, TypeOK, StreamRight
<1>2. now' = now
  BY DEF now
<1>3. \A st \in Used : RowsAre(il, cache[il][st], now)
  <2>1. Passed(il, AfterKv)
    BY DEF Passed, AfterKv
  <2>2. QED BY <1>1, <2>1, CountedIsUsed DEF IInv, KvRight, Seen
<1>4. cur' = now
  BY <1>1, <1>3, AttendRight
<1>5. TypeOK'
  BY <1>1, <1>4, StreamType DEF TypeOK
<1>6. /\ \A l \in AttnLayers : Passed(l, AfterKv)' = Passed(l, AfterKv)
      /\ \A l \in SsmLayers : Passed(l, AfterConv)' = Passed(l, AfterConv)
      /\ \A l \in SsmLayers : Passed(l, AfterFold)' = Passed(l, AfterFold)
      /\ \A l \in Wanted : Passed(l, AfterTap)' = Passed(l, AfterTap)
  BY <1>1, LayerFacts DEF Passed, AfterKv, AfterConv, AfterFold, AfterTap
<1>7. KvRight' /\ ConvRight' /\ StateRight' /\ TornByOne'
  BY <1>1, <1>6, KvFrame, ConvFrame, StateFrame, TornFrame DEF IInv
<1>8. TapsSoFar'
  BY <1>1, <1>2, <1>6 DEF IInv, TapsSoFar
<1>9. Places' /\ WindowRight' /\ StreamRight' /\ HiddenRight' /\ TapsRight'
  BY <1>1, <1>2, <1>4 DEF Places, WindowRight, StreamRight, HiddenRight, TapsRight
<1>10. QED BY <1>5, <1>7, <1>8, <1>9 DEF IInv

\* The window of a token sees the cached inputs and its own.
LEMMA WindowShift ==
  ASSUME TypeOK, NEW l \in SsmLayers, ConvIs(l, conv[l], fed),
         NEW x \in Digests, x = InputAt(l, now, Len(now))
  PROVE  /\ Append(conv[l], x) \in Seq(Digests)
         /\ WindowIs(l, Append(conv[l], x), now, Len(now))
         /\ Append(Tail(conv[l]), x) \in [1..NPrev -> Digests]
         /\ ConvIs(l, Append(Tail(conv[l]), x), now)
<1> DEFINE c == conv[l]
           w == Append(c, x)
           d == Append(Tail(c), x)
<1>1. /\ fed \in Seq(Token) /\ tok \in Token /\ Len(fed) \in Nat /\ Len(now) = Len(fed) + 1
      /\ NPrev \in Nat \ {0}
  BY NowFacts DEF TypeOK
<1>2. c \in Seq(Digests) /\ Len(c) = NPrev /\ c # <<>>
  <2>1. c \in [1..NPrev -> Digests]
    BY DEF TypeOK
  <2>2. c \in Seq(Digests) /\ Len(c) = NPrev
    BY <1>1, <2>1, FunIsSeq
  <2>3. QED BY <1>1, <2>2, EmptySeq
<1>3. /\ w \in Seq(Digests) /\ Len(w) = NPrev + 1
      /\ \A i \in 1..NPrev : w[i] = c[i]
      /\ w[NPrev + 1] = x
  BY <1>2, AppendProperties
<1>4. /\ Tail(c) \in Seq(Digests) /\ Len(Tail(c)) = NPrev - 1
      /\ \A i \in 1..(NPrev - 1) : Tail(c)[i] = c[i + 1]
  BY <1>2, HeadTailProperties
<1>5. /\ d \in Seq(Digests) /\ Len(d) = NPrev
      /\ \A i \in 1..(NPrev - 1) : d[i] = c[i + 1]
      /\ d[NPrev] = x
  <2>1. Len(Tail(c)) + 1 = NPrev
    BY <1>1, <1>4
  <2>2. QED BY <1>4, <2>1, AppendProperties
<1> HIDE DEF c, w, d
<1>6. ASSUME NEW i \in 1..NPrev
      PROVE  c[i] = WindowInput(l, now, Len(now), i)
  <2>1. c[i] = WindowInput(l, fed, Len(now), i)
    BY <1>1 DEF ConvIs, c
  <2>2. CASE Len(now) + i > NPrev + 1
    <3>1. Len(now) + i - NPrev - 1 \in 1..Len(fed)
      BY <1>1, <2>2
    <3>2. InputAt(l, now, Len(now) + i - NPrev - 1) = InputAt(l, fed, Len(now) + i - NPrev - 1)
      BY <1>1, <3>1, InputStays DEF now
    <3>3. QED BY <2>1, <2>2, <3>2 DEF WindowInput
  <2>3. CASE ~(Len(now) + i > NPrev + 1)
    BY <2>1, <2>3 DEF WindowInput
  <2>4. QED BY <2>2, <2>3
<1>7. x = WindowInput(l, now, Len(now), NPrev + 1)
  <2>1. Len(now) + (NPrev + 1) > NPrev + 1 /\ Len(now) + (NPrev + 1) - NPrev - 1 = Len(now)
    BY <1>1
  <2>2. QED BY <2>1 DEF WindowInput
<1>8. \A i \in 1..(NPrev + 1) : w[i] = WindowInput(l, now, Len(now), i)
  <2>1. \A i \in 1..(NPrev + 1) : i \in 1..NPrev \/ i = NPrev + 1
    BY <1>1
  <2>2. QED BY <1>3, <1>6, <1>7, <2>1
<1>9. ASSUME NEW i \in 1..NPrev
      PROVE  d[i] = WindowInput(l, now, Len(now) + 1, i)
  <2>1. /\ Len(now) + 1 + i > NPrev + 1 <=> Len(now) + (i + 1) > NPrev + 1
        /\ Len(now) + 1 + i - NPrev - 1 = Len(now) + (i + 1) - NPrev - 1
    BY <1>1
  <2>2. WindowInput(l, now, Len(now) + 1, i) = WindowInput(l, now, Len(now), i + 1)
    BY <2>1 DEF WindowInput
  <2>3. CASE i \in 1..(NPrev - 1)
    <3>1. i + 1 \in 1..NPrev
      BY <1>1, <2>3
    <3>2. QED BY <1>5, <1>6, <2>2, <2>3, <3>1
  <2>4. CASE i = NPrev
    BY <1>5, <1>7, <2>2, <2>4
  <2>5. QED BY <1>1, <2>3, <2>4
<1>10. d \in [1..NPrev -> Digests]
  BY <1>5, LenProperties
<1>11. QED BY <1>3, <1>8, <1>9, <1>10 DEF WindowIs, ConvIs, c, w, d

LEMMA ConvolveStep ==
  ASSUME IInv, Convolve
  PROVE  IInv'
<1> USE DEF Convolve, input
<1>1. /\ ~failed /\ ~failed' /\ TypeOK /\ il \in SsmLayers /\ il \in Layers
      /\ cur = InputAt(il, now, Len(now)) /\ cur \in Digests
  BY LayerFacts DEF IInv, Places, TypeOK, StreamRight
<1>2. now' = now
  BY DEF now
<1>3. /\ \A l \in AttnLayers : Passed(l, AfterKv)' = Passed(l, AfterKv)
      /\ \A l \in SsmLayers : l # il => Passed(l, AfterConv)' = Passed(l, AfterConv)
      /\ Passed(il, AfterConv)' /\ ~Passed(il, AfterConv)
      /\ \A l \in SsmLayers : Passed(l, AfterFold)' = Passed(l, AfterFold)
      /\ \A l \in Wanted : Passed(l, AfterTap)' = Passed(l, AfterTap)
  BY <1>1, LayerFacts DEF Passed, AfterKv, AfterConv, AfterFold, AfterTap
<1>4. ConvIs(il, conv[il], fed)
  BY <1>1, <1>3 DEF IInv, ConvRight, Seen
<1>5. /\ window' \in Seq(Digests)
      /\ WindowIs(il, window', now, Len(now))
      /\ Shifted \in [1..NPrev -> Digests]
      /\ ConvIs(il, Shifted, now)
  BY <1>1, <1>4, WindowShift DEF Shifted, Convolved
<1>6. TypeOK'
  BY <1>1, <1>5 DEF TypeOK
<1>7. ConvRight'
  <2> SUFFICES ASSUME NEW l \in SsmLayers
               PROVE  ConvIs(l, conv'[l], Seen(Passed(l, AfterConv))')
    BY DEF ConvRight
  <2>1. CASE l = il
    <3>1. conv'[l] = Shifted
      BY <1>1, <2>1 DEF TypeOK
    <3>2. Seen(Passed(l, AfterConv))' = now
      BY <1>2, <1>3, <2>1 DEF Seen
    <3>3. QED BY <1>5, <2>1, <3>1, <3>2
  <2>2. CASE l # il
    <3>1. conv'[l] = conv[l]
      BY <1>1, <2>2 DEF TypeOK
    <3>2. Seen(Passed(l, AfterConv))' = Seen(Passed(l, AfterConv))
      BY <1>2, <1>3, <2>2 DEF Seen
    <3>3. QED BY <1>1, <3>1, <3>2 DEF IInv, ConvRight
  <2>3. QED BY <2>1, <2>2
<1>8. KvRight' /\ StateRight' /\ TornByOne'
  BY <1>1, <1>3, KvFrame, StateFrame, TornFrame DEF IInv
<1>9. TapsSoFar' /\ WindowRight' /\ StreamRight'
  BY <1>1, <1>2, <1>3, <1>5 DEF IInv, TapsSoFar, WindowRight, StreamRight
<1>10. Places' /\ HiddenRight' /\ TapsRight'
  BY <1>1 DEF Places, HiddenRight, TapsRight
<1>11. QED BY <1>6, <1>7, <1>8, <1>9, <1>10 DEF IInv

LEMMA FoldStep ==
  ASSUME IInv, Fold
  PROVE  IInv'
<1> USE DEF Fold, input
<1>1. /\ ~failed /\ ~failed' /\ TypeOK /\ il \in SsmLayers /\ il \in Layers
      /\ cur = InputAt(il, now, Len(now)) /\ window \in Seq(Digests)
      /\ WindowIs(il, window, now, Len(now))
  BY LayerFacts DEF IInv, Places, TypeOK, StreamRight, WindowRight
<1>2. now' = now /\ fed \in Seq(Token) /\ tok \in Token /\ Len(fed) \in Nat /\ Len(now) = Len(fed) + 1
  BY <1>1, NowFacts DEF now, TypeOK
<1>3. /\ \A l \in AttnLayers : Passed(l, AfterKv)' = Passed(l, AfterKv)
      /\ \A l \in SsmLayers : Passed(l, AfterConv)' = Passed(l, AfterConv)
      /\ \A l \in SsmLayers : l # il => Passed(l, AfterFold)' = Passed(l, AfterFold)
      /\ Passed(il, AfterFold)' /\ ~Passed(il, AfterFold)
      /\ \A l \in Wanted : Passed(l, AfterTap)' = Passed(l, AfterTap)
  BY <1>1, LayerFacts DEF Passed, AfterKv, AfterConv, AfterFold, AfterTap
<1>4. StateIs(il, state[il], fed)
  BY <1>1, <1>3 DEF IInv, StateRight, Seen
<1>5. state[il] \in Seq(Seq(Digests))
  BY <1>1 DEF TypeOK
<1>6. state'[il] = Append(state[il], window) /\ \A l \in SsmLayers : l # il => state'[l] = state[l]
  BY <1>1 DEF TypeOK
<1>7. /\ state'[il] \in Seq(Seq(Digests))
      /\ Len(state'[il]) = Len(state[il]) + 1
      /\ \A j \in 1..Len(state[il]) : state'[il][j] = state[il][j]
      /\ state'[il][Len(state[il]) + 1] = window
  BY <1>1, <1>5, <1>6, AppendProperties
<1>8. StateIs(il, state'[il], now)
  <2>1. Len(state'[il]) = Len(now) /\ Len(state[il]) = Len(fed)
    BY <1>2, <1>4, <1>7 DEF StateIs
  <2>2. ASSUME NEW j \in 1..Len(fed)
        PROVE  WindowIs(il, state'[il][j], now, j)
    <3>1. WindowIs(il, state'[il][j], fed, j)
      BY <1>4, <1>7, <2>1 DEF StateIs
    <3>2. ASSUME NEW i \in 1..(NPrev + 1)
          PROVE  WindowInput(il, now, j, i) = WindowInput(il, fed, j, i)
      <4>1. CASE j + i > NPrev + 1
        <5>1. j + i - NPrev - 1 \in 1..Len(fed)
          BY <1>2, <4>1, ShapeAssumption, DecoderAssumption
        <5>2. InputAt(il, now, j + i - NPrev - 1) = InputAt(il, fed, j + i - NPrev - 1)
          BY <1>2, <5>1, InputStays DEF now
        <5>3. QED BY <4>1, <5>2 DEF WindowInput
      <4>2. CASE ~(j + i > NPrev + 1)
        BY <4>2 DEF WindowInput
      <4>3. QED BY <4>1, <4>2
    <3>3. QED BY <3>1, <3>2 DEF WindowIs
  <2>3. WindowIs(il, state'[il][Len(now)], now, Len(now))
    BY <1>1, <1>2, <1>7, <2>1
  <2>4. \A j \in 1..Len(now) : j \in 1..Len(fed) \/ j = Len(now)
    BY <1>2
  <2>5. QED BY <2>1, <2>2, <2>3, <2>4 DEF StateIs
<1>9. TypeOK'
  BY <1>1, <1>6, <1>7 DEF TypeOK
<1>10. StateRight'
  <2> SUFFICES ASSUME NEW l \in SsmLayers
               PROVE  StateIs(l, state'[l], Seen(Passed(l, AfterFold))')
    BY DEF StateRight
  <2>1. CASE l = il
    <3>1. Seen(Passed(l, AfterFold))' = now
      BY <1>2, <1>3, <2>1 DEF Seen
    <3>2. QED BY <1>8, <2>1, <3>1
  <2>2. CASE l # il
    <3>1. Seen(Passed(l, AfterFold))' = Seen(Passed(l, AfterFold))
      BY <1>2, <1>3, <2>2 DEF Seen
    <3>2. QED BY <1>1, <1>6, <2>2, <3>1 DEF IInv, StateRight
  <2>3. QED BY <2>1, <2>2
<1>11. KvRight' /\ ConvRight'
  BY <1>1, <1>3, KvFrame, ConvFrame DEF IInv
<1>12. TornByOne'
  <2>1. ASSUME NEW l \in SsmLayers PROVE Len(state'[l]) - Len(fed) \in {0, 1}
    <3>1. CASE l = il
      BY <1>2, <1>8, <3>1 DEF StateIs
    <3>2. CASE l # il
      BY <1>1, <1>6, <3>2 DEF IInv, TornByOne
    <3>3. QED BY <3>1, <3>2
  <2>2. Used' = Used
    BY DEF Used
  <2>3. QED BY <2>1, <2>2 DEF IInv, TornByOne
<1>13. TapsSoFar' /\ WindowRight' /\ StreamRight'
  BY <1>1, <1>2, <1>3 DEF IInv, TapsSoFar, WindowRight, StreamRight
<1>14. Places' /\ HiddenRight' /\ TapsRight'
  BY <1>1 DEF Places, HiddenRight, TapsRight
<1>15. QED BY <1>9, <1>10, <1>11, <1>12, <1>13, <1>14 DEF IInv

LEMMA RecurStep ==
  ASSUME IInv, Recur
  PROVE  IInv'
<1> USE DEF Recur, input, caches
<1>1. /\ ~failed /\ ~failed' /\ TypeOK /\ il \in SsmLayers /\ il \in Layers
  BY LayerFacts DEF IInv, Places, TypeOK
<1>2. now' = now
  BY DEF now
<1>3. StateIs(il, state[il], now)
  <2>1. Passed(il, AfterFold)
    BY DEF Passed, AfterFold
  <2>2. QED BY <1>1, <2>1 DEF IInv, StateRight, Seen
<1>4. cur' = now
  BY <1>1, <1>3, RecurRight
<1>5. TypeOK'
  BY <1>1, <1>4, StreamType DEF TypeOK
<1>6. /\ \A l \in AttnLayers : Passed(l, AfterKv)' = Passed(l, AfterKv)
      /\ \A l \in SsmLayers : Passed(l, AfterConv)' = Passed(l, AfterConv)
      /\ \A l \in SsmLayers : Passed(l, AfterFold)' = Passed(l, AfterFold)
      /\ \A l \in Wanted : Passed(l, AfterTap)' = Passed(l, AfterTap)
  BY <1>1, LayerFacts DEF Passed, AfterKv, AfterConv, AfterFold, AfterTap
<1>7. KvRight' /\ ConvRight' /\ StateRight' /\ TornByOne'
  BY <1>1, <1>6, KvFrame, ConvFrame, StateFrame, TornFrame DEF IInv
<1>8. TapsSoFar'
  BY <1>1, <1>2, <1>6 DEF IInv, TapsSoFar
<1>9. Places' /\ WindowRight' /\ StreamRight' /\ HiddenRight' /\ TapsRight'
  BY <1>1, <1>2, <1>4 DEF Places, WindowRight, StreamRight, HiddenRight, TapsRight
<1>10. QED BY <1>5, <1>7, <1>8, <1>9 DEF IInv

LEMMA FfnStep ==
  ASSUME IInv, Ffn
  PROVE  IInv'
<1> USE DEF Ffn, input, caches
<1>1. /\ ~failed /\ ~failed' /\ TypeOK /\ il \in Layers /\ cur = now /\ NLayers \in Nat
      /\ pc' \in {"tap", "norm"}
  BY ShapeAssumption, DecoderAssumption DEF IInv, Places, TypeOK, StreamRight
<1>2. now' = now
  BY DEF now
<1>3. il' \in Layers /\ (LastLayer => il' = il) /\ (~LastLayer => il' = il + 1 /\ il' \in Nat \ {0})
  BY <1>1 DEF Layers, LastLayer
<1>4. ASSUME NEW l \in Layers, NEW steps \in {AfterKv, AfterConv, AfterFold, AfterTap}
      PROVE  Passed(l, steps)' = Passed(l, steps)
  <2>1. "ffn" \in steps /\ "norm" \in steps /\ "tap" \notin steps
    BY DEF AfterKv, AfterConv, AfterFold, AfterTap
  <2>2. Passed(l, steps) <=> l <= il
    BY <1>1, <2>1 DEF Passed, Layers
  <2>3. Passed(l, steps)' <=> l <= il
    BY <1>1, <1>3, <2>1 DEF Passed, Layers
  <2>4. QED BY <2>2, <2>3 DEF Passed
<1>5. /\ \A l \in AttnLayers : Passed(l, AfterKv)' = Passed(l, AfterKv)
      /\ \A l \in SsmLayers : Passed(l, AfterConv)' = Passed(l, AfterConv)
      /\ \A l \in SsmLayers : Passed(l, AfterFold)' = Passed(l, AfterFold)
      /\ \A l \in Wanted : Passed(l, AfterTap)' = Passed(l, AfterTap)
  BY <1>4, LayerFacts
<1>6. KvRight' /\ ConvRight' /\ StateRight' /\ TornByOne'
  BY <1>1, <1>5, KvFrame, ConvFrame, StateFrame, TornFrame DEF IInv
<1>7. TapsSoFar'
  BY <1>1, <1>2, <1>5 DEF IInv, TapsSoFar
<1>8. StreamRight'
  <2>1. CASE LastLayer
    BY <1>1, <1>2, <2>1 DEF StreamRight
  <2>2. CASE ~LastLayer
    <3>1. InputAt(il', now, Len(now)) = now
      BY <1>1, <1>3, <2>2, InputOfLast, NowFacts
    <3>2. QED BY <1>1, <1>2, <2>2, <3>1 DEF StreamRight
  <2>3. QED BY <2>1, <2>2
<1>9. Places' /\ WindowRight' /\ HiddenRight' /\ TapsRight'
  BY <1>1 DEF Places, WindowRight, HiddenRight, TapsRight, LastLayer
<1>10. TypeOK'
  BY <1>1, <1>3 DEF TypeOK
<1>11. QED BY <1>6, <1>7, <1>8, <1>9, <1>10 DEF IInv

LEMMA ReturnStep ==
  ASSUME IInv, Return
  PROVE  IInv'
<1> USE DEF Return, caches
<1>1. /\ ~failed /\ ~failed' /\ TypeOK /\ cur = now /\ fed' = now
      /\ Used' = Used /\ il = NLayers - 1 /\ NLayers \in Nat
  BY ShapeAssumption, DecoderAssumption DEF IInv, Places, TypeOK, StreamRight, now, Used
<1>2. \A l \in Layers, steps \in {AfterKv, AfterConv, AfterFold, AfterTap} :
        Passed(l, steps) /\ ~Passed(l, steps)'
  BY <1>1 DEF Passed, Layers, AfterKv, AfterConv, AfterFold, AfterTap
<1>3. \A l \in Layers : /\ Seen(Passed(l, AfterKv)) = now /\ Seen(Passed(l, AfterKv))' = now
                      /\ Seen(Passed(l, AfterConv)) = now /\ Seen(Passed(l, AfterConv))' = now
                      /\ Seen(Passed(l, AfterFold)) = now /\ Seen(Passed(l, AfterFold))' = now
  BY <1>1, <1>2 DEF Seen
<1>4. TypeOK'
  BY <1>1, NowFacts DEF TypeOK
<1>5. KvRight'
  BY <1>1, <1>3, LayerFacts DEF IInv, KvRight
<1>6. ConvRight' /\ StateRight'
  BY <1>1, <1>3, LayerFacts DEF IInv, ConvRight, StateRight
<1>7. TapsRight'
  <2>1. \A l \in Wanted : taps[l] = InputAt(l, now, Len(now))
    BY <1>1, <1>2, LayerFacts DEF IInv, TapsSoFar
  <2>2. QED BY <1>1, <2>1 DEF TapsRight
<1>8. HiddenRight' /\ Places' /\ WindowRight' /\ StreamRight'
  BY <1>1 DEF HiddenRight, Places, WindowRight, StreamRight
<1>9. TapsSoFar'
  BY DEF TapsSoFar, Passed
<1>10. TornByOne'
  <2>1. Len(now) \in Nat
    BY <1>1, NowFacts
  <2>2. ASSUME NEW l \in AttnLayers, NEW st \in Used PROVE Len(cache[l][st]) = Len(now)
    <3>1. RowsAre(l, cache[l][st], now)
      BY <1>1, <1>3, LayerFacts, CountedIsUsed DEF IInv, KvRight
    <3>2. QED BY <3>1 DEF RowsAre
  <2>3. ASSUME NEW l \in SsmLayers PROVE Len(state[l]) = Len(now)
    <3>1. StateIs(l, state[l], now)
      BY <1>1, <1>3, LayerFacts DEF IInv, StateRight
    <3>2. QED BY <3>1 DEF StateIs
  <2>4. Len(now) - Len(now) \in {0, 1}
    BY <2>1
  <2>5. QED BY <1>1, <2>2, <2>3, <2>4 DEF TornByOne
<1>11. QED BY <1>4, <1>5, <1>6, <1>7, <1>8, <1>9, <1>10 DEF IInv

LEMMA FailStep ==
  ASSUME IInv, Fail
  PROVE  IInv'
<1>1. TypeOK' /\ Places' /\ failed'
  BY DEF IInv, Fail, caches, TypeOK, Places
<1>2. TornByOne'
  BY TornFrame DEF IInv, Fail, caches
<1>3. QED BY <1>1, <1>2 DEF IInv

LEMMA ResetStep ==
  ASSUME IInv, Reset
  PROVE  IInv'
<1>1. /\ fed' = <<>> /\ ~failed' /\ pc' = "idle"
      /\ \A l \in AttnLayers, st \in Stores : cache'[l][st] = <<>>
      /\ \A l \in SsmLayers : conv'[l] = ZeroConv /\ state'[l] = <<>>
  BY DEF Reset, Cleared, ResetState
<1>2. TypeOK'
  <2>1. ZeroConv \in [1..NPrev -> Digests]
    BY ShapeAssumption, DecoderAssumption DEF ZeroConv, Zero, Digests
  <2>2. <<>> \in Seq(Token) /\ <<>> \in Seq(Rows) /\ <<>> \in Seq(Seq(Digests))
    OBVIOUS
  <2>3. /\ conv' \in [SsmLayers -> [1..NPrev -> Digests]]
        /\ state' \in [SsmLayers -> Seq(Seq(Digests))]
    BY <2>1, <2>2 DEF Reset, ResetState
  <2>4. cache' \in [AttnLayers -> [Stores -> Seq(Rows)]]
    BY <2>2 DEF Reset, Cleared
  <2>5. QED BY <2>2, <2>3, <2>4 DEF Reset, IInv, TypeOK
<1>3. KvRight' /\ ConvRight' /\ StateRight' /\ TornByOne'
  <2>1. KvRight'
    <3>1. \A l : Seen(Passed(l, AfterKv))' = fed'
      BY <1>1 DEF Seen, Passed
    <3>2. Len(<<>>) = 0 /\ 1..0 = {}
      OBVIOUS
    <3>3. QED BY <1>1, <3>1, <3>2 DEF KvRight, RowsAre
  <2>2. ConvRight'
    <3>1. \A l : Seen(Passed(l, AfterConv))' = fed'
      BY <1>1 DEF Seen, Passed
    <3>2. ASSUME NEW l \in SsmLayers, NEW i \in 1..NPrev
          PROVE  conv'[l][i] = WindowInput(l, <<>>, Len(<<>>) + 1, i)
      <4>1. ~(Len(<<>>) + 1 + i > NPrev + 1)
        BY ShapeAssumption, DecoderAssumption
      <4>2. conv'[l][i] = Zero
        BY <1>1 DEF ZeroConv
      <4>3. QED BY <4>1, <4>2 DEF WindowInput
    <3>3. QED BY <1>1, <3>1, <3>2 DEF ConvRight, ConvIs
  <2>3. StateRight'
    <3>1. \A l : Seen(Passed(l, AfterFold))' = fed'
      BY <1>1 DEF Seen, Passed
    <3>2. Len(<<>>) = 0 /\ 1..0 = {}
      OBVIOUS
    <3>3. QED BY <1>1, <3>1, <3>2 DEF StateRight, StateIs
  <2>4. TornByOne'
    <3>1. Len(<<>>) - Len(<<>>) \in {0, 1} /\ Used' \subseteq Stores
      BY DEF Used, Stores
    <3>2. QED BY <1>1, <3>1 DEF TornByOne
  <2>5. QED BY <2>1, <2>2, <2>3, <2>4
<1>4. Places' /\ WindowRight' /\ StreamRight' /\ TapsSoFar' /\ HiddenRight' /\ TapsRight'
  BY <1>1 DEF Places, WindowRight, StreamRight, TapsSoFar, HiddenRight, TapsRight, Passed
<1>5. QED BY <1>2, <1>3, <1>4 DEF IInv

-----------------------------------------------------------------------------
LEMMA NextIInv == IInv /\ [Next]_vars => IInv'
<1> SUFFICES ASSUME IInv, [Next]_vars PROVE IInv'
  OBVIOUS
<1>1. CASE \E t \in Token : Begin(t)
  BY <1>1, BeginStep
<1>2. CASE Tap
  BY <1>2, TapStep
<1>3. CASE AppendRow
  BY <1>3, AppendRowStep
<1>4. CASE Attend
  BY <1>4, AttendStep
<1>5. CASE Convolve
  BY <1>5, ConvolveStep
<1>6. CASE Fold
  BY <1>6, FoldStep
<1>7. CASE Recur
  BY <1>7, RecurStep
<1>8. CASE Ffn
  BY <1>8, FfnStep
<1>9. CASE Return
  BY <1>9, ReturnStep
<1>10. CASE Fail
  BY <1>10, FailStep
<1>11. CASE Reset
  BY <1>11, ResetStep
<1>12. CASE UNCHANGED vars
  BY <1>12 DEF vars, IInv, TypeOK, Places, TornByOne, KvRight, ConvRight, StateRight,
              WindowRight, StreamRight, TapsSoFar, HiddenRight, TapsRight, Used, Passed, Seen,
              now, RowsAre, ConvIs, WindowIs, StateIs
<1>13. QED
  BY <1>1, <1>2, <1>3, <1>4, <1>5, <1>6, <1>7, <1>8, <1>9, <1>10, <1>11, <1>12 DEF Next

LEMMA Invariance == Spec => []IInv
BY InitIInv, NextIInv, PTL DEF Spec

-----------------------------------------------------------------------------
\* The state is always well typed: Decoder::forward_hidden_taps and reset keep the
\* shape of every cache, in every storage mode.
THEOREM TypeCorrect == Spec => []TypeOK
<1>1. IInv => TypeOK
  BY DEF IInv
<1>2. QED BY <1>1, Invariance, PTL

\* "Drop all cached state so the decoder can start a fresh sequence": what a
\* forward of src/forward.rs returns is the model's answer to the tokens since
\* the last reset, whatever ran or failed on the decoder before.
THEOREM AnswersTheSequence == Spec => []HiddenRight
<1>1. IInv => HiddenRight
  BY DEF IInv, HiddenRight
<1>2. QED BY <1>1, Invariance, PTL

\* The taps that forward_hidden_taps hands the draft model are this token's.
THEOREM TapsAreTheTokens == Spec => []TapsRight
<1>1. IInv => TapsRight
  BY DEF IInv, TapsRight
<1>2. QED BY <1>1, Invariance, PTL

\* Between two forwards, every cache of every layer ends at the same token.
THEOREM LayersInStep == Spec => []CachesInStep
<1>1. IInv => CachesInStep
  <2> SUFFICES ASSUME IInv, pc = "idle", ~failed PROVE CachesInStep
    BY DEF CachesInStep
  <2>1. \A l, steps : ~Passed(l, steps)
    BY DEF Passed
  <2>2. Len(<<>>) = 0
    OBVIOUS
  <2>3. QED BY <2>1, <2>2 DEF IInv, KvRight, StateRight, RowsAre, StateIs, Seen, CachesInStep
<1>2. QED BY <1>1, Invariance, PTL

\* The assertion that full_attention_layer makes in debug builds never fails.
THEOREM AssertionHolds == Spec => []PositionAsserted
<1>1. IInv => PositionAsserted
  <2> SUFFICES ASSUME IInv, pc = "attend" PROVE NPos(il) = pos + 1
    BY DEF PositionAsserted
  <2>1. Passed(il, AfterKv) /\ il \in AttnLayers /\ ~failed /\ TypeOK
    BY DEF IInv, Passed, AfterKv, Places
  <2>2. RowsAre(il, cache[il][Counted], now)
    BY <2>1, CountedIsUsed DEF IInv, KvRight, Seen
  <2>3. QED BY <2>1, <2>2, NowFacts DEF RowsAre, NPos, pos
<1>2. QED BY <1>1, Invariance, PTL

\* A forward that fails, at any of its steps, leaves the caches of src/forward.rs at
\* most one token apart.
THEOREM TearsByOne == Spec => []TornByOne
<1>1. IInv => TornByOne
  BY DEF IInv
<1>2. QED BY <1>1, Invariance, PTL

\* The caches of src/forward.rs stay in step, whatever fails.
THEOREM CachesStaySound == Spec => []CachesSound
<1>1. TypeOK /\ CachesInStep /\ PositionAsserted /\ TornByOne => CachesSound
  BY DEF CachesSound
<1>2. QED BY <1>1, TypeCorrect, LayersInStep, AssertionHolds, TearsByOne, PTL

-----------------------------------------------------------------------------
\* Sampler.

\* A row of logits and settings that there are.
RowOK == logits \in LogitRows /\ config \in Configs

\* What a row of logits and its settings are.
LEMMA RowIs ==
  ASSUME RowOK
  PROVE  /\ Len(logits) \in Nat \ {0} /\ Tokens = 1..Len(logits) /\ logits \in Seq(DOMAIN Exp)
         /\ \A t \in Tokens : logits[t] \in Int /\ Weight(t) \in Nat
         /\ \A t, o \in Tokens : logits[o] > logits[t] <=> Weight(o) > Weight(t)
         /\ IsFiniteSet(Tokens) /\ Cardinality(Tokens) = Len(logits)
         /\ Limit \in 1..Len(logits)
         /\ config.minP[1] \in Int /\ config.minP[2] \in Nat \ {0}
         /\ config.topP[1] \in Int /\ config.topP[2] \in Nat \ {0}
         /\ config.greedy \in BOOLEAN
<1>1. logits \in Seq(DOMAIN Exp) /\ logits # <<>>
  BY SamplerAssumption DEF RowOK
<1>2. config \in [greedy : BOOLEAN, k : Int, minP : Int \X (Nat \ {0}), topP : Int \X (Nat \ {0})]
  BY SamplerAssumption DEF RowOK
<1>3. Len(logits) \in Nat \ {0} /\ Tokens = 1..Len(logits)
  BY <1>1 DEF Tokens
<1>4. \A t \in Tokens : logits[t] \in DOMAIN Exp
  BY <1>1, <1>3
<1>5. \A t \in Tokens : logits[t] \in Int /\ Weight(t) \in Nat
  BY <1>4, SamplerAssumption DEF Weight
<1>6. ASSUME NEW t \in Tokens, NEW o \in Tokens
      PROVE  logits[o] > logits[t] <=> Weight(o) > Weight(t)
  <2>1. PICK l \in DOMAIN Exp : l = logits[t]
    BY <1>4
  <2>2. PICK m \in DOMAIN Exp : m = logits[o]
    BY <1>4
  <2>3. l \in Int /\ m \in Int /\ Exp[l] \in Nat /\ Exp[m] \in Nat
    BY SamplerAssumption
  <2>4. (l < m => Exp[l] < Exp[m]) /\ (m < l => Exp[m] < Exp[l])
    BY SamplerAssumption
  <2>5. m > l <=> Exp[m] > Exp[l]
    <3>1. CASE l < m
      BY <2>3, <2>4, <3>1
    <3>2. CASE m < l
      BY <2>3, <2>4, <3>2
    <3>3. CASE m = l
      BY <2>3, <3>3
    <3>4. QED BY <2>3, <3>1, <3>2, <3>3
  <2>6. QED BY <2>1, <2>2, <2>5 DEF Weight
<1>7. IsFiniteSet(Tokens) /\ Cardinality(Tokens) = Len(logits)
  BY <1>3, FS_Interval
<1>8. Limit \in 1..Len(logits)
  <2>1. config.k \in Int
    BY <1>2
  <2>2. QED BY <1>3, <2>1 DEF Limit
<1>9. /\ config.minP[1] \in Int /\ config.minP[2] \in Nat \ {0}
      /\ config.topP[1] \in Int /\ config.topP[2] \in Nat \ {0} /\ config.greedy \in BOOLEAN
  BY <1>2
<1>10. QED BY <1>1, <1>3, <1>5, <1>6, <1>7, <1>8, <1>9

\* A largest of the first tokens, for any number of them.
LEMMA BestExists ==
  ASSUME RowOK
  PROVE  \E t \in Tokens : Larger(t) = {}
<1>a. PICK n : n = Len(logits)
  OBVIOUS
<1> DEFINE Best(k) == \E t \in 1..k : \A o \in 1..k : logits[o] <= logits[t]
           T == {k \in 1..n : ~Best(k)}
<1>0. n \in Nat \ {0} /\ Tokens = 1..n /\ \A t \in 1..n : logits[t] \in Int
  BY <1>a, RowIs, Zenon
<1>1. T = {}
  <2>1. SUFFICES ASSUME T # {} PROVE FALSE
    OBVIOUS
  <2>2. PICK m \in T : \A k \in T : m <= k
    <3> HIDE DEF T
    <3>1. T \in SUBSET Nat
      BY <1>0 DEF T
    <3>2. QED BY <2>1, <3>1, LeastNat, Zenon
  <2>3. m \in 1..n /\ ~Best(m)
    OBVIOUS
  <2>4. m # 1
    <3>1. ASSUME m = 1 PROVE FALSE
      <4>1. 1 \in 1..m /\ \A o \in 1..m : logits[o] <= logits[1]
        BY <1>0, <2>3, <3>1
      <4>2. QED BY <4>1, <2>3
    <3>2. QED BY <3>1
  <2>5. m - 1 \in 1..n /\ m - 1 \notin T
    <3> HIDE DEF T
    <3>1. m \in 1..n /\ m - 1 \in 1..n /\ ~(m <= m - 1)
      BY <1>0, <2>3, <2>4
    <3>2. QED BY <2>2, <3>1, Zenon
  <2>6. PICK t \in 1..(m - 1) : \A o \in 1..(m - 1) : logits[o] <= logits[t]
    BY <2>5
  <2>7. PICK b \in 1..m : /\ \A o \in 1..(m - 1) : logits[o] <= logits[b]
                          /\ logits[m] <= logits[b]
    <3>1. t \in 1..m /\ m \in 1..m /\ t \in 1..n
      BY <1>0, <2>3, <2>5
    <3>2. CASE logits[m] <= logits[t]
      BY <2>6, <3>1, <3>2
    <3>3. CASE ~(logits[m] <= logits[t])
      <4>1. \A o \in 1..(m - 1) : logits[o] <= logits[m]
        <5>1. TAKE o \in 1..(m - 1)
        <5>2. o \in 1..n
          BY <1>0, <2>3
        <5>3. logits[o] <= logits[t]
          BY <2>6
        <5>4. logits[o] \in Int /\ logits[t] \in Int /\ logits[m] \in Int
          BY <1>0, <2>3, <3>1, <5>2
        <5>5. PICK x \in Int, y \in Int, z \in Int : x = logits[o] /\ y = logits[t] /\ z = logits[m]
          BY <5>4
        <5>6. x <= y /\ ~(z <= y)
          BY <3>3, <5>3, <5>5
        <5>7. x <= z
          BY <5>6
        <5>8. QED BY <5>5, <5>7
      <4>2. logits[m] <= logits[m]
        BY <1>0, <2>3
      <4>3. QED BY <3>1, <4>1, <4>2
    <3>4. QED BY <3>2, <3>3
  <2>8. \A o \in 1..m : o \in 1..(m - 1) \/ o = m
    BY <1>0, <2>3
  <2>9. QED BY <2>3, <2>7, <2>8
<1>2. Best(n)
  <2>1. n \in 1..n
    BY <1>0
  <2>2. QED BY <1>1, <2>1
<1>3. PICK t \in 1..n : \A o \in 1..n : logits[o] <= logits[t]
  BY <1>2
<1>4. \A o \in Tokens : ~(logits[o] > logits[t])
  BY <1>0, <1>3
<1>5. QED BY <1>0, <1>3, <1>4 DEF Larger

\* The largest weight of some tokens is that of a largest token, if it is one of them.
LEMMA BestWeight ==
  ASSUME RowOK, NEW S \in SUBSET Tokens, NEW b \in S, Larger(b) = {}
  PROVE  Max({Weight(o) : o \in S}) = Weight(b) /\ \A o \in Tokens : Weight(o) <= Weight(b)
<1>1. \A t \in Tokens : Weight(t) \in Nat
  BY RowIs, Zenon
<1>2. ASSUME NEW o \in Tokens PROVE Weight(o) <= Weight(b)
  <2>1. ~(logits[o] > logits[b])
    BY DEF Larger
  <2>2. ~(Weight(o) > Weight(b))
    BY <2>1, RowIs, Zenon
  <2>3. Weight(o) \in Nat /\ Weight(b) \in Nat
    BY <1>1
  <2>4. QED BY <2>2, <2>3
<1>3. PICK X : X = {Weight(o) : o \in S}
  OBVIOUS
<1>4. PICK w : w = Weight(b)
  OBVIOUS
<1>5. X \in SUBSET Nat /\ w \in X /\ \A x \in X : x <= w
  BY <1>1, <1>2, <1>3, <1>4
<1>6. \A x \in X : (\A y \in X : x >= y) => x = w
  <2>1. TAKE x \in X
  <2>2. x \in Nat /\ w \in Nat /\ x <= w
    BY <1>5
  <2>3. QED BY <1>5, <2>2
<1>7. Max(X) = Weight(b)
  <2>1. \A y \in X : w >= y
    <3>1. TAKE y \in X
    <3>2. y \in Nat /\ w \in Nat /\ y <= w
      BY <1>5
    <3>3. QED BY <3>2
  <2>2. QED BY <1>4, <1>5, <1>6, <2>1, Zenon DEF Max
<1>8. QED BY <1>2, <1>3, <1>7

\* The weights of some tokens, in the places of all.
Part(S) == [t \in Tokens |-> IF t \in S THEN Weight(t) ELSE 0]

LEMMA PartIs ==
  ASSUME RowOK, NEW S
  PROVE  /\ Part(S) \in Seq(Nat) /\ Len(Part(S)) = Len(logits) /\ WeightOf(S) = Total(Part(S))
         /\ Sums(Part(S))[0] = 0
         /\ \A i \in 0..Len(logits) : Sums(Part(S))[i] \in Nat
         /\ \A i \in 1..Len(logits) :
              Sums(Part(S))[i] = Sums(Part(S))[i - 1] + (IF i \in S THEN Weight(i) ELSE 0)
<1>0. Len(logits) \in Nat /\ Tokens = 1..Len(logits) /\ \A t \in Tokens : Weight(t) \in Nat
  BY RowIs, Zenon
<1>1. PICK p : p = Part(S)
  OBVIOUS
<1>2. p \in [1..Len(logits) -> Nat] /\ \A t \in 1..Len(logits) : p[t] = IF t \in S THEN Weight(t) ELSE 0
  BY <1>0, <1>1 DEF Part
<1>3. p \in Seq(Nat) /\ Len(p) = Len(logits)
  BY <1>0, <1>2
<1>4. WeightOf(S) = Total(p)
  BY <1>1, Zenon DEF WeightOf, Part
<1>5. /\ Sums(p)[0] = 0
      /\ \A i \in 1..Len(logits) : Sums(p)[i] = Sums(p)[i - 1] + p[i]
  BY <1>0, <1>3, SumsAre, Zenon
<1>6. \A i \in 0..Len(logits) : Sums(p)[i] \in Nat
  BY <1>3, SumsNat, Zenon
<1>7. QED BY <1>1, <1>2, <1>3, <1>4, <1>5, <1>6, Zenon

\* The weight of no tokens, and of one more.
LEMMA WeightOfMore ==
  ASSUME RowOK
  PROVE  /\ WeightOf({}) = 0
         /\ \A S \in SUBSET Tokens : WeightOf(S) \in Nat
         /\ \A S \in SUBSET Tokens : \A a \in Tokens \ S : WeightOf(S \cup {a}) = WeightOf(S) + Weight(a)
<1>a. PICK n : n = Len(logits)
  OBVIOUS
<1>0. n \in Nat /\ Tokens = 1..n /\ n \in 0..n /\ \A t \in Tokens : Weight(t) \in Nat
  <2>1. n \in Nat \ {0} /\ Tokens = 1..n /\ \A t \in Tokens : Weight(t) \in Nat
    BY <1>a, RowIs, Zenon
  <2>2. QED BY <2>1
<1>1. ASSUME NEW S PROVE WeightOf(S) = Sums(Part(S))[n] /\ WeightOf(S) \in Nat
  <2>1. WeightOf(S) = Sums(Part(S))[n]
    BY <1>a, PartIs, Zenon DEF Total
  <2>2. \A i \in 0..n : Sums(Part(S))[i] \in Nat
    BY <1>a, PartIs, Zenon
  <2>3. QED BY <1>0, <2>1, <2>2, Zenon
<1>2. ASSUME NEW S \in SUBSET Tokens, NEW a \in Tokens \ S, NEW i \in 0..n,
             Sums(Part(S \cup {a}))[i] # Sums(Part(S))[i] + (IF a <= i THEN Weight(a) ELSE 0)
      PROVE  FALSE
  <2> DEFINE x == Sums(Part(S \cup {a}))
             y == Sums(Part(S))
             T == {k \in 0..n : x[k] # y[k] + (IF a <= k THEN Weight(a) ELSE 0)}
  <2>1. PICK m \in T : \A k \in T : m <= k
    <3>1. i \in T
      BY <1>2
    <3> HIDE DEF T
    <3>2. T \in SUBSET Nat
      BY <1>0 DEF T
    <3>3. QED BY <3>1, <3>2, LeastNat, Zenon
  <2>2. m \in 0..n /\ x[m] # y[m] + (IF a <= m THEN Weight(a) ELSE 0)
    OBVIOUS
  <2>3. /\ x[0] = 0 /\ y[0] = 0 /\ (\A k \in 0..n : x[k] \in Nat /\ y[k] \in Nat)
        /\ \A k \in 1..n : x[k] = x[k - 1] + (IF k \in S \cup {a} THEN Weight(k) ELSE 0)
        /\ \A k \in 1..n : y[k] = y[k - 1] + (IF k \in S THEN Weight(k) ELSE 0)
    BY <1>a, PartIs, Zenon
  <2>4. a \in 1..n /\ a \notin S /\ Weight(a) \in Nat
    BY <1>0
  <2>5. m # 0
    <3> HIDE DEF x, y
    <3>1. ASSUME m = 0 PROVE FALSE
      <4>1. ~(a <= m) /\ x[m] = 0 /\ y[m] = 0
        BY <1>0, <2>3, <2>4, <3>1
      <4>2. QED BY <2>2, <4>1
    <3>2. QED BY <3>1
  <2>6. m \in 1..n /\ m - 1 \in 0..n /\ m - 1 \notin T
    <3> HIDE DEF T, x, y
    <3>1. m \in 1..n /\ m - 1 \in 0..n /\ ~(m <= m - 1)
      BY <1>0, <2>2, <2>5
    <3>2. QED BY <2>1, <3>1, Zenon
  <2>7. x[m - 1] = y[m - 1] + (IF a <= m - 1 THEN Weight(a) ELSE 0)
    BY <2>6
  <2>8. Weight(m) \in Nat
    BY <1>0, <2>6
  <2>9. x[m] = x[m - 1] + (IF m \in S \cup {a} THEN Weight(m) ELSE 0)
    BY <2>3, <2>6, Zenon
  <2>10. y[m] = y[m - 1] + (IF m \in S THEN Weight(m) ELSE 0)
    BY <2>3, <2>6, Zenon
  <2>11. PICK p \in Nat : p = y[m - 1]
    BY <2>3, <2>6
  <2> HIDE DEF x, y, T
  <2>12. CASE m = a
    <3>1. x[m - 1] = p /\ y[m] = p /\ x[m] = p + Weight(a)
      BY <2>4, <2>6, <2>7, <2>8, <2>9, <2>10, <2>11, <2>12
    <3>2. QED BY <2>2, <2>4, <2>6, <2>12, <3>1
  <2>13. CASE m # a
    <3>1. m \in S \cup {a} <=> m \in S
      BY <2>13
    <3>2. a <= m <=> a <= m - 1
      BY <2>4, <2>6, <2>13
    <3>3. PICK w \in Nat : w = IF m \in S THEN Weight(m) ELSE 0
      BY <2>8
    <3>4. PICK v \in Nat : v = IF a <= m THEN Weight(a) ELSE 0
      BY <2>4
    <3>5. x[m - 1] = p + v /\ y[m] = p + w /\ x[m] = p + v + w
      BY <2>7, <2>9, <2>10, <2>11, <3>1, <3>2, <3>3, <3>4
    <3>6. QED BY <2>2, <3>4, <3>5
  <2>14. QED BY <2>12, <2>13
<1>3. ASSUME NEW S \in SUBSET Tokens, NEW a \in Tokens \ S
      PROVE  WeightOf(S \cup {a}) = WeightOf(S) + Weight(a)
  <2>1. Sums(Part(S \cup {a}))[n] = Sums(Part(S))[n] + (IF a <= n THEN Weight(a) ELSE 0)
    BY <1>0, <1>2, Zenon
  <2>2. a <= n
    BY <1>0
  <2>3. QED BY <1>1, <2>1, <2>2, Zenon
<1>4. WeightOf({}) = 0
  <2> DEFINE y == Sums(Part({}))
             T == {k \in 0..n : y[k] # 0}
  <2>1. T = {}
    <3>1. SUFFICES ASSUME T # {} PROVE FALSE
      OBVIOUS
    <3>2. PICK m \in T : \A k \in T : m <= k
      <4> HIDE DEF T
      <4>1. T \in SUBSET Nat
        BY <1>0 DEF T
      <4>2. QED BY <3>1, <4>1, LeastNat, Zenon
    <3>3. m \in 0..n /\ y[m] # 0
      OBVIOUS
    <3>4. y[0] = 0 /\ \A k \in 1..n : y[k] = y[k - 1] + (IF k \in {} THEN Weight(k) ELSE 0)
      BY <1>a, PartIs, Zenon
    <3>5. m \in 1..n /\ m - 1 \in 0..n /\ m - 1 \notin T
      BY <1>0, <3>2, <3>3, <3>4
    <3>6. y[m - 1] = 0
      BY <3>5
    <3>7. y[m] = y[m - 1] + (IF m \in {} THEN Weight(m) ELSE 0)
      BY <3>4, <3>5, Zenon
    <3> HIDE DEF y
    <3>8. QED BY <3>3, <3>6, <3>7
  <2>2. y[n] = 0
    BY <1>0, <2>1
  <2>3. QED BY <1>1, <2>2, Zenon
<1>5. QED BY <1>1, <1>3, <1>4

\* A running sum over different tokens is the weight of those it has passed.
LEMMA RunningIs ==
  ASSUME RowOK, NEW m \in Nat, NEW s \in [1..m -> Tokens],
         \A i, j \in 1..m : i # j => s[i] # s[j]
  PROVE  \A k \in 0..m : Running(s)[k] = WeightOf({s[i] : i \in 1..k})
<1> DEFINE Of(k) == {s[i] : i \in 1..k}
           T == {k \in 0..m : Running(s)[k] # WeightOf(Of(k))}
<1>0. \A t \in Tokens : Weight(t) \in Nat
  BY RowIs, Zenon
<1>1. SUFFICES ASSUME T # {} PROVE FALSE
  OBVIOUS
<1>2. PICK k \in T : \A o \in T : k <= o
  <2> HIDE DEF T
  <2>1. T \in SUBSET Nat
    BY DEF T
  <2>2. QED BY <1>1, <2>1, LeastNat, Zenon
<1>3. k \in 0..m /\ Running(s)[k] # WeightOf(Of(k))
  OBVIOUS
<1>4. PICK ns : ns = [i \in DOMAIN s |-> Weight(s[i])]
  OBVIOUS
<1>5. ns \in Seq(Nat) /\ Len(ns) = m /\ \A i \in 1..m : ns[i] = Weight(s[i])
  <2>1. DOMAIN s = 1..m /\ \A i \in 1..m : s[i] \in Tokens
    OBVIOUS
  <2>2. ns \in [1..m -> Nat] /\ \A i \in 1..m : ns[i] = Weight(s[i])
    BY <1>0, <1>4, <2>1
  <2>3. QED BY <2>2
<1>6. /\ Running(s)[0] = 0
      /\ \A i \in 1..m : Running(s)[i] = Running(s)[i - 1] + Weight(s[i])
  <2>1. Running(s) = Sums(ns)
    BY <1>4, Zenon DEF Running
  <2>2. Sums(ns)[0] = 0 /\ \A i \in 1..m : Sums(ns)[i] = Sums(ns)[i - 1] + ns[i]
    BY <1>5, SumsAre, Zenon
  <2>3. QED BY <1>5, <2>1, <2>2, Zenon
<1>7. k # 0
  <2>1. ASSUME k = 0 PROVE FALSE
    <3>1. Of(0) = {}
      OBVIOUS
    <3>2. WeightOf({}) = 0
      BY WeightOfMore, Zenon
    <3>3. QED BY <1>3, <1>6, <2>1, <3>1, <3>2, Zenon
  <2>2. QED BY <2>1
<1>8. k \in 1..m /\ k - 1 \in 0..m /\ k - 1 \notin T
  BY <1>2, <1>3, <1>7
<1>9. Running(s)[k - 1] = WeightOf(Of(k - 1))
  BY <1>8
<1>10. Of(k) = Of(k - 1) \cup {s[k]} /\ Of(k - 1) \in SUBSET Tokens /\ s[k] \in Tokens \ Of(k - 1)
  BY <1>8
<1>11. WeightOf(Of(k)) = WeightOf(Of(k - 1)) + Weight(s[k])
  <2> HIDE DEF Of
  <2>1. QED BY <1>10, WeightOfMore, Zenon
<1>12. QED BY <1>3, <1>6, <1>8, <1>9, <1>11, Zenon

\* What an ordering of a set is.
LEMMA OrderingIs ==
  ASSUME NEW S, IsFiniteSet(S), NEW s \in SetToSeqs(S)
  PROVE  /\ Cardinality(S) \in Nat /\ s \in [1..Cardinality(S) -> S] /\ s \in Seq(S)
         /\ Len(s) = Cardinality(S) /\ Range(s) = S
         /\ \A i, j \in 1..Cardinality(S) : i # j => s[i] # s[j]
<1>1. PICK n : n = Cardinality(S)
  OBVIOUS
<1>2. n \in Nat
  BY <1>1, FS_CardinalityType
<1>3. s \in [1..n -> S] /\ \A i, j \in 1..n : i # j => s[i] # s[j]
  BY <1>1, Zenon DEF SetToSeqs
<1>4. s \in Injection(1..n, S)
  BY <1>3 DEF Injection, IsInjective
<1>5. Cardinality(1..n) = n
  BY <1>2, FS_Interval
<1>6. s \in Surjection(1..n, S)
  BY <1>1, <1>4, <1>5, FS_Injection, Zenon
<1>7. \A x \in S : \E i \in 1..n : s[i] = x
  BY <1>6, Zenon DEF Surjection
<1>8. Range(s) = S
  BY <1>3, <1>7 DEF Range
<1>9. s \in Seq(S) /\ Len(s) = n
  BY <1>2, <1>3
<1>10. QED BY <1>1, <1>2, <1>3, <1>8, <1>9

-----------------------------------------------------------------------------
\* The candidates behind each step.
AfterSelect(o) ==
  /\ o \in Seq(Tokens)
  /\ \A t \in Range(o) : Cardinality(Larger(t)) < Limit /\ Larger(t) \subseteq Range(o)
  /\ \E t \in Range(o) : Larger(t) = {}
AfterMinP(o) ==
  /\ o \in Seq(Tokens)
  /\ \A t \in Range(o) : /\ Cardinality(Larger(t)) < Limit /\ Heavy(t)
                         /\ {x \in Larger(t) : Heavy(x)} \subseteq Range(o)
  /\ \E t \in Range(o) : Larger(t) = {}
AfterTopP(o) ==
  /\ o \in Seq(Tokens)
  /\ \A t \in Range(o) : Allowed(t)
  /\ \E t \in Range(o) : Larger(t) = {}

SmInv ==
  /\ RowOK
  /\ smAt \in {"select", "minp", "topp", "draw", "done"}
  /\ smAt # "done" => pick = 0
  /\ smAt \in {"minp", "topp", "draw"} => ~config.greedy /\ mass \in Nat
  /\ smAt = "minp" => AfterSelect(order)
  /\ smAt = "topp" => AfterMinP(order)
  /\ smAt = "draw" => AfterTopP(order)
  /\ smAt = "done" => PicksWhatIsAllowed

\* Top-k: who is larger than a chosen one is chosen, and they are as many as chosen.
LEMMA SelectKeeps ==
  ASSUME RowOK, NEW S \in kSubset(Limit, Tokens), NEW o \in SetToSeqs(S), Largest(o)
  PROVE  AfterSelect(o) /\ SumOver(o) \in Nat
<1>1. /\ Tokens = 1..Len(logits) /\ IsFiniteSet(Tokens) /\ Limit \in 1..Len(logits) /\ Len(logits) \in Nat
      /\ \A t \in Tokens : logits[t] \in Int /\ Weight(t) \in Nat
  BY RowIs, Zenon
<1>2. S \in SUBSET Tokens /\ Cardinality(S) = Limit
  BY Zenon DEF kSubset
<1>3. IsFiniteSet(S)
  BY <1>1, <1>2, FS_Subset, Zenon
<1>4. /\ o \in [1..Limit -> S] /\ o \in Seq(S) /\ Len(o) = Limit /\ Range(o) = S
      /\ \A i, j \in 1..Limit : i # j => o[i] # o[j]
  BY <1>2, <1>3, OrderingIs, Zenon
<1>5. \A t \in Tokens \ S : \A x \in S : logits[t] <= logits[x]
  BY <1>4, Zenon DEF Largest
<1>6. o \in Seq(Tokens)
  BY <1>2, <1>4
<1>7. ASSUME NEW t \in S PROVE Cardinality(Larger(t)) < Limit /\ Larger(t) \subseteq S
  <2>1. Larger(t) \subseteq S \ {t}
    <3>1. SUFFICES ASSUME NEW x \in Larger(t) PROVE x \in S \ {t}
      OBVIOUS
    <3>2. x \in Tokens /\ logits[x] > logits[t]
      BY DEF Larger
    <3>3. logits[x] \in Int /\ logits[t] \in Int
      BY <1>1, <1>2, <3>2
    <3>4. x # t /\ ~(logits[x] <= logits[t])
      BY <3>2, <3>3
    <3>5. QED BY <1>5, <3>2, <3>4
  <2>2. IsFiniteSet(S \ {t}) /\ Cardinality(S \ {t}) = Limit - 1
    BY <1>2, <1>3, FS_RemoveElement
  <2>3. Cardinality(Larger(t)) <= Limit - 1 /\ IsFiniteSet(Larger(t))
    <3>1. Larger(t) \in SUBSET (S \ {t})
      BY <2>1
    <3>2. IsFiniteSet(Larger(t)) /\ Cardinality(Larger(t)) <= Cardinality(S \ {t})
      BY <2>2, <3>1, FS_Subset, Zenon
    <3>3. QED BY <2>2, <3>2
  <2>4. Cardinality(Larger(t)) \in Nat
    BY <2>3, FS_CardinalityType
  <2>5. QED BY <1>1, <2>1, <2>3, <2>4
<1>8. \E t \in S : Larger(t) = {}
  <2>1. PICK b \in Tokens : Larger(b) = {}
    BY BestExists, Zenon
  <2>2. CASE b \in S
    BY <2>1, <2>2
  <2>3. CASE b \notin S
    <3>1. o[1] \in S
      BY <1>1, <1>4
    <3>2. PICK x \in S : x = o[1]
      BY <3>1
    <3>3. logits[b] <= logits[x]
      BY <1>5, <2>3
    <3>4. ASSUME NEW y \in Larger(x) PROVE FALSE
      <4>1. y \in Tokens /\ logits[y] > logits[x] /\ x \in Tokens
        BY <1>2 DEF Larger
      <4>2. logits[y] \in Int /\ logits[x] \in Int /\ logits[b] \in Int
        BY <1>1, <4>1
      <4>3. logits[y] > logits[b]
        BY <3>3, <4>1, <4>2
      <4>4. y \in Larger(b)
        BY <4>1, <4>3 DEF Larger
      <4>5. QED BY <2>1, <4>4
    <3>5. QED BY <3>4
  <2>4. QED BY <2>2, <2>3
<1>9. SumOver(o) \in Nat
  <2>1. PICK ns : ns = [i \in DOMAIN o |-> Weight(o[i])]
    OBVIOUS
  <2>2. ns \in Seq(Nat) /\ Len(ns) = Len(o)
    <3>1. DOMAIN o = 1..Limit /\ \A i \in 1..Limit : o[i] \in Tokens
      BY <1>2, <1>4
    <3>2. ns \in [1..Limit -> Nat]
      BY <1>1, <2>1, <3>1
    <3>3. QED BY <1>1, <1>4, <3>2
  <2>3. Len(o) \in 0..Len(ns)
    BY <1>1, <1>4, <2>2
  <2>4. SumOver(o) = Sums(ns)[Len(o)]
    BY <2>1, Zenon DEF SumOver, Running
  <2>5. QED BY <2>2, <2>3, <2>4, SumsNat, Zenon
<1>10. QED BY <1>4, <1>6, <1>7, <1>8, <1>9, Zenon DEF AfterSelect

\* To be heavy is to be cut by no min-p, against the largest of all.
LEMMA HeavyIs ==
  ASSUME RowOK, NEW b \in Tokens, Larger(b) = {}, NEW t
  PROVE  Heavy(t) <=> (0 < config.minP[1] /\ config.minP[1] < config.minP[2] =>
                         Weight(t) * config.minP[2] >= config.minP[1] * Weight(b))
<1>1. PICK p : p = config.minP[1]
  OBVIOUS
<1>2. PICK q : q = config.minP[2]
  OBVIOUS
<1>3. p \in Int /\ q \in Int
  BY <1>1, <1>2, RowIs
<1>4. p \in 1..(q - 1) <=> 0 < p /\ p < q
  BY <1>3
<1>5. Max({Weight(o) : o \in Tokens}) = Weight(b)
  BY BestWeight, Zenon
<1>6. QED BY <1>1, <1>2, <1>4, <1>5, Zenon DEF Heavy

\* Who has the largest weight is heavy.
LEMMA BestIsHeavy ==
  ASSUME RowOK, NEW b \in Tokens, Larger(b) = {}
  PROVE  Heavy(b)
<1>1. PICK p : p = config.minP[1]
  OBVIOUS
<1>2. PICK q : q = config.minP[2]
  OBVIOUS
<1>3. PICK w : w = Weight(b)
  OBVIOUS
<1>4. p \in Int /\ q \in Int /\ w \in Nat
  BY <1>1, <1>2, <1>3, RowIs
<1>5. p < q => w * q >= p * w
  <2>1. SUFFICES ASSUME p < q PROVE w * q >= p * w
    OBVIOUS
  <2>2. PICK e \in Nat : q = p + e
    <3>1. q - p \in Nat /\ q = p + (q - p)
      BY <1>4, <2>1
    <3>2. QED BY <3>1
  <2>3. w * (p + e) = w * p + w * e /\ w * p = p * w /\ w * e \in Nat /\ p * w \in Int
    BY <1>4
  <2>4. QED BY <2>2, <2>3
<1>6. QED BY <1>1, <1>2, <1>3, <1>5, HeavyIs, Zenon

\* Min-p keeps the heavy ones.
LEMMA MinPKeeps ==
  ASSUME RowOK, AfterSelect(order), NEW o,
         o = IF 0 < config.minP[1] /\ config.minP[1] < config.minP[2]
             THEN Sifted(order, {t \in Tokens : MinPCut(t)}) ELSE order
  PROVE  AfterMinP(o)
<1>1. PICK b \in Range(order) : Larger(b) = {}
  BY Zenon DEF AfterSelect
<1>2. order \in Seq(Tokens)
  BY DEF AfterSelect
<1>3. Range(order) \in SUBSET Tokens
  BY <1>2 DEF Range
<1>4. b \in Tokens
  BY <1>3
<1>5. Heavy(b)
  BY <1>1, <1>4, BestIsHeavy, Zenon
<1>6. CASE ~(0 < config.minP[1] /\ config.minP[1] < config.minP[2])
  <2>1. o = order
    BY <1>6
  <2>2. \A t : Heavy(t)
    BY <1>1, <1>4, <1>6, HeavyIs, Zenon
  <2>3. QED BY <2>1, <2>2 DEF AfterSelect, AfterMinP
<1>7. CASE 0 < config.minP[1] /\ config.minP[1] < config.minP[2]
  <2>1. PICK A : A = {t \in Tokens : MinPCut(t)}
    OBVIOUS
  <2>2. o = Sifted(order, A)
    BY <1>7, <2>1
  <2>3. \A t \in Tokens : t \in A <=> Heavy(t)
    <3>1. Max({Weight(x) : x \in Range(order)}) = Weight(b)
      BY <1>1, <1>3, BestWeight, Zenon
    <3>2. \A t \in Tokens : MinPCut(t) <=> Weight(t) * config.minP[2] >= config.minP[1] * Weight(b)
      BY <3>1, Zenon DEF MinPCut
    <3>3. \A t : Heavy(t) <=> Weight(t) * config.minP[2] >= config.minP[1] * Weight(b)
      BY <1>1, <1>4, <1>7, HeavyIs, Zenon
    <3>4. QED BY <2>1, <3>2, <3>3
  <2>4. o \in Seq(Tokens) /\ \A k \in 1..Len(o) : o[k] \in A
    <3>1. /\ Sifted(order, A) \in Seq(Tokens)
          /\ \A k \in 1..Len(Sifted(order, A)) : Sifted(order, A)[k] \in A
      BY <1>2, SiftedIs
    <3>2. QED BY <2>2, <3>1, Zenon
  <2>5. PICK P : P = {i \in DOMAIN order : order[i] \in A}
    OBVIOUS
  <2>6. o = Those(order, P)
    BY <2>2, <2>5, Zenon DEF Sifted
  <2>7. OnlyThose(o, order, P) /\ AllThose(o, order, P)
    BY <1>2, <2>6, ThoseAre, Zenon
  <2>8. Range(o) = {t \in Range(order) : Heavy(t)}
    <3>1. ASSUME NEW t \in Range(o) PROVE t \in Range(order) /\ Heavy(t)
      <4>1. PICK k \in 1..Len(o) : t = o[k]
        BY <2>4 DEF Range
      <4>2. PICK i \in DOMAIN order \cap P : o[k] = order[i]
        BY <2>7, Zenon DEF OnlyThose
      <4>3. t \in Range(order)
        BY <4>1, <4>2 DEF Range
      <4>4. t \in A
        BY <2>4, <4>1
      <4>5. QED BY <1>3, <2>3, <4>3, <4>4
    <3>2. ASSUME NEW t \in Range(order), Heavy(t) PROVE t \in Range(o)
      <4>1. PICK i \in DOMAIN order : t = order[i]
        BY DEF Range
      <4>2. i \in P
        BY <1>3, <2>3, <2>5, <3>2, <4>1
      <4>3. PICK k \in 1..Len(o) : o[k] = order[i]
        BY <2>7, <4>2, Zenon DEF AllThose
      <4>4. k \in DOMAIN o
        BY <2>4
      <4>5. QED BY <4>1, <4>3, <4>4 DEF Range
    <3>3. QED BY <3>1, <3>2
  <2>9. ASSUME NEW t \in Range(o)
        PROVE  /\ Cardinality(Larger(t)) < Limit /\ Heavy(t)
               /\ {x \in Larger(t) : Heavy(x)} \subseteq Range(o)
    BY <2>8 DEF AfterSelect
  <2>10. \E t \in Range(o) : Larger(t) = {}
    BY <1>1, <1>5, <2>8
  <2>11. QED BY <2>4, <2>9, <2>10, Zenon DEF AfterMinP
<1>8. QED BY <1>6, <1>7

\* Top-p: the larger and heavy ones come first, and do not reach top_p yet.
LEMMA TopPKeeps ==
  ASSUME RowOK, AfterMinP(order), mass \in Nat,
         NEW s \in SetToSeqs(Range(order)), Falling(s, order), NEW o, o = SubSeq(s, 1, Kept(s))
  PROVE  AfterTopP(o)
<1>1. PICK R : R = Range(order)
  OBVIOUS
<1>2. /\ R \in SUBSET Tokens /\ IsFiniteSet(R)
      /\ \A t \in R : /\ Cardinality(Larger(t)) < Limit /\ Heavy(t)
                      /\ {x \in Larger(t) : Heavy(x)} \subseteq R
  <2>1. order \in Seq(Tokens)
    BY DEF AfterMinP
  <2>2. R \in SUBSET Tokens
    BY <1>1, <2>1 DEF Range
  <2>3. IsFiniteSet(Tokens)
    BY RowIs, Zenon
  <2>4. IsFiniteSet(R)
    BY <2>2, <2>3, FS_Subset, Zenon
  <2>5. QED BY <1>1, <2>2, <2>4, Zenon DEF AfterMinP
<1>3. PICK b \in R : Larger(b) = {}
  BY <1>1, Zenon DEF AfterMinP
<1>4. PICK n : n = Cardinality(R)
  OBVIOUS
<1>5. /\ n \in Nat /\ s \in [1..n -> R] /\ s \in Seq(R) /\ Len(s) = n /\ Range(s) = R /\ DOMAIN s = 1..n
      /\ \A i, j \in 1..n : i # j => s[i] # s[j]
  BY <1>1, <1>2, <1>4, OrderingIs
<1>6. n >= 1
  <2>1. PICK i \in 1..n : s[i] = b
    BY <1>3, <1>5 DEF Range
  <2>2. QED BY <1>5, <2>1
<1>7. PICK is : is = {i \in DOMAIN s : Reaches(s, i)}
  OBVIOUS
<1>8. PICK k : k = Kept(s)
  OBVIOUS
<1>9. /\ k \in 1..n
      /\ config.topP[1] < config.topP[2] => \A i \in 1..n : i < k => ~Reaches(s, i)
  <2>1. k = IF config.topP[1] < config.topP[2] /\ is # {} THEN Min(is) ELSE n
    BY <1>5, <1>7, <1>8, Zenon DEF Kept
  <2>2. is \in SUBSET (1..n)
    BY <1>5, <1>7
  <2>3. CASE is # {}
    <3>1. PICK m \in is : \A i \in is : m <= i
      <4>1. is \in SUBSET Nat
        BY <2>2
      <4>2. QED BY <2>3, <4>1, LeastNat, Zenon
    <3>2. Min(is) \in is /\ \A i \in is : Min(is) <= i
      BY <3>1 DEF Min
    <3>3. PICK l : l = Min(is)
      OBVIOUS
    <3>4. l \in 1..n /\ \A i \in 1..n : i < l => i \notin is
      <4>1. l \in 1..n /\ \A i \in is : l <= i
        BY <2>2, <3>2, <3>3
      <4>2. ASSUME NEW i \in 1..n, i < l PROVE i \notin is
        <5>1. ~(l <= i)
          BY <4>1, <4>2
        <5>2. QED BY <4>1, <5>1
      <4>3. QED BY <4>1, <4>2
    <3>5. \A i \in 1..n : i < l => ~Reaches(s, i)
      BY <1>5, <1>7, <3>4
    <3>6. QED BY <1>5, <1>6, <2>1, <2>3, <3>3, <3>4, <3>5
  <2>4. CASE is = {}
    <3>1. \A i \in 1..n : ~Reaches(s, i)
      BY <1>5, <1>7, <2>4
    <3>2. k = n
      BY <2>1, <2>4
    <3>3. QED BY <1>5, <1>6, <3>1, <3>2
  <2>5. QED BY <2>3, <2>4
<1>10. /\ o \in Seq(R) /\ Len(o) = k /\ \A i \in 1..k : o[i] = s[i]
       /\ DOMAIN o = 1..k
  BY <1>5, <1>8, <1>9
<1>11. \A t \in R : Weight(t) \in Nat /\ logits[t] \in Int
  BY <1>2, RowIs, Zenon
<1>12. \A t, x \in R : logits[x] > logits[t] <=> Weight(x) > Weight(t)
  BY <1>2, RowIs, Zenon
<1>13. ASSUME NEW i \in 1..n, NEW j \in 1..n, i < j PROVE Weight(s[i]) >= Weight(s[j])
  <2>1. Ahead(order, s[i], s[j])
    BY <1>5, <1>13, Zenon DEF Falling
  <2>2. Weight(s[i]) > Weight(s[j]) \/ Weight(s[i]) = Weight(s[j])
    BY <2>1, Zenon DEF Ahead
  <2>3. Weight(s[i]) \in Nat /\ Weight(s[j]) \in Nat
    BY <1>5, <1>11
  <2>4. QED BY <2>2, <2>3
<1>14. ASSUME NEW j \in 1..k, config.topP[1] < config.topP[2], Larger(s[j]) # {}
       PROVE  WeightOf({x \in Larger(s[j]) : Heavy(x)}) * config.topP[2] < config.topP[1] * mass
  <2>1. PICK L : L = {x \in Larger(s[j]) : Heavy(x)}
    OBVIOUS
  <2>2. j \in 1..n /\ s[j] \in R
    BY <1>5, <1>9
  <2>3. L \in SUBSET R /\ \A x \in R : x \in L <=> Weight(x) > Weight(s[j])
    <3>1. L \in SUBSET R
      BY <1>2, <2>1, <2>2
    <3>2. ASSUME NEW x \in R PROVE x \in L <=> Weight(x) > Weight(s[j])
      <4>1. x \in Tokens /\ Heavy(x)
        BY <1>2
      <4>2. x \in L <=> logits[x] > logits[s[j]]
        BY <2>1, <4>1 DEF Larger
      <4>3. QED BY <1>12, <2>2, <4>2
    <3>3. QED BY <3>1, <3>2
  <2>4. b \in L
    <3>1. PICK x \in Larger(s[j]) : TRUE
      BY <1>14
    <3>2. x \in Tokens /\ logits[x] > logits[s[j]]
      BY DEF Larger
    <3>3. s[j] \in Tokens /\ b \in Tokens
      BY <1>2, <2>2
    <3>4. Weight(x) > Weight(s[j])
      BY <3>2, <3>3, RowIs, Zenon
    <3>5. Weight(x) <= Weight(b)
      <4>1. {b} \in SUBSET Tokens /\ b \in {b}
        BY <3>3
      <4>2. QED BY <1>3, <3>2, <4>1, BestWeight, Zenon
    <3>6. Weight(x) \in Nat
      BY <3>2, RowIs, Zenon
    <3>7. Weight(b) > Weight(s[j])
      <4>1. Weight(b) \in Nat /\ Weight(s[j]) \in Nat
        BY <1>11, <2>2
      <4>2. QED BY <3>4, <3>5, <3>6, <4>1
    <3>8. QED BY <2>3, <3>7
  <2>5. PICK out : out = {i \in 1..n : s[i] \notin L}
    OBVIOUS
  <2>6. j \in out
    <3>1. ~(Weight(s[j]) > Weight(s[j]))
      BY <1>11, <2>2
    <3>2. QED BY <2>2, <2>3, <2>5, <3>1
  <2>7. PICK f \in out : \A i \in out : f <= i
    <3>1. out \in SUBSET Nat /\ out # {}
      BY <1>5, <2>5, <2>6
    <3>2. QED BY <3>1, LeastNat, Zenon
  <2>8. f \in 1..n /\ s[f] \notin L /\ f <= j /\ f <= k
    BY <1>9, <2>2, <2>5, <2>6, <2>7
  <2>9. \A i \in 1..n : i < f => s[i] \in L
    <3>1. SUFFICES ASSUME NEW i \in 1..n, i < f PROVE s[i] \in L
      OBVIOUS
    <3>2. ~(f <= i)
      BY <2>8, <3>1
    <3>3. QED BY <2>5, <2>7, <3>2
  <2>10. \A i \in 1..n : f <= i => s[i] \notin L
    <3>1. SUFFICES ASSUME NEW i \in 1..n, f <= i PROVE s[i] \notin L
      OBVIOUS
    <3>2. s[i] \in R /\ s[f] \in R /\ Weight(s[i]) \in Nat /\ Weight(s[f]) \in Nat /\ Weight(s[j]) \in Nat
      BY <1>5, <1>11, <2>2, <2>8
    <3>3. ~(Weight(s[f]) > Weight(s[j]))
      BY <2>3, <2>8, <3>2
    <3>4. Weight(s[f]) >= Weight(s[i])
      <4>1. CASE f < i
        BY <1>13, <2>8, <4>1
      <4>2. CASE f = i
        BY <3>2, <4>2
      <4>3. QED BY <2>8, <3>1, <4>1, <4>2
    <3>5. ~(Weight(s[i]) > Weight(s[j]))
      BY <3>2, <3>3, <3>4
    <3>6. QED BY <2>3, <3>2, <3>5
  <2>11. f # 1
    <3>1. PICK i \in 1..n : s[i] = b
      BY <1>3, <1>5 DEF Range
    <3>2. ~(f <= i)
      BY <2>4, <2>10, <3>1
    <3>3. QED BY <2>8, <3>1, <3>2
  <2>12. PICK m : m = f - 1
    OBVIOUS
  <2>13. m \in 1..n /\ m < k /\ m \in 0..n
    BY <1>5, <1>9, <2>8, <2>11, <2>12
  <2>14. L = {s[i] : i \in 1..m}
    <3>1. ASSUME NEW x \in L PROVE x \in {s[i] : i \in 1..m}
      <4>1. PICK i \in 1..n : s[i] = x
        BY <1>5, <2>3 DEF Range
      <4>2. ~(f <= i)
        BY <2>10, <4>1
      <4>3. f \in 1..n /\ n \in Nat
        BY <1>5, <2>8
      <4>4. i \in 1..m
        BY <2>12, <4>2, <4>3
      <4>5. QED BY <4>1, <4>4
    <3>2. ASSUME NEW i \in 1..m PROVE s[i] \in L
      <4>1. i \in 1..n /\ i < f
        <5>1. f \in 1..n /\ n \in Nat
          BY <1>5, <2>8
        <5>2. QED BY <2>12, <5>1
      <4>2. QED BY <2>9, <4>1
    <3>3. QED BY <3>1, <3>2
  <2>15. Running(s)[m] = WeightOf(L)
    <3>1. s \in [1..n -> Tokens]
      BY <1>2, <1>5
    <3>2. \A i \in 0..n : Running(s)[i] = WeightOf({s[h] : h \in 1..i})
      BY <1>5, <3>1, RunningIs, Zenon
    <3>3. QED BY <2>13, <2>14, <3>2
  <2>16. ~Reaches(s, m)
    BY <1>9, <1>14, <2>13
  <2>17. PICK w : w = WeightOf(L)
    OBVIOUS
  <2>18. ~(w * config.topP[2] >= config.topP[1] * mass)
    BY <2>15, <2>16, <2>17, Zenon DEF Reaches
  <2>19. w \in Nat
    <3>1. L \in SUBSET Tokens
      BY <1>2, <2>3
    <3>2. QED BY <2>17, <3>1, WeightOfMore, Zenon
  <2>20. PICK p \in Int, q \in Int : p = config.topP[1] /\ q = config.topP[2]
    BY RowIs
  <2>21. w * q < p * mass
    <3>1. w * q \in Int /\ p * mass \in Int /\ ~(w * q >= p * mass)
      BY <2>18, <2>19, <2>20
    <3>2. QED BY <3>1
  <2>22. QED BY <2>1, <2>17, <2>20, <2>21
<1>15. \A t \in Range(o) : Allowed(t)
  <2>1. SUFFICES ASSUME NEW t \in Range(o) PROVE Allowed(t)
    OBVIOUS
  <2>2. PICK j \in 1..k : t = s[j]
    BY <1>10 DEF Range
  <2>3. t \in R
    BY <1>5, <1>9, <2>2
  <2>4. Cardinality(Larger(t)) < Limit /\ Heavy(t)
    BY <1>2, <2>3
  <2>5. config.topP[1] < config.topP[2] /\ Larger(t) # {} =>
          WeightOf({x \in Larger(t) : Heavy(x)}) * config.topP[2] < config.topP[1] * mass
    BY <1>14, <2>2
  <2>6. QED BY <2>4, <2>5, Zenon DEF Allowed
<1>16. \E t \in Range(o) : Larger(t) = {}
  <2>1. 1 \in 1..k /\ 1 \in 1..n
    BY <1>6, <1>9
  <2>2. PICK i \in 1..n : s[i] = b
    BY <1>3, <1>5 DEF Range
  <2>3. s[1] \in R /\ s[1] \in Tokens /\ b \in Tokens
    BY <1>2, <1>5, <2>1
  <2>4. Weight(s[1]) >= Weight(b)
    <3>1. CASE i = 1
      BY <1>11, <2>2, <3>1
    <3>2. CASE i # 1
      <4>1. 1 < i
        BY <2>2, <3>2
      <4>2. Weight(s[1]) >= Weight(s[i])
        BY <1>13, <2>1, <2>2, <4>1
      <4>3. QED BY <2>2, <4>2
    <3>3. QED BY <3>1, <3>2
  <2>5. ASSUME NEW x \in Larger(s[1]) PROVE FALSE
    <3>1. x \in Tokens /\ logits[x] > logits[s[1]]
      BY DEF Larger
    <3>2. Weight(x) > Weight(s[1])
      BY <2>3, <3>1, RowIs, Zenon
    <3>3. Weight(x) \in Nat /\ Weight(b) \in Nat /\ Weight(s[1]) \in Nat
      BY <2>3, <3>1, RowIs, Zenon
    <3>4. Weight(x) > Weight(b)
      BY <2>4, <3>2, <3>3
    <3>5. logits[x] > logits[b]
      BY <2>3, <3>1, <3>4, RowIs, Zenon
    <3>6. x \in Larger(b)
      BY <3>1, <3>5 DEF Larger
    <3>7. QED BY <1>3, <3>6
  <2>6. s[1] \in Range(o)
    BY <1>10, <2>1 DEF Range
  <2>7. QED BY <2>5, <2>6
<1>17. o \in Seq(Tokens)
  BY <1>2, <1>10
<1>18. QED BY <1>15, <1>16, <1>17, Zenon DEF AfterTopP

\* The one drawn is a candidate.
LEMMA DrawsOne ==
  ASSUME RowOK, AfterTopP(order), NEW u
  PROVE  Chosen(order, u) \in Range(order)
<1>1. PICK is : is = {i \in DOMAIN order : Running(order)[i] * Draws >= u * SumOver(order)}
  OBVIOUS
<1>2. Chosen(order, u) = IF is = {} THEN Last(order) ELSE order[Min(is)]
  BY <1>1, Zenon DEF Chosen
<1>3. order \in Seq(Tokens) /\ Range(order) # {}
  BY DEF AfterTopP
<1>4. Len(order) \in Nat /\ DOMAIN order = 1..Len(order) /\ Len(order) \in DOMAIN order
  <2>1. Len(order) \in Nat /\ DOMAIN order = 1..Len(order)
    BY <1>3
  <2>2. PICK i \in DOMAIN order : TRUE
    BY <1>3 DEF Range
  <2>3. QED BY <2>1, <2>2
<1>5. CASE is = {}
  BY <1>2, <1>4, <1>5 DEF Last, Range
<1>6. CASE is # {}
  <2>1. is \in SUBSET Nat /\ is \in SUBSET (DOMAIN order)
    BY <1>1, <1>4
  <2>2. PICK m \in is : \A i \in is : m <= i
    BY <1>6, <2>1, LeastNat, Zenon
  <2>3. Min(is) \in is
    BY <2>2 DEF Min
  <2>4. QED BY <1>2, <1>6, <2>1, <2>3 DEF Range
<1>7. QED BY <1>5, <1>6

\* The greedy choice is a largest one.
LEMMA GreedyPicks ==
  ASSUME RowOK
  PROVE  Larger(Min({t \in Tokens : \A o \in Tokens : logits[o] <= logits[t]})) = {}
<1>1. PICK T : T = {t \in Tokens : \A o \in Tokens : logits[o] <= logits[t]}
  OBVIOUS
<1>2. \A t \in Tokens : logits[t] \in Int
  BY RowIs, Zenon
<1>3. T # {} /\ T \in SUBSET Nat
  <2>1. PICK b \in Tokens : Larger(b) = {}
    BY BestExists, Zenon
  <2>2. \A o \in Tokens : logits[o] <= logits[b]
    <3>1. TAKE o \in Tokens
    <3>2. ~(logits[o] > logits[b])
      BY <2>1 DEF Larger
    <3>3. logits[o] \in Int /\ logits[b] \in Int
      BY <1>2
    <3>4. QED BY <3>2, <3>3
  <2>3. Tokens = 1..Len(logits)
    BY RowIs, Zenon
  <2>4. QED BY <1>1, <2>2, <2>3
<1>4. PICK m \in T : \A t \in T : m <= t
  BY <1>3, LeastNat, Zenon
<1>5. Min(T) \in T
  BY <1>4 DEF Min
<1>6. ASSUME NEW o \in Larger(Min(T)) PROVE FALSE
  <2>1. o \in Tokens /\ logits[o] > logits[Min(T)] /\ logits[o] <= logits[Min(T)]
    BY <1>1, <1>5 DEF Larger
  <2>2. logits[o] \in Int /\ logits[Min(T)] \in Int
    BY <1>1, <1>2, <1>5, <2>1
  <2>3. QED BY <2>1, <2>2
<1>7. QED BY <1>1, <1>6

-----------------------------------------------------------------------------
\* What the candidates are compared with does not change during a choice.
LEMMA SameRow ==
  ASSUME logits' = logits, config' = config, mass' = mass
  PROVE  /\ RowOK' <=> RowOK
         /\ \A t : Larger(t)' = Larger(t) /\ (Heavy(t)' <=> Heavy(t)) /\ (Allowed(t)' <=> Allowed(t))
         /\ Tokens' = Tokens /\ Limit' = Limit
<1>1. QED BY DEF RowOK, Larger, Heavy, Allowed, Tokens, Limit, Weight, WeightOf

LEMMA SmInvStays ==
  ASSUME SmInv, [SmNext]_smVars
  PROVE  SmInv'
<1>1. RowOK
  BY DEF SmInv
<1>2. CASE Greedy
  <2>1. /\ smAt' = "done" /\ logits' = logits /\ config' = config /\ mass' = mass
        /\ config.greedy
        /\ pick' = Min({t \in Tokens : \A o \in Tokens : logits[o] <= logits[t]})
    BY <1>2 DEF Greedy
  <2>2. RowOK' /\ \A t : Larger(t)' = Larger(t)
    BY <1>1, <2>1, SameRow
  <2>3. Larger(pick') = {}
    BY <1>1, <2>1, GreedyPicks, Zenon
  <2>4. PicksWhatIsAllowed'
    <3>1. PICK p : p = pick'
      OBVIOUS
    <3>2. Larger(p)' = {}
      BY <2>2, <2>3, <3>1
    <3>3. QED BY <2>1, <3>1, <3>2 DEF PicksWhatIsAllowed
  <2>5. QED BY <2>1, <2>2, <2>4 DEF SmInv
<1>3. CASE Select
  <2>1. /\ smAt = "select" /\ smAt' = "minp" /\ logits' = logits /\ config' = config /\ pick' = pick
        /\ ~config.greedy
    BY <1>3 DEF Select
  <2>2. PICK S \in kSubset(Limit, Tokens) :
          order' \in SetToSeqs(S) /\ Largest(order') /\ mass' = SumOver(order')
    BY <1>3, Zenon DEF Select
  <2>3. PICK o : o = order'
    OBVIOUS
  <2>4. AfterSelect(o) /\ SumOver(o) \in Nat
    BY <1>1, <2>2, <2>3, SelectKeeps, Zenon
  <2>5. /\ RowOK' <=> RowOK
        /\ Tokens' = Tokens /\ Limit' = Limit
        /\ \A t : Larger(t)' = Larger(t)
    BY <2>1 DEF RowOK, Tokens, Limit, Larger
  <2>6. AfterSelect(order)'
    BY <2>3, <2>4, <2>5, Zenon DEF AfterSelect
  <2>7. mass' \in Nat /\ pick' = 0
    <3>1. pick = 0
      BY <2>1 DEF SmInv
    <3>2. QED BY <2>1, <2>2, <2>3, <2>4, <3>1
  <2>8. QED BY <1>1, <2>1, <2>5, <2>6, <2>7 DEF SmInv
<1>4. CASE MinP
  <2>1. /\ smAt = "minp" /\ smAt' = "topp" /\ logits' = logits /\ config' = config /\ mass' = mass
        /\ pick' = pick
    BY <1>4 DEF MinP
  <2>2. AfterSelect(order) /\ ~config.greedy /\ mass \in Nat /\ pick = 0
    BY <2>1 DEF SmInv
  <2>3. PICK o : o = order'
    OBVIOUS
  <2>4. AfterMinP(o)
    <3>1. o = IF 0 < config.minP[1] /\ config.minP[1] < config.minP[2]
              THEN Sifted(order, {t \in Tokens : MinPCut(t)}) ELSE order
      BY <1>4, <2>3, Zenon DEF MinP
    <3>2. QED BY <1>1, <2>2, <3>1, MinPKeeps, Zenon
  <2>5. /\ RowOK' <=> RowOK
        /\ Tokens' = Tokens /\ Limit' = Limit
        /\ \A t : Larger(t)' = Larger(t) /\ (Heavy(t)' <=> Heavy(t))
    BY <2>1, SameRow, Zenon
  <2>6. AfterMinP(order)'
    BY <2>3, <2>4, <2>5, Zenon DEF AfterMinP
  <2>7. QED BY <1>1, <2>1, <2>2, <2>5, <2>6 DEF SmInv
<1>5. CASE TopP
  <2>1. /\ smAt = "topp" /\ smAt' = "draw" /\ logits' = logits /\ config' = config /\ mass' = mass
        /\ pick' = pick
    BY <1>5 DEF TopP
  <2>2. AfterMinP(order) /\ ~config.greedy /\ mass \in Nat /\ pick = 0
    BY <2>1 DEF SmInv
  <2>3. PICK o : o = order'
    OBVIOUS
  <2>4. AfterTopP(o)
    <3>1. PICK s \in SetToSeqs(Range(order)) : Falling(s, order) /\ o = SubSeq(s, 1, Kept(s))
      BY <1>5, <2>3, Zenon DEF TopP
    <3>2. QED BY <1>1, <2>2, <3>1, TopPKeeps, Zenon
  <2>5. /\ RowOK' <=> RowOK
        /\ Tokens' = Tokens /\ \A t : Larger(t)' = Larger(t) /\ (Allowed(t)' <=> Allowed(t))
    BY <2>1, SameRow, Zenon
  <2>6. AfterTopP(order)'
    BY <2>3, <2>4, <2>5, Zenon DEF AfterTopP
  <2>7. QED BY <1>1, <2>1, <2>2, <2>5, <2>6 DEF SmInv
<1>6. CASE DrawOne
  <2>1. /\ smAt = "draw" /\ smAt' = "done" /\ logits' = logits /\ config' = config /\ mass' = mass
    BY <1>6 DEF DrawOne
  <2>2. AfterTopP(order) /\ ~config.greedy
    BY <2>1 DEF SmInv
  <2>3. PICK p : p = pick'
    OBVIOUS
  <2>4. p \in Range(order)
    <3>1. PICK u : p = Chosen(order, u)
      BY <1>6, <2>3, Zenon DEF DrawOne
    <3>2. QED BY <1>1, <2>2, <3>1, DrawsOne, Zenon
  <2>5. Allowed(p)
    BY <2>2, <2>4, Zenon DEF AfterTopP
  <2>6. (RowOK' <=> RowOK) /\ (Allowed(p)' <=> Allowed(p))
    BY <2>1, SameRow, Zenon
  <2>7. PicksWhatIsAllowed'
    BY <2>1, <2>2, <2>3, <2>5, <2>6, Zenon DEF PicksWhatIsAllowed
  <2>8. QED BY <1>1, <2>1, <2>6, <2>7 DEF SmInv
<1>7. CASE UNCHANGED smVars
  <2>1. /\ smAt' = smAt /\ logits' = logits /\ config' = config /\ mass' = mass /\ pick' = pick
        /\ order' = order
    BY <1>7 DEF smVars
  <2>2. /\ RowOK' <=> RowOK
        /\ Tokens' = Tokens /\ Limit' = Limit
        /\ \A t : Larger(t)' = Larger(t) /\ (Heavy(t)' <=> Heavy(t)) /\ (Allowed(t)' <=> Allowed(t))
    BY <2>1, SameRow, Zenon
  <2>3. AfterSelect(order) => AfterSelect(order)'
    BY <2>1, <2>2, Zenon DEF AfterSelect
  <2>4. AfterMinP(order) => AfterMinP(order)'
    BY <2>1, <2>2, Zenon DEF AfterMinP
  <2>5. AfterTopP(order) => AfterTopP(order)'
    BY <2>1, <2>2, Zenon DEF AfterTopP
  <2>6. PicksWhatIsAllowed => PicksWhatIsAllowed'
    BY <2>1, <2>2, Zenon DEF PicksWhatIsAllowed
  <2>7. QED BY <2>1, <2>2, <2>3, <2>4, <2>5, <2>6 DEF SmInv
<1>8. QED BY <1>2, <1>3, <1>4, <1>5, <1>6, <1>7 DEF SmNext

\* sampler.rs, for every row of logits and all settings: a largest token stays a
\* candidate through top-k, min-p and top-p, so that there is always one to draw, and
\* the one drawn passes every cut; without a temperature it is a largest one.
THEOREM DrawsWhatIsAllowed == SmSpec => []DrawIsAllowed
<1>1. SmInit => SmInv
  <2>1. SUFFICES ASSUME SmInit PROVE SmInv
    OBVIOUS
  <2>2. QED BY <2>1 DEF SmInit, SmInv, RowOK
<1>2. SmInv /\ [SmNext]_smVars => SmInv'
  BY SmInvStays
<1>3. SmInv => DrawIsAllowed
  <2>1. SUFFICES ASSUME SmInv PROVE DrawIsAllowed
    OBVIOUS
  <2>2. BestStaysACandidate
    BY <2>1 DEF SmInv, AfterSelect, AfterMinP, AfterTopP, BestStaysACandidate
  <2>3. PicksWhatIsAllowed
    BY <2>1 DEF SmInv, PicksWhatIsAllowed
  <2>4. QED BY <2>2, <2>3 DEF DrawIsAllowed
<1>4. QED BY <1>1, <1>2, <1>3, PTL DEF SmSpec
=============================================================================
