---------------------------- MODULE Device_proof ----------------------------
(***************************************************************************)
(* Proofs about the device: the sequence GDev records, and what a workgroup *)
(* of its kernels computes.                                                *)
(*                                                                         *)
(* First DeviceSequence, for any number of layers, any interval of full    *)
(* attention, any kernel, any context, any batch widths and any pool of    *)
(* descriptor sets.  Then Workgroup.                                       *)
(*                                                                         *)
(* What a workgroup writes is computed from its whole row: ReducesTheRow   *)
(* for every kernel but the two softmaxes, whatever the number of lanes (a *)
(* power of two), the length of the row and the number of columns.         *)
(*                                                                         *)
(* The argument.  A lane writes to its own place of the shared array only. *)
(* What stands there is a function of the lane's own position: behind the  *)
(* fold with stride s it covers the elements i with i % s = lane.  So the  *)
(* question is what the other half of a fold holds, and that is a question *)
(* of how far apart lanes can be.  Call stretch what lies between two      *)
(* barriers.  Lanes that passed as many barriers are in one stretch; one   *)
(* that passed one more is in the stretch that follows, and the one it     *)
(* left behind waits (Agree).  A lane that folds waits at no barrier, so   *)
(* nobody is ahead of it; who is behind has folded with twice the stride.  *)
(***************************************************************************)
EXTENDS DeviceSequence, Workgroup, SequenceTheorems, TLAPS

\* The sequence under way: what the caches held and what the call appends.
whole == fed \o call.toks

\* What layer l holds of the first n tokens of the sequence.
RowsHeld(l, n) ==
  \A st \in Used, p \in 0..(n - 1) : cache[l][st][p] = Row(InputAt(l, whole, p + 1), p)
WindowInput(l, s, j, i) ==
  IF j + i > NPrev + 1 THEN InputAt(l, s, j + i - NPrev - 1) ELSE Zero
WindowIs(l, w, s, j) == \A i \in 1..(NPrev + 1) : w[i] = WindowInput(l, s, j, i)
NetHeld(l, n) ==
  /\ \A i \in 1..NPrev : conv[l][i] = WindowInput(l, whole, n + 1, i)
  /\ Len(state[l]) = n
  /\ \A j \in 1..n : WindowIs(l, state[l][j], whole, j)
AllHeld(n) ==
  /\ \A m \in AttnLayers : RowsHeld(m, n)
  /\ \A m \in SsmLayers : NetHeld(m, n)

\* The device between two commands: layers below l have seen the whole window,
\* layer l its first c columns (and its caches the row of the next one, if it is
\* stored), the layers above none of it.
Count(m, l, n) == IF m < l THEN base + Width ELSE IF m = l THEN base + n ELSE base
StandsAt(l, c, stored) ==
  /\ \A m \in AttnLayers : RowsHeld(m, Count(m, l, IF stored THEN c + 1 ELSE c))
  /\ \A m \in SsmLayers : NetHeld(m, Count(m, l, c))
  /\ \A k \in 0..(Width - 1) : act[k] = InputAt(IF k < c THEN l + 1 ELSE l, whole, base + k + 1)
AtCommand(d) ==
  IF d.op = "norm" THEN StandsAt(NLayers, 0, FALSE) ELSE StandsAt(d.layer, d.col, d.op = "attend")

Sound(d) ==
  \/ d = [op |-> "norm"]
  \/ \E l \in AttnLayers, c \in 0..(Width - 1) : d \in {Command("store", l, c), Command("attend", l, c)}
  \/ \E l \in SsmLayers, c \in 0..(Width - 1) : d = Command("recur", l, c)

\* Of a token's recording, the layers below il.
RecordedSoFar ==
  IF call.batch \/ il = 0 THEN cmds = <<>>
  ELSE /\ cmds # <<>> /\ cmds[1] = Commands(0)[1]
       /\ cmds[Len(cmds)].op \in {"attend", "recur"} /\ cmds[Len(cmds)].layer = il - 1
       /\ \A i \in 1..(Len(cmds) - 1) : cmds[i].op # "norm" /\ cmds[i + 1] = Follower(cmds[i])

CallSound ==
  IF pc = "idle" THEN call = NoCall /\ base = 0
  ELSE /\ call.batch \in BOOLEAN /\ call.toks \in Seq(Token) /\ call.width \in Nat \ {0}
       /\ call.batch => mode = "f32" /\ fed = <<>> /\ base < Len(call.toks)
       /\ ~call.batch => base = Len(fed) /\ Len(call.toks) = 1
       /\ Len(fed) + Len(call.toks) <= NCtx

HostSound ==
  /\ pc \in {"record", "submit", "wait"} => \A i \in 1..Len(cmds) : Sound(cmds[i])
  /\ pc = "record" => RecordedSoFar
  /\ pc \in {"submit", "wait"} => IF call.batch THEN cmds = Commands(il) ELSE WholeToken /\ il = NLayers
  /\ pc = "zero" => il < NLayers /\ base = 0 /\ fed = <<>>
  /\ pc = "begin" /\ ~call.batch => il = 0
  /\ pc = "read" => il = NLayers
  /\ pc # "wait" => done = 0

DeviceRight ==
  /\ pc = "idle" => AllHeld(Len(fed)) \/ fed = <<>>
  /\ pc = "zero" => \A m \in SsmLayers : m < il => NetHeld(m, 0)
  /\ pc = "upload" => AllHeld(base)
  /\ pc \in {"begin", "record", "submit"} => StandsAt(IF call.batch THEN il ELSE 0, 0, FALSE)
  /\ pc = "wait" =>
       IF done < Len(cmds) THEN AtCommand(cmds[done + 1])
       ELSE IF il < NLayers THEN StandsAt(il + 1, 0, FALSE) ELSE StandsAt(NLayers, 0, FALSE)
  /\ pc = "read" => StandsAt(NLayers, 0, FALSE)

AnyCommand ==
  {[op |-> "norm"]} \cup
  [op : {"store", "attend", "recur"}, layer : Layers, pos : Nat, col : Nat]
Typed ==
  /\ TypeOK
  /\ cmds \in Seq(AnyCommand)
  /\ state \in [SsmLayers -> Seq(Windows)]

\* The inductive invariant: the recording is that of the call under way, and the
\* caches and the activations are those of a token loop that stands where the
\* device does.
IInv == Typed /\ CallSound /\ HostSound /\ DeviceRight /\ EqualsTokenLoop

-----------------------------------------------------------------------------
\* A function on 1..n is a sequence of length n.
LEMMA FunIsSeq ==
  ASSUME NEW S, NEW n \in Nat, NEW f \in [1..n -> S]
  PROVE  f \in Seq(S) /\ Len(f) = n
<1>1. f \in Seq(S)
  BY SeqDef
<1>2. DOMAIN f = 1..Len(f) /\ Len(f) \in Nat
  BY <1>1, LenProperties
<1>3. 1..n = 1..Len(f)
  BY <1>2
<1>4. QED BY <1>1, <1>2, <1>3

\* Tokens that fit the context are a digest.
LEMMA TokensAreDigests ==
  ASSUME NEW s \in Seq(Token), Len(s) <= NCtx
  PROVE  s \in Digests
<1>1. Len(s) \in 0..NCtx
  BY LenProperties, DeviceAssumption
<1>2. s \in [1..Len(s) -> Token \cup {Bad}]
  BY LenProperties
<1>3. QED BY <1>1, <1>2 DEF Digests

\* The first n tokens of a sequence.
LEMMA PrefixFacts ==
  ASSUME NEW s \in Seq(Token), NEW n \in 0..Len(s)
  PROVE  /\ SubSeq(s, 1, n) \in Seq(Token)
         /\ Len(SubSeq(s, 1, n)) = n
         /\ \A i \in 1..n : SubSeq(s, 1, n)[i] = s[i]
<1>1. Len(s) \in Nat /\ \A i \in 1..n : s[i] \in Token
  BY LenProperties, ElementOfSeq
<1>2. QED BY <1>1, SubSeqProperties

\* The input of a layer is a prefix that ends in the token itself.
LEMMA InputFacts ==
  ASSUME NEW l, NEW s \in Seq(Token), Len(s) <= NCtx, NEW j \in 1..Len(s)
  PROVE  /\ InputAt(l, s, j) \in Digests
         /\ InputAt(l, s, j) \in Seq(Token)
         /\ End(InputAt(l, s, j)) = s[j]
<1>1. Len(s) \in Nat /\ s[j] \in Token /\ NCtx \in Nat \ {0}
  BY LenProperties, ElementOfSeq, DeviceAssumption
<1>2. CASE l = 0
  <2>1. <<s[j]>> \in Seq(Token) /\ Len(<<s[j]>>) = 1 /\ <<s[j]>>[1] = s[j]
    BY <1>1
  <2>2. Len(<<s[j]>>) <= NCtx
    BY <1>1, <2>1
  <2>3. <<s[j]>> \in Digests
    BY ONLY <2>1, <2>2, TokensAreDigests
  <2>4. QED BY <1>2, <2>1, <2>3 DEF InputAt, End
<1>3. CASE l # 0
  <2>1. j \in 0..Len(s) /\ j \in 1..j /\ j <= NCtx
    BY <1>1
  <2>2. /\ SubSeq(s, 1, j) \in Seq(Token) /\ Len(SubSeq(s, 1, j)) = j
        /\ SubSeq(s, 1, j)[j] = s[j]
    BY <2>1, PrefixFacts
  <2>3. SubSeq(s, 1, j) \in Digests
    BY <2>1, <2>2, TokensAreDigests
  <2>4. QED BY <1>3, <2>2, <2>3 DEF InputAt, End
<1>4. QED BY <1>2, <1>3

\* Two sequences that agree on their first n tokens give every layer the same
\* inputs for them.
LEMMA InputStays ==
  ASSUME NEW l, NEW s \in Seq(Token), NEW e \in Seq(Token),
         NEW n \in Nat, n <= Len(s), n <= Len(e),
         \A i \in 1..n : e[i] = s[i],
         NEW j \in 1..n
  PROVE  InputAt(l, e, j) = InputAt(l, s, j)
<1>1. Len(s) \in Nat /\ Len(e) \in Nat /\ j \in 0..Len(s) /\ j \in 0..Len(e)
  BY LenProperties
<1>2. /\ SubSeq(s, 1, j) \in Seq(Token) /\ SubSeq(e, 1, j) \in Seq(Token)
      /\ Len(SubSeq(s, 1, j)) = j /\ Len(SubSeq(e, 1, j)) = j
      /\ \A i \in 1..j : SubSeq(s, 1, j)[i] = s[i] /\ SubSeq(e, 1, j)[i] = e[i]
  BY <1>1, PrefixFacts
<1>3. \A i \in 1..j : SubSeq(e, 1, j)[i] = SubSeq(s, 1, j)[i]
  BY <1>2
<1>4. SubSeq(e, 1, j) = SubSeq(s, 1, j)
  BY <1>2, <1>3, SeqEqual
<1>5. QED BY <1>4 DEF InputAt

\* A layer that has seen the right inputs computes the right output.
LEMMA MixRight ==
  ASSUME NEW l, NEW s \in Seq(Token), Len(s) <= NCtx, NEW n \in 0..Len(s), NEW ins,
         ins = [j \in 1..n |-> InputAt(l, s, j)]
  PROVE  Mix(l, ins) = SubSeq(s, 1, n)
<1> DEFINE p == SubSeq(s, 1, n)
<1>1. Len(s) \in Nat /\ n \in Nat /\ n <= Len(s)
  BY LenProperties
<1>2. p \in Seq(Token) /\ Len(p) = n /\ \A i \in 1..n : p[i] = s[i]
  BY PrefixFacts
<1>3. p = [j \in 1..n |-> p[j]]
  BY <1>2, LenProperties
<1> HIDE DEF p
<1>4. \A j \in 1..n : InputAt(l, p, j) = InputAt(l, s, j)
  BY <1>1, <1>2, InputStays
<1>5. \A j \in 1..n : j \in 1..Len(s)
  BY <1>1
<1>6. \A j \in 1..n : InputAt(l, s, j) \in Digests /\ End(InputAt(l, s, j)) = s[j]
  BY <1>5, InputFacts
<1>7. Len(ins) = n
  <2>1. ins \in [1..n -> Digests]
    BY <1>6
  <2>2. QED BY <1>1, <2>1, FunIsSeq
<1>8. \A j \in 1..n : ins[j] = InputAt(l, p, j) /\ End(ins[j]) = p[j]
  BY <1>2, <1>4, <1>6
<1>9. [j \in 1..Len(ins) |-> End(ins[j])] = p
  BY <1>3, <1>7, <1>8
<1>10. Mix(l, ins) = p
  BY <1>7, <1>8, <1>9 DEF Mix
<1>11. QED BY <1>10 DEF p

\* A window of digests is a sequence of its length.
LEMMA WindowFacts ==
  ASSUME NEW w \in Windows
  PROVE  w \in Seq(Digests) /\ Len(w) = NPrev + 1 /\ NPrev \in Nat \ {0}
BY FunIsSeq, ShapeAssumption DEF Windows

\* The windows of a sequence end in its inputs and are what WindowAt makes of them.
LEMMA WindowRight ==
  ASSUME NEW l, NEW s \in Seq(Token), Len(s) <= NCtx, NEW n \in 1..Len(s), NEW ins,
         ins = [j \in 1..n |-> InputAt(l, s, j)],
         NEW j \in 1..n, NEW w \in Windows, WindowIs(l, w, s, j)
  PROVE  End(w) = ins[j] /\ w = WindowAt(ins, j)
<1>1. Len(s) \in Nat /\ n \in Nat /\ j \in Nat /\ n <= Len(s) /\ NPrev \in Nat \ {0}
  BY LenProperties, ShapeAssumption
<1>2. ASSUME NEW i \in 1..(NPrev + 1)
      PROVE  w[i] = IF j + i > NPrev + 1 THEN ins[j + i - NPrev - 1] ELSE Zero
  <2>1. w[i] = WindowInput(l, s, j, i)
    BY DEF WindowIs
  <2>2. CASE j + i > NPrev + 1
    <3>1. j + i - NPrev - 1 \in 1..n
      BY <1>1, <2>2
    <3>2. ins[j + i - NPrev - 1] = InputAt(l, s, j + i - NPrev - 1)
      BY <3>1
    <3>3. QED BY <2>1, <2>2, <3>2 DEF WindowInput
  <2>3. CASE ~(j + i > NPrev + 1)
    BY <2>1, <2>3 DEF WindowInput
  <2>4. QED BY <2>2, <2>3
<1>3. End(w) = ins[j]
  <2>1. /\ NPrev + 1 \in 1..(NPrev + 1) /\ j + (NPrev + 1) > NPrev + 1
        /\ j + (NPrev + 1) - NPrev - 1 = j
    BY <1>1
  <2>2. w[NPrev + 1] = ins[j]
    BY <1>2, <2>1
  <2>3. QED BY <2>2, WindowFacts DEF End
<1>4. w = [i \in 1..(NPrev + 1) |-> w[i]]
  BY DEF Windows
<1>5. w = WindowAt(ins, j)
  BY <1>2, <1>4 DEF WindowAt
<1>6. QED BY <1>3, <1>5

\* The delta net over the windows of the first n tokens.
LEMMA FoldRight ==
  ASSUME NEW l, NEW s \in Seq(Token), Len(s) <= NCtx, NEW n \in 1..Len(s),
         NEW ws \in Seq(Windows), Len(ws) = n,
         \A j \in 1..n : WindowIs(l, ws[j], s, j)
  PROVE  Folded(l, ws) = SubSeq(s, 1, n)
<1> DEFINE ins == [j \in 1..n |-> InputAt(l, s, j)]
<1>1. Len(s) \in Nat /\ n \in Nat /\ n \in 0..Len(s) /\ 1..n \subseteq 1..Len(s)
  BY LenProperties
<1>2. \A j \in 1..n : ws[j] \in Windows
  BY ElementOfSeq
<1>3. \A j \in 1..n : End(ws[j]) = ins[j] /\ ws[j] = WindowAt(ins, j)
  <2> HIDE DEF ins
  <2>1. ins = [j \in 1..n |-> InputAt(l, s, j)]
    BY DEF ins
  <2>2. QED BY <1>2, <2>1, WindowRight
<1>4. [j \in 1..Len(ws) |-> End(ws[j])] = ins
  BY <1>3
<1>5. Len(ins) = n
  <2>1. ins \in [1..n -> Digests]
    BY <1>1, InputFacts
  <2>2. QED BY <1>1, <2>1, FunIsSeq
<1>6. Mix(l, ins) = SubSeq(s, 1, n)
  BY <1>1, MixRight
<1> HIDE DEF ins
<1>7. QED BY <1>3, <1>4, <1>5, <1>6 DEF Folded

-----------------------------------------------------------------------------
LEMMA LayerFacts ==
  /\ AttnLayers \subseteq Layers /\ SsmLayers \subseteq Layers
  /\ AttnLayers \cap SsmLayers = {}
  /\ Layers \subseteq Nat /\ NLayers \in Nat \ {0} /\ NLayers \notin Layers
  /\ \A l \in Nat : l < NLayers => l \in Layers
  /\ \A l \in Layers : l < NLayers /\ l + 1 \in 0..NLayers
  /\ \A l \in Layers : IF IsFullAttention(l) THEN l \in AttnLayers ELSE l \in SsmLayers
  /\ \A l \in AttnLayers : IsFullAttention(l)
  /\ \A l \in SsmLayers : ~IsFullAttention(l)
BY ShapeAssumption DEF AttnLayers, SsmLayers, Layers

\* The sequence under way fits the context, and the columns fit the sequence.
LEMMA CallFacts ==
  ASSUME TypeOK, CallSound
  PROVE  /\ whole \in Seq(Token) /\ Len(whole) \in Nat /\ Len(whole) <= NCtx
         /\ Len(whole) = Len(fed) + Len(call.toks)
         /\ \A i \in 1..Len(fed) : whole[i] = fed[i]
         /\ \A i \in 1..Len(call.toks) : whole[Len(fed) + i] = call.toks[i]
         /\ base \in Nat /\ Len(fed) \in Nat /\ Len(call.toks) \in Nat
         /\ pc = "idle" => whole = fed
         /\ pc # "idle" => Width \in Nat \ {0} /\ base + Width <= Len(whole)
         /\ pc # "idle" /\ ~call.batch => Width = 1
<1>1. /\ fed \in Seq(Token) /\ Len(fed) \in Nat /\ Len(fed) <= NCtx
      /\ base \in Nat /\ NCtx \in Nat
  BY LenProperties, DeviceAssumption DEF TypeOK
<1>2. call.toks \in Seq(Token) /\ Len(call.toks) \in Nat
  <2>1. CASE pc = "idle"
    <3>1. call.toks = <<>>
      BY <2>1 DEF CallSound, NoCall
    <3>2. QED BY <3>1
  <2>2. CASE pc # "idle"
    <3>1. call.toks \in Seq(Token)
      BY <2>2 DEF CallSound
    <3>2. QED BY <3>1, LenProperties
  <2>3. QED BY <2>1, <2>2
<1>3. PICK t \in Seq(Token) : t = call.toks
  BY <1>2
<1>4. whole = fed \o t
  BY <1>3 DEF whole
<1>5. /\ whole \in Seq(Token) /\ Len(whole) = Len(fed) + Len(t)
      /\ \A i \in 1..Len(fed) : whole[i] = fed[i]
      /\ \A i \in 1..Len(t) : whole[Len(fed) + i] = t[i]
  BY <1>1, <1>2, <1>3, <1>4, ConcatProperties
<1>6. CASE pc = "idle"
  <2>1. t = <<>>
    BY <1>3, <1>6 DEF CallSound, NoCall
  <2>2. Len(t) = 0 /\ fed \o t = fed
    BY <1>1, <2>1, ConcatEmptySeq
  <2>3. QED BY <1>1, <1>2, <1>3, <1>4, <1>5, <1>6, <2>2
<1>7. CASE pc # "idle" /\ call.batch
  <2>1. /\ fed = <<>> /\ base < Len(t) /\ call.width \in Nat \ {0}
        /\ Len(fed) + Len(t) <= NCtx
    BY <1>3, <1>7 DEF CallSound
  <2>2. Width = Least(call.width, Len(t) - base)
    BY <1>3, <1>7 DEF Width
  <2>3. Width \in Nat \ {0} /\ Width <= Len(t) - base
    BY <1>1, <1>2, <1>3, <2>1, <2>2 DEF Least
  <2>4. Len(fed) = 0
    BY <2>1
  <2>5. base + Width <= Len(whole)
    BY <1>1, <1>2, <1>3, <1>5, <2>3, <2>4
  <2>6. QED BY <1>1, <1>2, <1>3, <1>5, <1>7, <2>1, <2>3, <2>5
<1>8. CASE pc # "idle" /\ ~call.batch
  <2>1. base = Len(fed) /\ Len(t) = 1 /\ Len(fed) + Len(t) <= NCtx
    BY <1>3, <1>8 DEF CallSound
  <2>2. Width = 1
    BY <1>8 DEF Width
  <2>3. QED BY <1>1, <1>2, <1>3, <1>5, <1>8, <2>1, <2>2
<1>9. QED BY <1>6, <1>7, <1>8

\* Everything the columns of a window are about lies in the sequence.
LEMMA ColumnFacts ==
  ASSUME TypeOK, CallSound, pc # "idle", NEW c \in 0..(Width - 1)
  PROVE  /\ c \in Nat /\ base + c \in Positions /\ c \in Positions
         /\ base + c \in Nat /\ base + c + 1 \in 1..Len(whole)
<1>1. /\ base \in Nat /\ Width \in Nat \ {0} /\ base + Width <= Len(whole)
      /\ Len(whole) <= NCtx /\ Len(whole) \in Nat /\ NCtx \in Nat
  BY CallFacts, DeviceAssumption
<1>2. PICK w \in Nat : w = Width
  BY <1>1
<1>3. QED BY <1>1, <1>2 DEF Positions

-----------------------------------------------------------------------------
\* The recording of a full-attention layer: every column is stored, then attended.
LEMMA AttnCommands ==
  ASSUME TypeOK, CallSound, pc # "idle", NEW l \in AttnLayers
  PROVE  /\ Commands(l) \in Seq(AnyCommand) /\ Len(Commands(l)) = 2 * Width
         /\ \A c \in 0..(Width - 1) :
              /\ Commands(l)[2 * c + 1] = Command("store", l, c)
              /\ Commands(l)[2 * c + 2] = Command("attend", l, c)
         /\ \A i \in 1..(2 * Width) : \E c \in 0..(Width - 1) :
              i = 2 * c + 1 \/ i = 2 * c + 2
<1>1. PICK w \in Nat : w = Width
  BY CallFacts
<1> DEFINE e(i) == Command(IF i % 2 = 1 THEN "store" ELSE "attend", l, (i - 1) \div 2)
           f == [i \in 1..(2 * w) |-> e(i)]
<1>2. Commands(l) = f
  BY <1>1, LayerFacts DEF Commands
<1>3. ASSUME NEW i \in 1..(2 * w)
      PROVE  /\ (i - 1) \div 2 \in 0..(w - 1)
             /\ i = 2 * ((i - 1) \div 2) + 1 \/ i = 2 * ((i - 1) \div 2) + 2
  BY <1>1
<1>4. ASSUME NEW c \in 0..(w - 1), NEW o \in {"store", "attend"}
      PROVE  Command(o, l, c) \in AnyCommand
  <2>1. c \in Nat /\ base + c \in Nat /\ l \in Layers
    BY <1>1, ColumnFacts, LayerFacts
  <2>2. QED BY <2>1 DEF Command, StorePos, AnyCommand
<1>5. \A i \in 1..(2 * w) : e(i) \in AnyCommand
  <2> TAKE i \in 1..(2 * w)
  <2>1. PICK c \in 0..(w - 1) : c = (i - 1) \div 2
    BY <1>3
  <2>2. QED BY <1>4, <2>1
<1>6. f \in [1..(2 * w) -> AnyCommand]
  BY <1>5
<1>7. 2 * w \in Nat
  BY <1>1
<1> HIDE DEF f
<1>8. f \in Seq(AnyCommand) /\ Len(f) = 2 * w
  BY <1>6, <1>7, FunIsSeq
<1>9. ASSUME NEW c \in 0..(w - 1)
      PROVE  f[2 * c + 1] = Command("store", l, c) /\ f[2 * c + 2] = Command("attend", l, c)
  <2>1. /\ 2 * c + 1 \in 1..(2 * w) /\ (2 * c + 1) % 2 = 1 /\ ((2 * c + 1) - 1) \div 2 = c
        /\ 2 * c + 2 \in 1..(2 * w) /\ (2 * c + 2) % 2 # 1 /\ ((2 * c + 2) - 1) \div 2 = c
    BY <1>1
  <2>2. QED BY <2>1 DEF f
<1>10. \A i \in 1..(2 * w) : \E c \in 0..(w - 1) : i = 2 * c + 1 \/ i = 2 * c + 2
  BY <1>3
<1>11. QED BY <1>1, <1>2, <1>8, <1>9, <1>10

\* That of a recurrent layer: column after column.
LEMMA SsmCommands ==
  ASSUME TypeOK, CallSound, pc # "idle", NEW l \in SsmLayers
  PROVE  /\ Commands(l) \in Seq(AnyCommand) /\ Len(Commands(l)) = Width
         /\ \A c \in 0..(Width - 1) : Commands(l)[c + 1] = Command("recur", l, c)
<1>1. PICK w \in Nat : w = Width
  BY CallFacts
<1> DEFINE f == [i \in 1..w |-> Command("recur", l, i - 1)]
<1>2. Commands(l) = f
  BY <1>1, LayerFacts DEF Commands
<1>3. ASSUME NEW i \in 1..w
      PROVE  Command("recur", l, i - 1) \in AnyCommand
  <2>1. PICK c \in 0..(w - 1) : c = i - 1
    BY <1>1
  <2>2. c \in Nat /\ base + c \in Nat /\ l \in Layers
    BY <1>1, ColumnFacts, LayerFacts
  <2>3. QED BY <2>1, <2>2 DEF Command, StorePos, AnyCommand
<1>4. f \in Seq(AnyCommand) /\ Len(f) = w
  <2>1. f \in [1..w -> AnyCommand]
    BY <1>3
  <2>2. QED BY <1>1, <2>1, FunIsSeq
<1>5. \A c \in 0..(w - 1) : f[c + 1] = Command("recur", l, c)
  BY <1>1
<1>6. QED BY <1>1, <1>2, <1>4, <1>5

\* Every recording begins with the first column of its layer and holds nothing
\* that the device cannot do.
LEMMA CommandFacts ==
  ASSUME TypeOK, CallSound, pc # "idle", NEW l \in 0..NLayers
  PROVE  /\ Commands(l) \in Seq(AnyCommand) /\ Len(Commands(l)) \in Nat \ {0}
         /\ \A i \in 1..Len(Commands(l)) : Sound(Commands(l)[i])
         /\ l = NLayers => Commands(l) = <<[op |-> "norm"]>>
         /\ l \in AttnLayers => Commands(l)[1] = Command("store", l, 0)
         /\ l \in SsmLayers => Commands(l)[1] = Command("recur", l, 0)
<1>1. PICK w \in Nat \ {0} : w = Width
  BY CallFacts
<1>2. 0 \in 0..(w - 1)
  BY <1>1
<1>3. CASE l = NLayers
  <2>1. Commands(l) = <<[op |-> "norm"]>>
    BY <1>3 DEF Commands
  <2>2. [op |-> "norm"] \in AnyCommand /\ Sound([op |-> "norm"])
    BY DEF AnyCommand, Sound
  <2>3. QED BY <1>3, <2>1, <2>2, LayerFacts
<1>4. CASE l \in AttnLayers
  <2>1. Commands(l) \in Seq(AnyCommand) /\ Len(Commands(l)) = 2 * w
    BY <1>1, <1>4, AttnCommands
  <2>2. ASSUME NEW i \in 1..(2 * w) PROVE Sound(Commands(l)[i])
    <3>1. PICK c \in 0..(w - 1) : i = 2 * c + 1 \/ i = 2 * c + 2
      BY <1>1, <1>4, AttnCommands
    <3>2. Commands(l)[i] \in {Command("store", l, c), Command("attend", l, c)}
      BY <1>1, <1>4, <3>1, AttnCommands
    <3>3. QED BY <1>1, <1>4, <3>2 DEF Sound
  <2>3. Commands(l)[1] = Command("store", l, 0)
    <3>1. Commands(l)[2 * 0 + 1] = Command("store", l, 0)
      BY <1>1, <1>2, <1>4, AttnCommands
    <3>2. QED BY <3>1
  <2>4. l # NLayers /\ l \notin SsmLayers
    BY <1>4, LayerFacts
  <2>5. QED BY <1>1, <1>4, <2>1, <2>2, <2>3, <2>4
<1>5. CASE l \in SsmLayers
  <2>1. Commands(l) \in Seq(AnyCommand) /\ Len(Commands(l)) = w
    BY <1>1, <1>5, SsmCommands
  <2>2. ASSUME NEW i \in 1..w PROVE Commands(l)[i] = Command("recur", l, i - 1) /\ i - 1 \in 0..(w - 1)
    <3>1. PICK c \in 0..(w - 1) : i = c + 1
      BY <1>1
    <3>2. Commands(l)[c + 1] = Command("recur", l, c) /\ c = i - 1
      BY <1>1, <1>5, <3>1, SsmCommands
    <3>3. QED BY <3>1, <3>2
  <2>3. \A i \in 1..w : Sound(Commands(l)[i])
    BY <1>1, <1>5, <2>2 DEF Sound
  <2>4. Commands(l)[1] = Command("recur", l, 0)
    <3>1. 1 \in 1..w /\ 1 - 1 = 0
      BY <1>1
    <3>2. QED BY <2>2, <3>1
  <2>5. l # NLayers /\ l \notin AttnLayers
    BY <1>5, LayerFacts
  <2>6. QED BY <1>1, <1>5, <2>1, <2>3, <2>4, <2>5
<1>6. l = NLayers \/ l \in AttnLayers \/ l \in SsmLayers
  <2>1. l = NLayers \/ l \in Layers
    BY ShapeAssumption DEF Layers
  <2>2. QED BY <2>1, LayerFacts
<1>7. QED BY <1>3, <1>4, <1>5, <1>6

-----------------------------------------------------------------------------
DeviceTypes ==
  /\ act \in [Positions -> Digests]
  /\ cache \in [AttnLayers -> [Stores -> [Positions ->
                  [in : Digests, pos : Positions \cup {-1}]]]]
  /\ conv \in [SsmLayers -> [1..NPrev -> Digests]]
  /\ state \in [SsmLayers -> Seq(Windows)]

\* The point the device stands at does not move by itself.
LEMMA AtFrame ==
  ASSUME UNCHANGED <<host, device>>, NEW l, NEW c, NEW b \in BOOLEAN, StandsAt(l, c, b)
  PROVE  StandsAt(l, c, b)'
BY DEF StandsAt, RowsHeld, NetHeld, Count, whole, Width, Used, host, device

\* A store puts the row of its column behind the rows of the layer.
LEMMA StoreRight ==
  ASSUME Typed, CallSound, pc # "idle", UNCHANGED host,
         NEW l \in AttnLayers, NEW c \in 0..(Width - 1),
         StandsAt(l, c, FALSE), Store(Command("store", l, c))
  PROVE  DeviceTypes' /\ StandsAt(l, c, TRUE)'
<1>1. whole' = whole /\ base' = base /\ Width' = Width /\ Used' = Used /\ Used \subseteq Stores
  BY DEF host, whole, Width, Used, Stores
<1>2. PICK w \in Nat, b \in Nat, p \in Nat : w = Width /\ b = base /\ p = base + c
  BY CallFacts, ColumnFacts DEF Typed
<1>3. /\ c \in Nat /\ c < w /\ p = b + c /\ p \in Positions /\ c \in Positions
      /\ p + 1 \in 1..Len(whole) /\ b + w <= Len(whole) /\ Len(whole) <= NCtx
      /\ Len(whole) \in Nat /\ NCtx \in Nat /\ whole \in Seq(Token)
  BY <1>2, CallFacts, ColumnFacts, DeviceAssumption DEF Typed
<1>4. act[c] = InputAt(l, whole, p + 1)
  BY <1>2, <1>3 DEF StandsAt
<1> DEFINE newRow == Row(act[c], p)
           Kept == [in : Digests, pos : Positions \cup {-1}]
<1>5. newRow \in Kept
  BY <1>3 DEF Typed, TypeOK, Row
<1>6. cache' = [cache EXCEPT ![l] = [st \in Stores |->
        IF st \in Used THEN [cache[l][st] EXCEPT ![p] = newRow] ELSE cache[l][st]]]
  BY <1>2 DEF Store, Command, StorePos, Typed, TypeOK
<1>7. cache \in [AttnLayers -> [Stores -> [Positions -> Kept]]]
  BY DEF Typed, TypeOK
<1> HIDE DEF newRow, Kept
<1>8. \A m \in AttnLayers, st \in Stores, q \in Positions :
        cache'[m][st][q] = IF m = l /\ st \in Used /\ q = p THEN newRow ELSE cache[m][st][q]
  BY <1>3, <1>6, <1>7
<1>9. cache' \in [AttnLayers -> [Stores -> [Positions -> Kept]]]
  BY <1>3, <1>5, <1>6, <1>7
<1>10. DeviceTypes'
  BY <1>9 DEF DeviceTypes, Kept, Store, Typed, TypeOK
<1>11. ASSUME NEW m \in AttnLayers
       PROVE  RowsHeld(m, Count(m, l, c + 1))'
  <2>1. RowsHeld(m, Count(m, l, c))
    BY DEF StandsAt
  <2>2. m \in Nat /\ l \in Nat
    BY LayerFacts
  <2>3. Count(m, l, c + 1)' = IF m = l THEN p + 1 ELSE Count(m, l, c)
    BY <1>1, <1>2, <1>3, <2>2 DEF Count
  <2>4. Count(m, l, c) \in Nat /\ Count(m, l, c) <= b + w /\ (m = l => Count(m, l, c) = p)
    BY <1>1, <1>2, <1>3, <2>2 DEF Count
  <2> SUFFICES ASSUME NEW st \in Used, NEW q \in 0..(Count(m, l, c + 1)' - 1)
               PROVE  cache'[m][st][q] = Row(InputAt(m, whole, q + 1), q)
    BY <1>1 DEF RowsHeld
  <2>5. q \in Positions
    BY <1>3, <2>3, <2>4 DEF Positions
  <2>6. CASE m = l /\ q = p
    BY <1>1, <1>4, <1>8, <2>5, <2>6 DEF newRow
  <2>7. CASE ~(m = l /\ q = p)
    <3>1. q \in 0..(Count(m, l, c) - 1)
      BY <1>3, <2>3, <2>4, <2>7
    <3>2. cache[m][st][q] = Row(InputAt(m, whole, q + 1), q)
      BY <2>1, <3>1 DEF RowsHeld
    <3>3. cache'[m][st][q] = cache[m][st][q]
      BY <1>1, <1>8, <2>5, <2>7
    <3>4. QED BY <3>2, <3>3
  <2>8. QED BY <2>6, <2>7
<1>12. ASSUME NEW m \in SsmLayers
       PROVE  NetHeld(m, Count(m, l, c))'
  <2>1. NetHeld(m, Count(m, l, c))
    BY DEF StandsAt
  <2>2. Count(m, l, c)' = Count(m, l, c) /\ conv' = conv /\ state' = state
    BY <1>1 DEF Count, Store
  <2>3. QED BY <1>1, <2>1, <2>2 DEF NetHeld
<1>13. act' = act
  BY DEF Store
<1>14. QED BY <1>1, <1>10, <1>11, <1>12, <1>13 DEF StandsAt

\* Attention over the rows of a sequence returns the tokens it has read.
LEMMA AttendedRight ==
  ASSUME Typed, CallSound, pc # "idle",
         NEW l \in AttnLayers, NEW c \in 0..(Width - 1), NEW p, p = base + c,
         RowsHeld(l, p + 1), act[c] = InputAt(l, whole, p + 1)
  PROVE  Attended(l, p, c) = SubSeq(whole, 1, p + 1)
<1>1. /\ p \in Nat /\ p \in Positions /\ p + 1 \in 1..Len(whole) /\ Len(whole) <= NCtx
      /\ whole \in Seq(Token) /\ Len(whole) \in Nat
  BY CallFacts, ColumnFacts DEF Typed
<1>2. Keys \in Used
  BY DEF Keys, Used
<1>3. \A st \in Used, q \in 0..p : cache[l][st][q] = Row(InputAt(l, whole, q + 1), q)
  BY <1>1 DEF RowsHeld
<1>4. ASSUME NEW q \in 0..p
      PROVE  /\ cache[l][Keys][q].pos = q
             /\ cache[l][Keys][q].in = InputAt(l, whole, q + 1)
             /\ \A st \in Used : cache[l][st][q] = cache[l][Keys][q]
  <2>1. cache[l][Keys][q] = Row(InputAt(l, whole, q + 1), q)
    BY <1>2, <1>3
  <2>2. \A st \in Used : cache[l][st][q] = Row(InputAt(l, whole, q + 1), q)
    BY <1>3
  <2>3. /\ Row(InputAt(l, whole, q + 1), q).pos = q
        /\ Row(InputAt(l, whole, q + 1), q).in = InputAt(l, whole, q + 1)
    BY DEF Row
  <2>4. QED BY <2>1, <2>2, <2>3
<1> DEFINE ins == [j \in 1..(p + 1) |-> cache[l][Keys][j - 1].in]
<1>5. ins = [j \in 1..(p + 1) |-> InputAt(l, whole, j)]
  <2>1. ASSUME NEW j \in 1..(p + 1)
        PROVE  cache[l][Keys][j - 1].in = InputAt(l, whole, j)
    <3>1. PICK q \in 0..p : q = j - 1
      BY <1>1
    <3>2. cache[l][Keys][q].in = InputAt(l, whole, q + 1) /\ q + 1 = j
      BY <1>4, <3>1
    <3>3. QED BY <3>1, <3>2
  <2>2. QED BY <2>1
<1> HIDE DEF ins
<1>6. Mix(l, ins) = SubSeq(whole, 1, p + 1)
  <2>1. PICK n \in 0..Len(whole) : n = p + 1
    BY <1>1
  <2>2. ins = [j \in 1..n |-> InputAt(l, whole, j)]
    BY <1>5, <2>1
  <2>3. QED BY <1>1, <2>1, <2>2, MixRight
<1>7. cache[l][Keys][p].in = act[c]
  BY <1>1, <1>4
<1>8. Attended(l, p, c) = Mix(l, ins)
  BY <1>4, <1>7 DEF Attended, ins
<1>9. QED BY <1>6, <1>8

\* An attended column enters the next layer.
LEMMA AttendRight ==
  ASSUME Typed, CallSound, pc # "idle", UNCHANGED host,
         NEW l \in AttnLayers, NEW c \in 0..(Width - 1),
         StandsAt(l, c, TRUE), Attend(Command("attend", l, c))
  PROVE  DeviceTypes' /\ StandsAt(l, c + 1, FALSE)'
<1>1. whole' = whole /\ base' = base /\ Width' = Width /\ Used' = Used
  BY DEF host, whole, Width, Used
<1>2. PICK w \in Nat, b \in Nat, p \in Nat : w = Width /\ b = base /\ p = base + c
  BY CallFacts, ColumnFacts DEF Typed
<1>3. /\ c \in Nat /\ c < w /\ p = b + c /\ p \in Positions /\ c \in Positions
      /\ p + 1 \in 1..Len(whole) /\ Len(whole) <= NCtx /\ Len(whole) \in Nat
      /\ whole \in Seq(Token) /\ l \in Nat
  <2>1. l \in Nat
    BY LayerFacts
  <2>2. QED BY <1>2, <2>1, CallFacts, ColumnFacts DEF Typed
<1>4. act[c] = InputAt(l, whole, p + 1)
  BY <1>2, <1>3 DEF StandsAt
<1>5. RowsHeld(l, p + 1)
  <2>1. Count(l, l, c + 1) = p + 1
    BY <1>2, <1>3 DEF Count
  <2>2. RowsHeld(l, Count(l, l, c + 1))
    BY DEF StandsAt
  <2>3. QED BY <2>1, <2>2
<1>6. Attended(l, p, c) = SubSeq(whole, 1, p + 1)
  BY <1>2, <1>4, <1>5, AttendedRight
<1>7. act' = [act EXCEPT ![c] = SubSeq(whole, 1, p + 1)]
  BY <1>2, <1>6 DEF Attend, Command, StorePos
<1>8. SubSeq(whole, 1, p + 1) = InputAt(l + 1, whole, p + 1)
  BY <1>3 DEF InputAt
<1>9. SubSeq(whole, 1, p + 1) \in Digests
  BY <1>3, <1>8, InputFacts
<1>10. act \in [Positions -> Digests] /\ act' \in [Positions -> Digests]
  BY <1>7, <1>9 DEF Typed, TypeOK
<1>11. DeviceTypes'
  BY <1>10 DEF DeviceTypes, Attend, Typed, TypeOK
<1>12. UNCHANGED <<cache, conv, state>>
  BY DEF Attend
<1>13. ASSUME NEW m \in AttnLayers
       PROVE  RowsHeld(m, Count(m, l, c + 1))'
  <2>1. RowsHeld(m, Count(m, l, c + 1))
    BY DEF StandsAt
  <2>2. Count(m, l, c + 1)' = Count(m, l, c + 1)
    BY <1>1 DEF Count
  <2>3. QED BY <1>1, <1>12, <2>1, <2>2 DEF RowsHeld
<1>14. ASSUME NEW m \in SsmLayers
       PROVE  NetHeld(m, Count(m, l, c + 1))'
  <2>1. m # l
    BY LayerFacts
  <2>2. NetHeld(m, Count(m, l, c))
    BY DEF StandsAt
  <2>3. Count(m, l, c + 1)' = Count(m, l, c)
    BY <1>1, <2>1 DEF Count
  <2>4. QED BY <1>1, <1>12, <2>2, <2>3 DEF NetHeld
<1>15. ASSUME NEW k \in 0..(Width - 1)
       PROVE  act'[k] = InputAt(IF k < c + 1 THEN l + 1 ELSE l, whole, base + k + 1)
  <2>1. k \in Positions /\ k \in Nat
    BY ColumnFacts DEF Typed
  <2>2. CASE k = c
    BY <1>2, <1>3, <1>7, <1>8, <1>10, <2>1, <2>2
  <2>3. CASE k # c
    <3>1. act'[k] = act[k] /\ (k < c + 1 <=> k < c)
      BY <1>3, <1>7, <1>10, <2>1, <2>3
    <3>2. QED BY <3>1 DEF StandsAt
  <2>4. QED BY <2>2, <2>3
<1>16. QED BY <1>1, <1>11, <1>13, <1>14, <1>15 DEF StandsAt

\* One more input moves the convolution and the windows on by one token.
LEMMA NetMoves ==
  ASSUME Typed, NEW l \in SsmLayers, NEW n \in Nat, NetHeld(l, n),
         NEW v \in Digests, v = InputAt(l, whole, n + 1)
  PROVE  /\ Shifted(l, v) \in [1..NPrev -> Digests]
         /\ \A i \in 1..NPrev : Shifted(l, v)[i] = WindowInput(l, whole, n + 2, i)
         /\ Append(conv[l], v) \in Windows
         /\ WindowIs(l, Append(conv[l], v), whole, n + 1)
<1>1. NPrev \in Nat \ {0} /\ conv[l] \in [1..NPrev -> Digests]
  BY ShapeAssumption DEF Typed, TypeOK
<1>2. PICK r \in Seq(Digests) : r = conv[l] /\ Len(r) = NPrev
  BY <1>1, FunIsSeq
<1>3. \A i \in 1..NPrev : r[i] = WindowInput(l, whole, n + 1, i)
  BY <1>2 DEF NetHeld
<1>4. /\ Tail(r) \in Seq(Digests) /\ Len(Tail(r)) = NPrev - 1
      /\ \A i \in 1..(NPrev - 1) : Tail(r)[i] = r[i + 1]
  <2>1. r # <<>>
    BY <1>1, <1>2
  <2>2. QED BY <1>1, <1>2, <2>1, HeadTailProperties
<1>5. PICK u \in Seq(Digests) : u = Tail(r)
  BY <1>4
<1>6. /\ Append(u, v) \in Seq(Digests) /\ Len(Append(u, v)) = NPrev
      /\ \A i \in 1..(NPrev - 1) : Append(u, v)[i] = r[i + 1]
      /\ Append(u, v)[NPrev] = v
  BY <1>1, <1>4, <1>5, AppendProperties
<1>7. Shifted(l, v) = Append(u, v)
  BY <1>2, <1>5 DEF Shifted
<1>8. Shifted(l, v) \in [1..NPrev -> Digests]
  BY <1>6, <1>7, LenProperties
<1>9. ASSUME NEW i \in 1..NPrev
      PROVE  Append(u, v)[i] = WindowInput(l, whole, n + 2, i)
  <2>1. CASE i = NPrev
    <3>1. (n + 2) + i > NPrev + 1 /\ (n + 2) + i - NPrev - 1 = n + 1
      BY <1>1, <2>1
    <3>2. QED BY <1>6, <2>1, <3>1 DEF WindowInput
  <2>2. CASE i # NPrev
    <3>1. i \in 1..(NPrev - 1) /\ i + 1 \in 1..NPrev
      BY <1>1, <2>2
    <3>2. Append(u, v)[i] = WindowInput(l, whole, n + 1, i + 1)
      BY <1>3, <1>6, <3>1
    <3>3. /\ (n + 1) + (i + 1) > NPrev + 1 <=> (n + 2) + i > NPrev + 1
          /\ (n + 1) + (i + 1) - NPrev - 1 = (n + 2) + i - NPrev - 1
      BY <1>1, <3>1
    <3>4. QED BY <3>2, <3>3 DEF WindowInput
  <2>3. QED BY <2>1, <2>2
<1>10. /\ Append(r, v) \in Seq(Digests) /\ Len(Append(r, v)) = NPrev + 1
       /\ \A i \in 1..NPrev : Append(r, v)[i] = r[i]
       /\ Append(r, v)[NPrev + 1] = v
  BY <1>1, <1>2, AppendProperties
<1>11. Append(r, v) \in Windows
  <2>1. Append(r, v) \in [1..(NPrev + 1) -> Digests]
    BY <1>10, LenProperties
  <2>2. QED BY <2>1 DEF Windows
<1>12. ASSUME NEW i \in 1..(NPrev + 1)
       PROVE  Append(r, v)[i] = WindowInput(l, whole, n + 1, i)
  <2>1. CASE i = NPrev + 1
    <3>1. (n + 1) + i > NPrev + 1 /\ (n + 1) + i - NPrev - 1 = n + 1
      BY <1>1, <2>1
    <3>2. QED BY <1>10, <2>1, <3>1 DEF WindowInput
  <2>2. CASE i # NPrev + 1
    <3>1. i \in 1..NPrev
      BY <1>1, <2>2
    <3>2. QED BY <1>3, <1>10, <3>1
  <2>3. QED BY <2>1, <2>2
<1>13. QED BY <1>2, <1>7, <1>8, <1>9, <1>11, <1>12 DEF WindowIs

\* A recurrent column shifts the convolution, grows the state and enters the next
\* layer.
LEMMA RecurRight ==
  ASSUME Typed, CallSound, pc # "idle", UNCHANGED host,
         NEW l \in SsmLayers, NEW c \in 0..(Width - 1),
         StandsAt(l, c, FALSE), Recur(Command("recur", l, c))
  PROVE  DeviceTypes' /\ StandsAt(l, c + 1, FALSE)'
<1>1. whole' = whole /\ base' = base /\ Width' = Width /\ Used' = Used
  BY DEF host, whole, Width, Used
<1>2. PICK w \in Nat, b \in Nat, p \in Nat : w = Width /\ b = base /\ p = base + c
  BY CallFacts, ColumnFacts DEF Typed
<1>3. /\ c \in Nat /\ c < w /\ p = b + c /\ c \in Positions
      /\ p + 1 \in 1..Len(whole) /\ Len(whole) <= NCtx /\ Len(whole) \in Nat
      /\ whole \in Seq(Token) /\ l \in Nat
  <2>1. l \in Nat
    BY LayerFacts
  <2>2. QED BY <1>2, <2>1, CallFacts, ColumnFacts DEF Typed
<1>4. PICK v \in Digests : v = act[c] /\ v = InputAt(l, whole, p + 1)
  <2>1. act[c] = InputAt(l, whole, p + 1)
    BY <1>2, <1>3 DEF StandsAt
  <2>2. QED BY <1>3, <2>1, InputFacts
<1>5. NetHeld(l, p)
  <2>1. Count(l, l, c) = p
    BY <1>2, <1>3 DEF Count
  <2>2. NetHeld(l, Count(l, l, c))
    BY DEF StandsAt
  <2>3. QED BY <2>1, <2>2
<1> DEFINE shifted == Shifted(l, v)
           window == Append(conv[l], v)
<1>6. /\ shifted \in [1..NPrev -> Digests]
      /\ \A i \in 1..NPrev : shifted[i] = WindowInput(l, whole, p + 2, i)
      /\ window \in Windows
      /\ WindowIs(l, window, whole, p + 1)
  BY <1>4, <1>5, NetMoves
<1>7. /\ conv' = [conv EXCEPT ![l] = shifted]
      /\ state' = [state EXCEPT ![l] = Append(@, window)]
      /\ act' = [act EXCEPT ![c] = Folded(l, state'[l])]
      /\ cache' = cache
  BY <1>4 DEF Recur, Command
<1> HIDE DEF shifted, window
<1>8. PICK ws \in Seq(Windows) : ws = state[l] /\ Len(ws) = p
  BY <1>5 DEF NetHeld, Typed
<1>9. \A j \in 1..p : WindowIs(l, ws[j], whole, j)
  BY <1>5, <1>8 DEF NetHeld
<1>10. /\ Append(ws, window) \in Seq(Windows) /\ Len(Append(ws, window)) = p + 1
       /\ \A j \in 1..p : Append(ws, window)[j] = ws[j]
       /\ Append(ws, window)[p + 1] = window
  BY <1>6, <1>8, AppendProperties
<1>11. PICK n \in 1..Len(whole), xs \in Seq(Windows) : n = p + 1 /\ xs = Append(ws, window)
  BY <1>3, <1>10
<1>12. ASSUME NEW j \in 1..n
       PROVE  WindowIs(l, xs[j], whole, j)
  <2>1. CASE j = n
    BY <1>6, <1>10, <1>11, <2>1
  <2>2. CASE j # n
    <3>1. j \in 1..p
      BY <1>11, <2>2
    <3>2. xs[j] = ws[j] /\ WindowIs(l, ws[j], whole, j)
      BY <1>9, <1>10, <1>11, <3>1
    <3>3. QED BY <3>2
  <2>3. QED BY <2>1, <2>2
<1>13. state \in [SsmLayers -> Seq(Windows)] /\ state' = [state EXCEPT ![l] = xs]
  BY <1>7, <1>8, <1>11 DEF Typed
<1>14. state'[l] = xs /\ Len(xs) = n
  BY <1>10, <1>11, <1>13
<1>15. Folded(l, state'[l]) = SubSeq(whole, 1, n)
  BY <1>3, <1>12, <1>14, FoldRight
<1>16. SubSeq(whole, 1, n) = InputAt(l + 1, whole, n) /\ InputAt(l + 1, whole, n) \in Digests
  <2>1. SubSeq(whole, 1, n) = InputAt(l + 1, whole, n)
    BY <1>3 DEF InputAt
  <2>2. InputAt(l + 1, whole, n) \in Digests
    BY <1>3, InputFacts
  <2>3. QED BY <2>1, <2>2
<1>17. /\ act \in [Positions -> Digests] /\ act' = [act EXCEPT ![c] = InputAt(l + 1, whole, n)]
       /\ act' \in [Positions -> Digests]
  <2>1. act \in [Positions -> Digests]
    BY DEF Typed, TypeOK
  <2>2. QED BY <1>7, <1>15, <1>16, <2>1
<1>18. conv \in [SsmLayers -> [1..NPrev -> Digests]] /\ conv' \in [SsmLayers -> [1..NPrev -> Digests]]
  BY <1>6, <1>7 DEF Typed, TypeOK
<1>19. DeviceTypes'
  BY <1>7, <1>13, <1>17, <1>18 DEF DeviceTypes, Typed, TypeOK
<1>20. ASSUME NEW m \in AttnLayers
       PROVE  RowsHeld(m, Count(m, l, c + 1))'
  <2>1. m # l
    BY LayerFacts
  <2>2. RowsHeld(m, Count(m, l, c))
    BY DEF StandsAt
  <2>3. Count(m, l, c + 1)' = Count(m, l, c)
    BY <1>1, <2>1 DEF Count
  <2>4. QED BY <1>1, <1>7, <2>2, <2>3 DEF RowsHeld
<1>21. ASSUME NEW m \in SsmLayers
       PROVE  NetHeld(m, Count(m, l, c + 1))'
  <2>1. CASE m = l
    <3>1. Count(m, l, c + 1)' = n
      BY <1>1, <1>2, <1>3, <1>11, <2>1 DEF Count
    <3>2. \A i \in 1..NPrev : conv'[l][i] = WindowInput(l, whole, n + 1, i)
      <4>1. conv'[l] = shifted /\ n + 1 = p + 2
        BY <1>7, <1>11, <1>18
      <4>2. QED BY <1>6, <4>1
    <3>3. QED BY <1>1, <1>12, <1>14, <2>1, <3>1, <3>2 DEF NetHeld
  <2>2. CASE m # l
    <3>1. NetHeld(m, Count(m, l, c))
      BY DEF StandsAt
    <3>2. Count(m, l, c + 1)' = Count(m, l, c)
      BY <1>1, <2>2 DEF Count
    <3>3. conv'[m] = conv[m] /\ state'[m] = state[m]
      BY <1>7, <1>13, <1>18, <2>2
    <3>4. QED BY <1>1, <3>1, <3>2, <3>3 DEF NetHeld
  <2>3. QED BY <2>1, <2>2
<1>22. ASSUME NEW k \in 0..(Width - 1)
       PROVE  act'[k] = InputAt(IF k < c + 1 THEN l + 1 ELSE l, whole, base + k + 1)
  <2>1. k \in Positions /\ k \in Nat
    BY ColumnFacts DEF Typed
  <2>2. CASE k = c
    <3>1. act'[k] = InputAt(l + 1, whole, n) /\ k < c + 1
      BY <1>3, <1>17, <2>1, <2>2
    <3>2. n = base + k + 1
      BY <1>2, <1>11, <2>2
    <3>3. QED BY <3>1, <3>2
  <2>3. CASE k # c
    <3>1. act'[k] = act[k] /\ (k < c + 1 <=> k < c)
      BY <1>3, <1>17, <2>1, <2>3
    <3>2. QED BY <3>1 DEF StandsAt
  <2>4. QED BY <2>2, <2>3
<1>23. QED BY <1>1, <1>19, <1>20, <1>21, <1>22 DEF StandsAt

-----------------------------------------------------------------------------
\* Where the device stands behind a command.
Behind(d) ==
  IF d.op = "norm" THEN StandsAt(NLayers, 0, FALSE)
  ELSE IF d.op = "store" THEN StandsAt(d.layer, d.col, TRUE)
  ELSE StandsAt(d.layer, d.col + 1, FALSE)

\* The fields of a command.
LEMMA Fields ==
  ASSUME NEW o, NEW l, NEW c
  PROVE  /\ Command(o, l, c).op = o /\ Command(o, l, c).layer = l /\ Command(o, l, c).col = c
         /\ [op |-> "norm"].op = "norm"
BY DEF Command

\* What the host may have recorded, the device executes as the token loop would.
LEMMA DeviceMoves ==
  ASSUME Typed, CallSound, pc # "idle", UNCHANGED host, NEW d, Sound(d), AtCommand(d),
         Store(d) \/ Attend(d) \/ Recur(d) \/ Norm(d)
  PROVE  DeviceTypes' /\ Behind(d)'
<1>1. CASE d = [op |-> "norm"]
  <2>1. d.op = "norm"
    BY <1>1
  <2>2. UNCHANGED device /\ StandsAt(NLayers, 0, FALSE)
    BY <2>1 DEF Store, Attend, Recur, Norm, AtCommand
  <2>3. StandsAt(NLayers, 0, FALSE)'
    BY <2>2, AtFrame
  <2>4. DeviceTypes'
    BY <2>2 DEF device, DeviceTypes, Typed, TypeOK
  <2>5. QED BY <2>1, <2>3, <2>4 DEF Behind
<1>2. ASSUME NEW l \in AttnLayers, NEW c \in 0..(Width - 1), d = Command("store", l, c)
      PROVE  DeviceTypes' /\ Behind(d)'
  <2>1. d.op = "store" /\ d.layer = l /\ d.col = c
    BY <1>2, Fields
  <2>2. Store(Command("store", l, c)) /\ StandsAt(l, c, FALSE)
    BY <1>2, <2>1 DEF Store, Attend, Recur, Norm, AtCommand
  <2>3. DeviceTypes' /\ StandsAt(l, c, TRUE)'
    BY <2>2, StoreRight
  <2>4. QED BY <2>1, <2>3 DEF Behind
<1>3. ASSUME NEW l \in AttnLayers, NEW c \in 0..(Width - 1), d = Command("attend", l, c)
      PROVE  DeviceTypes' /\ Behind(d)'
  <2>1. d.op = "attend" /\ d.layer = l /\ d.col = c
    BY <1>3, Fields
  <2>2. Attend(Command("attend", l, c)) /\ StandsAt(l, c, TRUE)
    BY <1>3, <2>1 DEF Store, Attend, Recur, Norm, AtCommand
  <2>3. DeviceTypes' /\ StandsAt(l, c + 1, FALSE)'
    BY <2>2, AttendRight
  <2>4. QED BY <2>1, <2>3 DEF Behind
<1>4. ASSUME NEW l \in SsmLayers, NEW c \in 0..(Width - 1), d = Command("recur", l, c)
      PROVE  DeviceTypes' /\ Behind(d)'
  <2>1. d.op = "recur" /\ d.layer = l /\ d.col = c
    BY <1>4, Fields
  <2>2. Recur(Command("recur", l, c)) /\ StandsAt(l, c, FALSE)
    BY <1>4, <2>1 DEF Store, Attend, Recur, Norm, AtCommand
  <2>3. DeviceTypes' /\ StandsAt(l, c + 1, FALSE)'
    BY <2>2, RecurRight
  <2>4. QED BY <2>1, <2>3 DEF Behind
<1>5. QED BY <1>1, <1>2, <1>3, <1>4 DEF Sound

\* A layer that has seen every column of the window hands them to the next one.
LEMMA LayerDone ==
  ASSUME NEW l \in Layers, NEW n \in Nat, Width' = n, base' \in Nat, StandsAt(l, n, FALSE)'
  PROVE  StandsAt(l + 1, 0, FALSE)'
<1>1. l \in Nat /\ Layers \subseteq Nat /\ AttnLayers \subseteq Layers /\ SsmLayers \subseteq Layers
  BY LayerFacts
<1>2. ASSUME NEW m \in Layers
      PROVE  Count(m, l + 1, 0)' = Count(m, l, n)'
  <2>1. m \in Nat
    BY <1>1
  <2>2. CASE m < l + 1
    <3>1. m < l \/ m = l
      BY <1>1, <2>1, <2>2
    <3>2. QED BY <2>2, <3>1 DEF Count
  <2>3. CASE ~(m < l + 1)
    <3>1. ~(m < l) /\ m # l
      BY <1>1, <2>1, <2>3
    <3>2. Count(m, l, n)' = base'
      BY <3>1 DEF Count
    <3>3. PICK b \in Nat : base' = b
      OBVIOUS
    <3>4. b + 0 = b
      OBVIOUS
    <3>5. Count(m, l + 1, 0)' = base'
      BY <2>3, <3>3, <3>4 DEF Count
    <3>6. QED BY <3>2, <3>5
  <2>4. QED BY <2>2, <2>3
<1>3. ASSUME NEW m \in AttnLayers
      PROVE  RowsHeld(m, Count(m, l + 1, 0))'
  <2>1. RowsHeld(m, Count(m, l, n))'
    BY DEF StandsAt
  <2>2. Count(m, l + 1, 0)' = Count(m, l, n)'
    BY <1>1, <1>2
  <2>3. QED BY <2>1, <2>2 DEF RowsHeld
<1>4. ASSUME NEW m \in SsmLayers
      PROVE  NetHeld(m, Count(m, l + 1, 0))'
  <2>1. NetHeld(m, Count(m, l, n))'
    BY DEF StandsAt
  <2>2. Count(m, l + 1, 0)' = Count(m, l, n)'
    BY <1>1, <1>2
  <2>3. QED BY <2>1, <2>2 DEF NetHeld
<1>5. ASSUME NEW k \in 0..(n - 1)
      PROVE  act'[k] = InputAt(IF k < 0 THEN (l + 1) + 1 ELSE l + 1, whole', base' + k + 1)
  <2>1. k < n /\ ~(k < 0) /\ k \in 0..(Width' - 1)
    OBVIOUS
  <2>2. act'[k] = InputAt(IF k < n THEN l + 1 ELSE l, whole', base' + k + 1)
    BY <2>1 DEF StandsAt
  <2>3. QED BY <2>1, <2>2
<1>6. QED BY <1>3, <1>4, <1>5 DEF StandsAt

\* The first command of a layer finds the device in front of that layer.
LEMMA FirstCommand ==
  ASSUME TypeOK, CallSound, pc # "idle", NEW l \in 0..NLayers, NEW d, d = Commands(l)[1],
         StandsAt(l, 0, FALSE)'
  PROVE  AtCommand(d)'
<1>1. CASE l = NLayers
  <2>1. d = [op |-> "norm"]
    BY <1>1, CommandFacts
  <2>2. StandsAt(NLayers, 0, FALSE)'
    BY <1>1, Zenon
  <2>3. d.op = "norm"
    BY <2>1
  <2>4. QED BY <2>2, <2>3 DEF AtCommand
<1>2. CASE l \in AttnLayers
  <2>1. d = Command("store", l, 0)
    BY <1>2, CommandFacts
  <2>2. d.op = "store" /\ d.layer = l /\ d.col = 0
    BY <2>1, Fields
  <2>3. QED BY <2>2 DEF AtCommand
<1>3. CASE l \in SsmLayers
  <2>1. d = Command("recur", l, 0)
    BY <1>3, CommandFacts
  <2>2. d.op = "recur" /\ d.layer = l /\ d.col = 0
    BY <2>1, Fields
  <2>3. QED BY <2>2 DEF AtCommand
<1>4. l = NLayers \/ l \in AttnLayers \/ l \in SsmLayers
  <2>1. l = NLayers \/ l \in Layers
    BY ShapeAssumption DEF Layers
  <2>2. QED BY <2>1, LayerFacts
<1>5. QED BY <1>1, <1>2, <1>3, <1>4

\* A token's command is followed by that of the same column or of the next layer.
LEMMA FollowerFacts ==
  ASSUME NEW l, NEW c
  PROVE  /\ Follower(Command("store", l, c)) = Command("attend", l, c)
         /\ Follower(Command("attend", l, c)) = Commands(l + 1)[1]
         /\ Follower(Command("recur", l, c)) = Commands(l + 1)[1]
<1>1. Follower(Command("store", l, c)) = Command("attend", l, c)
  <2>1. Command("store", l, c).op = "store"
    BY Fields
  <2>2. [Command("store", l, c) EXCEPT !.op = "attend"] = Command("attend", l, c)
    BY DEF Command
  <2>3. QED BY <2>1, <2>2 DEF Follower
<1>2. ASSUME NEW o \in {"attend", "recur"}
      PROVE  Follower(Command(o, l, c)) = Commands(l + 1)[1]
  <2>1. Command(o, l, c).op # "store" /\ Command(o, l, c).layer = l
    BY Fields
  <2>2. QED BY <2>1 DEF Follower
<1>3. QED BY <1>1, <1>2

\* Behind a command that is not the last the device stands before the next one.
LEMMA NextCommand ==
  ASSUME Typed, CallSound, HostSound, pc = "wait", UNCHANGED host,
         NEW i \in 1..(Len(cmds) - 1), NEW d, NEW e, d = cmds[i], e = cmds[i + 1],
         Behind(d)'
  PROVE  AtCommand(e)'
<1>1. PICK w \in Nat \ {0} : Width = w
  BY CallFacts DEF Typed
<1>2. Width' = w /\ base' \in Nat /\ UNCHANGED <<call, base>>
  BY <1>1, CallFacts DEF Typed, host, Width
<1>3. Len(cmds) \in Nat /\ Sound(d) /\ cmds \in Seq(AnyCommand)
  <2>1. cmds \in Seq(AnyCommand) /\ Len(cmds) \in Nat
    BY LenProperties DEF Typed
  <2>2. QED BY <2>1 DEF HostSound
<1>4. ASSUME NEW l \in AttnLayers, NEW c \in 0..(w - 1),
             d = Command("store", l, c), e = Command("attend", l, c)
      PROVE  AtCommand(e)'
  <2>1. /\ d.op = "store" /\ d.layer = l /\ d.col = c
        /\ e.op = "attend" /\ e.layer = l /\ e.col = c
    BY <1>4, Fields
  <2>2. StandsAt(l, c, TRUE)'
    BY <2>1 DEF Behind
  <2>3. QED BY <2>1, <2>2 DEF AtCommand
<1>5. CASE call.batch
  <2>1. PICK l \in 0..NLayers : l = il /\ cmds = Commands(l)
    BY <1>5 DEF HostSound, Typed, TypeOK
  <2>2. CASE l = NLayers
    <3>1. Len(cmds) = 1
      BY <2>1, <2>2, CommandFacts DEF Typed
    <3>2. QED BY <3>1
  <2>3. CASE l \in AttnLayers
    <3>1. Len(cmds) = 2 * w
      BY <1>1, <2>1, <2>3, AttnCommands DEF Typed
    <3>2. PICK c \in 0..(w - 1) : i = 2 * c + 1 \/ i = 2 * c + 2
      <4>1. i \in 1..(2 * w)
        BY <3>1
      <4>2. QED BY <1>1, <2>3, <4>1, AttnCommands DEF Typed
    <3>3. CASE i = 2 * c + 1
      <4>1. i + 1 = 2 * c + 2
        BY <3>3
      <4>2. d = Command("store", l, c) /\ e = Command("attend", l, c)
        BY <1>1, <2>1, <2>3, <3>3, <4>1, AttnCommands DEF Typed
      <4>3. QED BY <1>4, <2>3, <4>2
    <3>4. CASE i = 2 * c + 2
      <4>1. PICK n \in 0..(w - 1) : n = c + 1 /\ i + 1 = 2 * n + 1
        BY <1>1, <3>1, <3>2, <3>4
      <4>2. d = Command("attend", l, c) /\ e = Command("store", l, n)
        BY <1>1, <2>1, <2>3, <3>4, <4>1, AttnCommands DEF Typed
      <4>3. /\ d.op = "attend" /\ d.layer = l /\ d.col + 1 = n
            /\ e.op = "store" /\ e.layer = l /\ e.col = n
        BY <4>1, <4>2, Fields
      <4>4. StandsAt(l, n, FALSE)'
        BY <4>3 DEF Behind
      <4>5. QED BY <4>3, <4>4 DEF AtCommand
    <3>5. QED BY <3>2, <3>3, <3>4
  <2>4. CASE l \in SsmLayers
    <3>1. Len(cmds) = w
      BY <1>1, <2>1, <2>4, SsmCommands DEF Typed
    <3>2. PICK c \in 0..(w - 1), n \in 0..(w - 1) : i = c + 1 /\ n = c + 1 /\ i + 1 = n + 1
      <4>1. i - 1 \in 0..(w - 1) /\ i \in 0..(w - 1)
        BY <1>1, <3>1
      <4>2. QED BY <1>1, <4>1
    <3>3. d = Command("recur", l, c) /\ e = Command("recur", l, n)
      BY <1>1, <2>1, <2>4, <3>2, SsmCommands DEF Typed
    <3>4. /\ d.op = "recur" /\ d.layer = l /\ d.col + 1 = n
          /\ e.op = "recur" /\ e.layer = l /\ e.col = n
      BY <3>2, <3>3, Fields
    <3>5. StandsAt(l, n, FALSE)'
      BY <3>4 DEF Behind
    <3>6. QED BY <3>4, <3>5 DEF AtCommand
  <2>5. l = NLayers \/ l \in AttnLayers \/ l \in SsmLayers
    <3>1. l = NLayers \/ l \in Layers
      BY ShapeAssumption DEF Layers
    <3>2. QED BY <3>1, LayerFacts
  <2>6. QED BY <2>2, <2>3, <2>4, <2>5
<1>6. CASE ~call.batch
  <2>1. WholeToken /\ w = 1
    BY <1>1, <1>6, CallFacts DEF HostSound, Typed
  <2>2. d.op # "norm" /\ e = Follower(d)
    BY <2>1 DEF WholeToken
  <2>3. ASSUME NEW l \in Layers, NEW c \in 0..(w - 1), NEW o \in {"attend", "recur"},
               d = Command(o, l, c)
        PROVE  AtCommand(e)'
    <3>1. d.op # "norm" /\ d.op # "store" /\ d.layer = l /\ d.col + 1 = w
      BY <2>1, <2>3, Fields
    <3>2. StandsAt(l, w, FALSE)'
      BY <3>1 DEF Behind
    <3>3. StandsAt(l + 1, 0, FALSE)'
      BY <1>1, <1>2, <3>2, LayerDone
    <3>4. PICK n \in 0..NLayers : n = l + 1
      BY LayerFacts
    <3>5. e = Commands(n)[1]
      BY <2>2, <2>3, <3>4, FollowerFacts
    <3>6. StandsAt(n, 0, FALSE)'
      BY <3>3, <3>4, Zenon
    <3>7. QED BY <3>5, <3>6, FirstCommand DEF Typed
  <2>4. CASE d = [op |-> "norm"]
    BY <2>2, <2>4
  <2>5. ASSUME NEW l \in AttnLayers, NEW c \in 0..(w - 1), d = Command("store", l, c)
        PROVE  AtCommand(e)'
    BY <1>4, <2>2, <2>5, FollowerFacts
  <2>6. QED BY <1>1, <1>3, <2>3, <2>4, <2>5, LayerFacts DEF Sound
<1>7. QED BY <1>5, <1>6

\* Behind the last one it stands before the next layer.
LEMMA LastCommand ==
  ASSUME Typed, CallSound, HostSound, pc = "wait", UNCHANGED host,
         NEW d, d = cmds[Len(cmds)], Behind(d)', NEW l \in 0..NLayers, il = l
  PROVE  IF l < NLayers THEN StandsAt(l + 1, 0, FALSE)' ELSE StandsAt(NLayers, 0, FALSE)'
<1>1. PICK w \in Nat \ {0} : Width = w
  BY CallFacts DEF Typed
<1>2. Width' = w /\ base' \in Nat
  BY <1>1, CallFacts DEF Typed, host, Width
<1>3. l = il /\ l \in Nat /\ NLayers \in Nat
  BY LayerFacts
<1>4. CASE l = NLayers
  <2>1. d = [op |-> "norm"]
    <3>1. Commands(NLayers) = <<[op |-> "norm"]>>
      BY <1>4, CommandFacts DEF Typed
    <3>2. cmds[Len(cmds)] = Commands(NLayers)[1]
      <4>1. CASE call.batch
        <5>1. cmds = Commands(NLayers)
          BY <1>3, <1>4, <4>1 DEF HostSound
        <5>2. Len(cmds) = 1
          BY <3>1, <5>1
        <5>3. QED BY <5>1, <5>2
      <4>2. CASE ~call.batch
        BY <4>2 DEF HostSound, WholeToken
      <4>3. QED BY <4>1, <4>2
    <3>3. QED BY <3>1, <3>2
  <2>2. d.op = "norm"
    BY <2>1
  <2>3. StandsAt(NLayers, 0, FALSE)'
    BY <2>2 DEF Behind
  <2>4. ~(l < NLayers)
    BY <1>3, <1>4
  <2>5. QED BY <2>3, <2>4
<1>5. ASSUME l \in Layers, NEW o \in {"attend", "recur"}, d = Command(o, l, w - 1)
      PROVE  StandsAt(l + 1, 0, FALSE)'
  <2>1. d.op # "norm" /\ d.op # "store" /\ d.layer = l /\ d.col + 1 = w
    BY <1>5, Fields
  <2>2. StandsAt(l, w, FALSE)'
    BY <2>1 DEF Behind
  <2>3. QED BY <1>2, <1>5, <2>2, LayerDone
<1>6. CASE l # NLayers
  <2>1. call.batch /\ cmds = Commands(l) /\ l \in Layers
    BY <1>3, <1>6 DEF HostSound, Layers
  <2>2. l < NLayers
    BY <1>3, <1>6
  <2>3. PICK c \in 0..(w - 1) : c = w - 1
    OBVIOUS
  <2>4. CASE l \in AttnLayers
    <3>1. Len(cmds) = 2 * w /\ 2 * w = 2 * c + 2
      BY <1>1, <2>1, <2>3, <2>4, AttnCommands DEF Typed
    <3>2. d = Command("attend", l, c)
      BY <1>1, <2>1, <2>4, <3>1, AttnCommands DEF Typed
    <3>3. d = Command("attend", l, w - 1)
      BY <2>3, <3>2
    <3>4. StandsAt(l + 1, 0, FALSE)'
      BY <1>5, <2>1, <3>3
    <3>5. QED BY <2>2, <3>4
  <2>5. CASE l \in SsmLayers
    <3>1. Len(cmds) = w /\ w = c + 1
      BY <1>1, <2>1, <2>3, <2>5, SsmCommands DEF Typed
    <3>2. d = Command("recur", l, c)
      BY <1>1, <2>1, <2>5, <3>1, SsmCommands DEF Typed
    <3>3. d = Command("recur", l, w - 1)
      BY <2>3, <3>2
    <3>4. StandsAt(l + 1, 0, FALSE)'
      BY <1>5, <2>1, <3>3
    <3>5. QED BY <2>2, <3>4
  <2>6. QED BY <2>1, <2>4, <2>5, LayerFacts
<1>7. QED BY <1>4, <1>6

-----------------------------------------------------------------------------
\* What a step that leaves the call alone does not change.
LEMMA CallFrame ==
  ASSUME UNCHANGED host, pc # "idle", pc' # "idle", CallSound
  PROVE  /\ CallSound' /\ EqualsTokenLoop' /\ whole' = whole /\ Width' = Width
         /\ \A l : Commands(l)' = Commands(l)
         /\ \A d : Sound(d) => Sound(d)'
<1>1. whole' = whole /\ Width' = Width
  BY DEF host, whole, Width
<1>2. CallSound' /\ EqualsTokenLoop'
  BY DEF host, CallSound, EqualsTokenLoop, CachesAsTokenLoop, HiddenRight
<1>3. \A o, l, c : Command(o, l, c)' = Command(o, l, c)
  BY DEF host, Command, StorePos
<1>4. \A l : Commands(l)' = Commands(l)
  BY <1>1, <1>3 DEF host, Commands
<1>5. \A d : Sound(d) => Sound(d)'
  BY <1>1, <1>3 DEF Sound
<1>6. QED BY <1>1, <1>2, <1>4, <1>5

\* Nor a step that leaves the recording alone as well.
LEMMA RecordingFrame ==
  ASSUME UNCHANGED <<host, il, cmds>>, pc \in {"submit", "wait"}, pc' \in {"submit", "wait"},
         CallSound, HostSound, pc' # "wait" => done' = 0
  PROVE  HostSound'
<1>1. /\ \A l : Commands(l)' = Commands(l)
      /\ \A d : Sound(d) => Sound(d)'
  BY CallFrame
<1>2. ASSUME NEW i \in 1..Len(cmds)
      PROVE  Sound(cmds[i])'
  <2>1. PICK d : d = cmds[i] /\ d = cmds'[i]
    OBVIOUS
  <2>2. Sound(d)
    BY <2>1 DEF HostSound
  <2>3. QED BY <1>1, <2>1, <2>2
<1>3. (IF call.batch THEN cmds = Commands(il) ELSE WholeToken /\ il = NLayers)'
  <2>1. CASE call.batch
    <3>1. PICK l : l = il /\ l = il'
      OBVIOUS
    <3>2. cmds = Commands(l)
      BY <2>1, <3>1 DEF HostSound
    <3>3. cmds' = Commands(l)'
      BY <1>1, <3>2
    <3>4. cmds' = Commands(il)'
      BY <3>1, <3>3
    <3>5. QED BY <2>1, <3>4 DEF host
  <2>2. CASE ~call.batch
    <3>1. \A d : Follower(d)' = Follower(d)
      BY <1>1 DEF Follower
    <3>2. WholeToken'
      BY <1>1, <2>2, <3>1 DEF HostSound, WholeToken
    <3>3. QED BY <2>2, <3>2 DEF HostSound, host
  <2>3. QED BY <2>1, <2>2
<1>4. (\A i \in 1..Len(cmds) : Sound(cmds[i]))'
  BY <1>2
<1>5. pc' # "record" /\ pc' # "zero" /\ pc' # "begin" /\ pc' # "read"
  OBVIOUS
<1>6. QED BY <1>3, <1>4, <1>5 DEF HostSound

LEMMA StateTyped ==
  ASSUME Typed
  PROVE  TypeOK /\ DeviceTypes /\ done \in Nat /\ Len(cmds) \in Nat
BY LenProperties DEF Typed, TypeOK, DeviceTypes

HostPlaces == {"idle", "zero", "upload", "begin", "record", "submit", "wait", "read"}

LEMMA TypedFrame ==
  ASSUME Typed, UNCHANGED <<host, device>>, open' \in BOOLEAN, il' \in 0..NLayers,
         pc' \in HostPlaces, cmds' \in Seq(AnyCommand), Len(cmds') <= MaxSets,
         done' \in 0..Len(cmds')
  PROVE  Typed'
BY DEF Typed, TypeOK, host, device, HostPlaces

LEMMA ExecuteStep ==
  ASSUME IInv, Execute
  PROVE  IInv'
<1> USE DEF Execute, recording
<1>1. /\ Typed /\ CallSound /\ HostSound /\ pc = "wait" /\ pc' = "wait"
      /\ UNCHANGED <<host, il, cmds, open>>
  BY DEF IInv
<1>2. PICK n \in Nat : n = done /\ n < Len(cmds) /\ n + 1 \in 1..Len(cmds) /\ Len(cmds) \in Nat
  BY <1>1, StateTyped
<1>3. PICK d : d = cmds[n + 1]
  OBVIOUS
<1>4. Sound(d)
  BY <1>1, <1>2, <1>3 DEF HostSound
<1>5. AtCommand(d)
  BY <1>1, <1>2, <1>3 DEF IInv, DeviceRight
<1>6. Store(d) \/ Attend(d) \/ Recur(d) \/ Norm(d)
  BY <1>2, <1>3
<1>7. DeviceTypes' /\ Behind(d)'
  BY <1>1, <1>4, <1>5, <1>6, DeviceMoves
<1>8. Typed'
  <2>1. \A l \in SsmLayers : \A j \in 1..Len(state'[l]) : state'[l][j] \in Windows
    BY <1>7, ElementOfSeq DEF DeviceTypes
  <2>2. TypeOK'
    BY <1>1, <1>2, <1>7, <2>1 DEF Typed, TypeOK, DeviceTypes, host
  <2>3. QED BY <1>1, <1>7, <2>2 DEF Typed, DeviceTypes
<1>9. CallSound' /\ EqualsTokenLoop'
  BY <1>1, CallFrame
<1>10. HostSound'
  BY <1>1, RecordingFrame
<1>11. DeviceRight'
  <2>1. CASE n + 1 < Len(cmds)
    <3>1. PICK i \in 1..(Len(cmds) - 1) : i = n + 1
      BY <1>2, <2>1
    <3>2. PICK e : e = cmds[i + 1]
      OBVIOUS
    <3>3. AtCommand(e)'
      BY <1>1, <1>3, <1>7, <3>1, <3>2, NextCommand
    <3>4. done' < Len(cmds') /\ cmds'[done' + 1] = e
      BY <1>1, <1>2, <2>1, <3>1, <3>2
    <3>5. QED BY <1>1, <3>3, <3>4 DEF DeviceRight
  <2>2. CASE ~(n + 1 < Len(cmds))
    <3>1. n + 1 = Len(cmds) /\ ~(done' < Len(cmds'))
      BY <1>1, <1>2, <2>2
    <3>2. PICK l \in 0..NLayers : il = l /\ il' = l
      BY <1>1 DEF Typed, TypeOK
    <3>3. IF l < NLayers THEN StandsAt(l + 1, 0, FALSE)' ELSE StandsAt(NLayers, 0, FALSE)'
      BY <1>1, <1>3, <1>7, <3>1, <3>2, LastCommand
    <3>4. QED BY <1>1, <3>1, <3>2, <3>3 DEF DeviceRight
  <2>3. QED BY <2>1, <2>2
<1>12. QED BY <1>8, <1>9, <1>10, <1>11 DEF IInv

LEMMA SubmitStep ==
  ASSUME IInv, Submit
  PROVE  IInv'
<1> USE DEF Submit, recording
<1>1. /\ Typed /\ CallSound /\ HostSound /\ pc = "submit" /\ pc' = "wait"
      /\ UNCHANGED <<host, il, cmds, done, open, device, hidden>>
  BY DEF IInv
<1>2. Typed'
  BY <1>1 DEF Typed, TypeOK, host, device
<1>3. CallSound' /\ EqualsTokenLoop'
  BY <1>1, CallFrame
<1>4. HostSound'
  BY <1>1, RecordingFrame
<1>5. PICK l \in 0..NLayers : l = IF call.batch THEN il ELSE 0
  BY <1>1, LayerFacts DEF Typed, TypeOK
<1>6. StandsAt(l, 0, FALSE)'
  <2>1. StandsAt(IF call.batch THEN il ELSE 0, 0, FALSE)
    BY <1>1 DEF IInv, DeviceRight
  <2>2. StandsAt(l, 0, FALSE)
    BY <1>5, <2>1
  <2>3. QED BY <1>1, <2>2, AtFrame
<1>7. Len(cmds) \in Nat \ {0} /\ cmds[1] = Commands(l)[1]
  <2>1. CASE call.batch
    <3>1. cmds = Commands(l)
      BY <1>1, <1>5, <2>1 DEF HostSound
    <3>2. QED BY <1>1, <3>1, CommandFacts DEF Typed
  <2>2. CASE ~call.batch
    <3>1. WholeToken /\ l = 0
      BY <1>1, <1>5, <2>2 DEF HostSound
    <3>2. cmds # <<>> /\ cmds[1] = Commands(0)[1] /\ cmds \in Seq(AnyCommand)
      BY <1>1, <3>1 DEF WholeToken, Typed
    <3>3. Len(cmds) \in Nat \ {0}
      BY <3>2, EmptySeq
    <3>4. QED BY <3>1, <3>2, <3>3
  <2>3. QED BY <2>1, <2>2
<1>8. PICK d : d = cmds[1]
  OBVIOUS
<1>9. AtCommand(d)'
  BY <1>1, <1>6, <1>7, <1>8, FirstCommand DEF Typed
<1>10. done' < Len(cmds') /\ cmds'[done' + 1] = d
  <2>1. done = 0
    BY <1>1 DEF HostSound
  <2>2. QED BY <1>1, <1>7, <1>8, <2>1
<1>11. DeviceRight'
  BY <1>1, <1>9, <1>10 DEF DeviceRight
<1>12. QED BY <1>2, <1>3, <1>4, <1>11 DEF IInv

LEMMA RecBeginStep ==
  ASSUME IInv, RecBegin
  PROVE  IInv'
<1> USE DEF RecBegin, Begun
<1>1. /\ Typed /\ CallSound /\ HostSound /\ pc = "begin" /\ pc' = "record"
      /\ UNCHANGED <<host, il, done, device, hidden>> /\ cmds' = <<>> /\ done = 0
  BY DEF IInv, HostSound
<1>2. Typed'
  BY <1>1, DeviceAssumption DEF Typed, TypeOK, host, device
<1>3. CallSound' /\ EqualsTokenLoop'
  BY <1>1, CallFrame
<1>4. HostSound'
  <2>1. RecordedSoFar'
    BY <1>1 DEF HostSound, RecordedSoFar, host
  <2>2. Len(cmds') = 0
    BY <1>1
  <2>3. QED BY <1>1, <2>1, <2>2 DEF HostSound
<1>5. DeviceRight'
  <2>1. PICK l : l = IF call.batch THEN il ELSE 0
    OBVIOUS
  <2>2. StandsAt(IF call.batch THEN il ELSE 0, 0, FALSE)
    BY <1>1 DEF IInv, DeviceRight
  <2>3. StandsAt(l, 0, FALSE)'
    BY <1>1, <2>1, <2>2, AtFrame
  <2>4. l = IF call'.batch THEN il' ELSE 0
    BY <1>1, <2>1 DEF host
  <2>5. QED BY <1>1, <2>3, <2>4 DEF DeviceRight
<1>6. QED BY <1>2, <1>3, <1>4, <1>5 DEF IInv

LEMMA FenceStep ==
  ASSUME IInv, Fence
  PROVE  IInv'
<1> USE DEF Fence
<1>1. /\ Typed /\ CallSound /\ HostSound /\ pc = "wait" /\ done = Len(cmds)
      /\ UNCHANGED <<host, device, hidden>> /\ cmds' = <<>> /\ done' = 0 /\ open' = FALSE
      /\ pc' \in {"read", "begin"} /\ ~(done < Len(cmds))
  <2>1. Len(cmds) \in Nat
    BY StateTyped DEF IInv
  <2>2. QED BY <2>1 DEF IInv
<1>2. PICK l \in 0..NLayers : il = l
  BY <1>1 DEF Typed, TypeOK
<1>3. IF l < NLayers THEN StandsAt(l + 1, 0, FALSE) ELSE StandsAt(NLayers, 0, FALSE)
  BY <1>1, <1>2 DEF IInv, DeviceRight
<1>4. CallSound' /\ EqualsTokenLoop'
  BY <1>1, CallFrame
<1>5. /\ Typed /\ UNCHANGED <<host, device>> /\ open' \in BOOLEAN
      /\ cmds' \in Seq(AnyCommand) /\ Len(cmds') <= MaxSets /\ done' \in 0..Len(cmds')
  <2>1. cmds' \in Seq(AnyCommand) /\ Len(cmds') = 0
    BY <1>1
  <2>2. Len(cmds') <= MaxSets /\ done' \in 0..Len(cmds')
    BY <1>1, <2>1, DeviceAssumption
  <2>3. open' \in BOOLEAN
    BY <1>1
  <2>4. QED BY <1>1, <2>1, <2>2, <2>3
<1>6. CASE l = NLayers
  <2>1. pc' = "read" /\ il' = NLayers
    BY <1>2, <1>6
  <2>2. Typed'
    BY <1>5, <1>2, <1>6, <2>1, TypedFrame DEF HostPlaces
  <2>3. HostSound'
    BY <1>1, <2>1 DEF HostSound
  <2>4. StandsAt(NLayers, 0, FALSE)'
    <3>1. ~(l < NLayers)
      BY <1>6, LayerFacts
    <3>2. StandsAt(NLayers, 0, FALSE)
      BY <1>3, <3>1
    <3>3. QED BY <1>1, <3>2, AtFrame
  <2>5. DeviceRight'
    BY <2>1, <2>4 DEF DeviceRight
  <2>6. QED BY <1>4, <2>2, <2>3, <2>5 DEF IInv
<1>7. CASE l # NLayers
  <2>1. PICK m \in 0..NLayers : m = l + 1
    BY <1>7, LayerFacts
  <2>2. pc' = "begin" /\ il' = m /\ l < NLayers /\ call.batch /\ call'.batch
    BY <1>1, <1>2, <1>7, <2>1, LayerFacts DEF HostSound, host
  <2>3. Typed'
    BY <1>5, <2>2, TypedFrame DEF HostPlaces
  <2>4. HostSound'
    BY <1>1, <2>2 DEF HostSound
  <2>5. StandsAt(m, 0, FALSE)'
    BY <1>1, <1>3, <2>1, <2>2, AtFrame
  <2>6. DeviceRight'
    BY <2>2, <2>5 DEF DeviceRight
  <2>7. QED BY <1>4, <2>3, <2>4, <2>6 DEF IInv
<1>8. QED BY <1>6, <1>7

\* Every command but the last is followed by the one that belongs behind it.
Chained(s) == \A i \in 1..(Len(s) - 1) : s[i].op # "norm" /\ s[i + 1] = Follower(s[i])

LEMMA ChainGrows ==
  ASSUME NEW S, NEW s \in Seq(S), NEW t \in Seq(S), Chained(s), Chained(t), t # <<>>,
         s # <<>> => s[Len(s)].op # "norm" /\ t[1] = Follower(s[Len(s)])
  PROVE  /\ Chained(s \o t) /\ s \o t # <<>> /\ s \o t \in Seq(S)
         /\ Len(s \o t) = Len(s) + Len(t) /\ Len(s) \in Nat /\ Len(t) \in Nat \ {0}
         /\ (s \o t)[1] = IF s = <<>> THEN t[1] ELSE s[1]
         /\ (s \o t)[Len(s \o t)] = t[Len(t)]
<1>1. /\ Len(s) \in Nat /\ Len(t) \in Nat \ {0} /\ (s # <<>> => Len(s) # 0)
      /\ (s = <<>> => Len(s) = 0)
  BY EmptySeq, LenProperties
<1>2. PICK m \in Nat, n \in Nat \ {0} : m = Len(s) /\ n = Len(t)
  BY <1>1
<1>3. PICK u : u = s \o t
  OBVIOUS
<1>4. /\ u \in Seq(S) /\ Len(u) = m + n
      /\ \A i \in 1..(m + n) : u[i] = IF i <= m THEN s[i] ELSE t[i - m]
  BY <1>2, <1>3, ConcatProperties
<1>5. Chained(u)
  <2> SUFFICES ASSUME NEW i \in 1..((m + n) - 1)
               PROVE  u[i].op # "norm" /\ u[i + 1] = Follower(u[i])
    BY <1>4 DEF Chained
  <2>1. CASE i < m
    <3>1. i \in 1..(Len(s) - 1) /\ u[i] = s[i] /\ u[i + 1] = s[i + 1]
      BY <1>2, <1>4, <2>1
    <3>2. QED BY <3>1 DEF Chained
  <2>2. CASE i = m
    <3>1. s # <<>>
      BY <1>1, <1>2, <2>2
    <3>2. u[i] = s[Len(s)] /\ u[i + 1] = t[1]
      BY <1>2, <1>4, <2>2
    <3>3. QED BY <3>1, <3>2
  <2>3. CASE i > m
    <3>1. /\ i - m \in 1..(n - 1) /\ ~(i <= m) /\ ~(i + 1 <= m)
          /\ i \in 1..(m + n) /\ i + 1 \in 1..(m + n) /\ (i + 1) - m = (i - m) + 1
      BY <1>2, <2>3
    <3>2. u[i] = t[i - m] /\ u[i + 1] = t[(i - m) + 1]
      BY <1>4, <3>1
    <3>3. PICK j \in 1..(Len(t) - 1) : j = i - m
      BY <1>2, <3>1
    <3>4. t[j].op # "norm" /\ t[j + 1] = Follower(t[j])
      BY DEF Chained
    <3>5. QED BY <3>2, <3>3, <3>4
  <2>4. QED BY <2>1, <2>2, <2>3
<1>6. u[1] = IF s = <<>> THEN t[1] ELSE s[1]
  BY <1>1, <1>2, <1>4
<1>7. u[m + n] = t[n]
  <2>1. m + n \in 1..(m + n) /\ ~(m + n <= m) /\ (m + n) - m = n
    BY <1>2
  <2>2. QED BY <1>4, <2>1
<1>8. u # <<>>
  BY <1>2, <1>4
<1>9. QED BY <1>1, <1>2, <1>3, <1>4, <1>5, <1>6, <1>7, <1>8

\* One layer of a token's recording.
LEMMA TokenLayer ==
  ASSUME TypeOK, CallSound, pc # "idle", ~call.batch, NEW l \in 0..NLayers
  PROVE  /\ Chained(Commands(l))
         /\ l \in Layers => /\ Commands(l)[Len(Commands(l))].op \in {"attend", "recur"}
                            /\ Commands(l)[Len(Commands(l))].layer = l
         /\ l = NLayers => Commands(l)[Len(Commands(l))] = Commands(NLayers)[1]
<1>1. PICK w \in Nat : w = Width /\ w = 1
  BY CallFacts
<1>2. 0 \in 0..(w - 1)
  BY <1>1
<1>3. CASE l = NLayers
  <2>1. Len(Commands(l)) = 1
    BY <1>3, CommandFacts
  <2>2. QED BY <1>3, <2>1, LayerFacts DEF Chained
<1>4. CASE l \in AttnLayers
  <2>1. Len(Commands(l)) = 2
    BY <1>1, <1>4, AttnCommands
  <2>2. /\ Commands(l)[2 * 0 + 1] = Command("store", l, 0)
        /\ Commands(l)[2 * 0 + 2] = Command("attend", l, 0)
    BY <1>1, <1>2, <1>4, AttnCommands
  <2>3. Commands(l)[1] = Command("store", l, 0) /\ Commands(l)[2] = Command("attend", l, 0)
    BY <2>2
  <2>4. Chained(Commands(l))
    <3>1. Commands(l)[1].op # "norm" /\ Commands(l)[2] = Follower(Commands(l)[1])
      BY <2>3, Fields, FollowerFacts
    <3>2. \A i \in 1..(Len(Commands(l)) - 1) : i = 1 /\ i + 1 = 2
      BY <2>1
    <3>3. QED BY <3>1, <3>2 DEF Chained
  <2>5. Commands(l)[2].op = "attend" /\ Commands(l)[2].layer = l
    BY <2>3, Fields
  <2>6. QED BY <1>4, <2>1, <2>4, <2>5, LayerFacts
<1>5. CASE l \in SsmLayers
  <2>1. Len(Commands(l)) = 1
    BY <1>1, <1>5, SsmCommands
  <2>2. Commands(l)[1] = Command("recur", l, 0)
    BY <1>5, CommandFacts
  <2>3. Commands(l)[1].op = "recur" /\ Commands(l)[1].layer = l
    BY <2>2, Fields
  <2>4. Chained(Commands(l))
    BY <2>1 DEF Chained
  <2>5. QED BY <1>5, <2>1, <2>3, <2>4, LayerFacts
<1>6. l = NLayers \/ l \in AttnLayers \/ l \in SsmLayers
  <2>1. l = NLayers \/ l \in Layers
    BY ShapeAssumption DEF Layers
  <2>2. QED BY <2>1, LayerFacts
<1>7. QED BY <1>3, <1>4, <1>5, <1>6

LEMMA RecordStep ==
  ASSUME IInv, Record
  PROVE  IInv'
<1>1. /\ Typed /\ TypeOK /\ CallSound /\ HostSound /\ pc = "record" /\ pc' \in {"record", "submit"}
      /\ UNCHANGED <<host, open, done, device, hidden>> /\ done = 0 /\ RecordedSoFar
  BY DEF IInv, Record, Typed, HostSound
<1>2. PICK l \in 0..NLayers : l = il
  BY <1>1 DEF TypeOK
<1>3. PICK k : k = Commands(l)
  OBVIOUS
<1>4. /\ k \in Seq(AnyCommand) /\ Len(k) \in Nat \ {0} /\ k # <<>>
      /\ \A i \in 1..Len(k) : Sound(k[i])
  <2>1. /\ k \in Seq(AnyCommand) /\ Len(k) \in Nat \ {0}
        /\ \A i \in 1..Len(k) : Sound(k[i])
    BY <1>1, <1>3, CommandFacts
  <2>2. QED BY <2>1
<1>5. /\ cmds' = cmds \o k /\ Len(cmds) + Len(k) <= MaxSets
      /\ IF call.batch \/ l = NLayers THEN pc' = "submit" /\ il' = l
                                      ELSE pc' = "record" /\ il' = l + 1
  BY <1>1, <1>2, <1>3 DEF Record, Room
<1>6. cmds \in Seq(AnyCommand) /\ Len(cmds) \in Nat
  BY <1>1, LenProperties DEF Typed
<1>7. /\ cmds' \in Seq(AnyCommand) /\ Len(cmds') = Len(cmds) + Len(k)
      /\ \A i \in 1..Len(cmds') : cmds'[i] = IF i <= Len(cmds) THEN cmds[i] ELSE k[i - Len(cmds)]
  BY <1>4, <1>5, <1>6, ConcatProperties
<1>8. Typed'
  <2>1. il' \in 0..NLayers
    BY <1>2, <1>5, LayerFacts
  <2>2. Len(cmds') <= MaxSets /\ done' \in 0..Len(cmds')
    BY <1>1, <1>4, <1>5, <1>6, <1>7
  <2>3. open' \in BOOLEAN
    BY <1>1 DEF TypeOK
  <2>4. QED BY <1>1, <1>7, <2>1, <2>2, <2>3, TypedFrame DEF HostPlaces
<1>9. /\ CallSound' /\ EqualsTokenLoop'
      /\ \A m : Commands(m)' = Commands(m)
      /\ \A d : Sound(d) => Sound(d)'
  BY <1>1, CallFrame
<1>10. \A d : Follower(d)' = Follower(d)
  BY <1>9 DEF Follower
<1>11. (\A i \in 1..Len(cmds) : Sound(cmds[i]))'
  <2> SUFFICES ASSUME NEW i \in 1..Len(cmds')
               PROVE  Sound(cmds[i])'
    OBVIOUS
  <2>1. PICK d : d = cmds'[i]
    OBVIOUS
  <2>2. CASE i <= Len(cmds)
    <3>1. d = cmds[i] /\ i \in 1..Len(cmds)
      BY <1>6, <1>7, <2>1, <2>2
    <3>2. Sound(d)
      BY <1>1, <3>1 DEF HostSound
    <3>3. QED BY <1>9, <2>1, <3>2
  <2>3. CASE ~(i <= Len(cmds))
    <3>1. PICK j \in 1..Len(k) : j = i - Len(cmds)
      BY <1>4, <1>6, <1>7, <2>3
    <3>2. d = k[j]
      BY <1>7, <2>1, <2>3, <3>1
    <3>3. Sound(d)
      BY <1>4, <3>2
    <3>4. QED BY <1>9, <2>1, <3>3
  <2>4. QED BY <2>2, <2>3
<1>12. CASE call.batch
  <2>1. cmds = <<>> /\ pc' = "submit" /\ il' = l /\ call'.batch
    BY <1>1, <1>5, <1>12 DEF RecordedSoFar, host
  <2>2. cmds' = k
    BY <1>4, <1>5, <2>1, ConcatEmptySeq
  <2>3. k = Commands(l)'
    BY <1>3, <1>9
  <2>4. cmds' = Commands(il)'
    BY <2>1, <2>2, <2>3
  <2>5. HostSound'
    BY <1>1, <1>11, <2>1, <2>4 DEF HostSound
  <2>6. StandsAt(l, 0, FALSE)
    BY <1>1, <1>2, <1>12 DEF IInv, DeviceRight
  <2>7. StandsAt(l, 0, FALSE)'
    BY <1>1, <2>6, AtFrame
  <2>8. DeviceRight'
    BY <2>1, <2>7 DEF DeviceRight
  <2>9. QED BY <1>8, <1>9, <2>5, <2>8 DEF IInv
<1>13. CASE ~call.batch
  <2>1. ~call'.batch
    BY <1>1, <1>13 DEF host
  <2>2. /\ Chained(cmds)
        /\ cmds # <<>> => /\ l # 0 /\ cmds[1] = Commands(0)[1]
                          /\ cmds[Len(cmds)].op # "norm" /\ k[1] = Follower(cmds[Len(cmds)])
        /\ cmds = <<>> => l = 0
    <3>1. CASE l = 0
      <4>1. cmds = <<>>
        BY <1>1, <1>2, <3>1 DEF RecordedSoFar
      <4>2. Len(cmds) = 0
        BY <4>1
      <4>3. QED BY <3>1, <4>1, <4>2 DEF Chained
    <3>2. CASE l # 0
      <4>1. /\ cmds # <<>> /\ cmds[1] = Commands(0)[1] /\ Chained(cmds)
            /\ cmds[Len(cmds)].op \in {"attend", "recur"} /\ cmds[Len(cmds)].layer = l - 1
        BY <1>1, <1>2, <1>13, <3>2 DEF RecordedSoFar, Chained
      <4>2. PICK d : d = cmds[Len(cmds)]
        OBVIOUS
      <4>3. d.op # "store" /\ d.layer = l - 1 /\ (l - 1) + 1 = l
        BY <4>1, <4>2
      <4>4. Follower(d) = Commands(l)[1]
        BY <4>3 DEF Follower
      <4>5. QED BY <1>3, <3>2, <4>1, <4>2, <4>4
    <3>3. QED BY <3>1, <3>2
  <2>3. /\ Chained(k)
        /\ l \in Layers => k[Len(k)].op \in {"attend", "recur"} /\ k[Len(k)].layer = l
        /\ l = NLayers => k[Len(k)] = Commands(NLayers)[1]
    BY <1>1, <1>3, <1>13, TokenLayer
  <2>4. PICK a : a = cmds /\ a \in Seq(AnyCommand)
    BY <1>6
  <2>5. /\ Chained(a \o k) /\ a \o k # <<>>
        /\ (a \o k)[1] = IF a = <<>> THEN k[1] ELSE a[1]
        /\ (a \o k)[Len(a \o k)] = k[Len(k)]
    BY <1>4, <2>2, <2>3, <2>4, ChainGrows
  <2>6. PICK u : u = a \o k /\ u = cmds'
    BY <1>5, <2>4
  <2>7. u # <<>> /\ u[1] = Commands(0)[1] /\ u[Len(u)] = k[Len(k)] /\ Chained(u)
    BY <1>3, <2>2, <2>4, <2>5, <2>6
  <2>8. /\ \A i \in 1..(Len(u) - 1) : u[i].op # "norm" /\ u[i + 1] = Follower(u[i])'
    BY <1>10, <2>7 DEF Chained
  <2>9. StandsAt(0, 0, FALSE)'
    <3>1. StandsAt(0, 0, FALSE)
      BY <1>1, <1>13 DEF IInv, DeviceRight
    <3>2. QED BY <1>1, <3>1, AtFrame
  <2>10. DeviceRight'
    BY <1>1, <2>1, <2>9 DEF DeviceRight
  <2>11. CASE l = NLayers
    <3>1. pc' = "submit" /\ il' = NLayers
      BY <1>5, <2>11
    <3>2. u[Len(u)] = Commands(NLayers)[1]
      BY <2>3, <2>7, <2>11
    <3>3. WholeToken'
      BY <1>9, <2>6, <2>7, <2>8, <3>2 DEF WholeToken
    <3>4. HostSound'
      BY <1>1, <1>11, <2>1, <3>1, <3>3 DEF HostSound
    <3>5. QED BY <1>8, <1>9, <2>10, <3>4 DEF IInv
  <2>12. CASE l # NLayers
    <3>1. l \in Layers /\ pc' = "record" /\ il' = l + 1 /\ il' # 0 /\ il' - 1 = l
      BY <1>5, <1>13, <2>12, LayerFacts
    <3>2. u[Len(u)].op \in {"attend", "recur"} /\ u[Len(u)].layer = l
      BY <2>3, <2>7, <3>1
    <3>3. RecordedSoFar'
      BY <1>9, <2>1, <2>6, <2>7, <2>8, <3>1, <3>2 DEF RecordedSoFar
    <3>4. HostSound'
      BY <1>1, <1>11, <2>1, <3>1, <3>3 DEF HostSound
    <3>5. QED BY <1>8, <1>9, <2>10, <3>4 DEF IInv
  <2>13. QED BY <2>11, <2>12
<1>14. QED BY <1>12, <1>13

-----------------------------------------------------------------------------
\* Before its first token a layer holds nothing.
LEMMA NothingHeld ==
  ASSUME NEW l \in SsmLayers, conv'[l] = ZeroConv, state'[l] = <<>>
  PROVE  NetHeld(l, 0)'
<1>1. Len(state'[l]) = 0 /\ NPrev \in Nat
  BY ShapeAssumption
<1>2. ASSUME NEW i \in 1..NPrev
      PROVE  conv'[l][i] = WindowInput(l, whole', 0 + 1, i)
  <2>1. ~((0 + 1) + i > NPrev + 1)
    BY <1>1
  <2>2. conv'[l][i] = Zero
    BY DEF ZeroConv
  <2>3. QED BY <2>1, <2>2 DEF WindowInput
<1>3. \A j \in 1..0 : WindowIs(l, state'[l][j], whole', j)
  OBVIOUS
<1>4. QED BY <1>1, <1>2, <1>3 DEF NetHeld

LEMMA DigestFacts ==
  /\ <<>> \in Digests /\ <<Bad>> \in Digests
  /\ \A t \in Token : <<t>> \in Digests
  /\ ZeroConv \in [1..NPrev -> Digests]
  /\ NoColumns \in [Positions -> Digests]
  /\ NoRow \in [in : Digests, pos : Positions \cup {-1}]
<1>1. ASSUME NEW t \in Token \cup {Bad}
      PROVE  <<t>> \in Digests
  <2>1. <<t>> \in [1..1 -> Token \cup {Bad}] /\ 1 \in 0..NCtx
    BY DeviceAssumption
  <2>2. QED BY <2>1 DEF Digests
<1>2. <<>> \in Digests
  <2>1. <<>> \in [1..0 -> Token \cup {Bad}] /\ 0 \in 0..NCtx
    BY DeviceAssumption
  <2>2. QED BY <2>1 DEF Digests
<1>3. ZeroConv \in [1..NPrev -> Digests]
  BY <1>2 DEF ZeroConv, Zero
<1>4. NoColumns \in [Positions -> Digests]
  BY <1>1 DEF NoColumns
<1>5. NoRow \in [in : Digests, pos : Positions \cup {-1}]
  BY <1>1 DEF NoRow, Row
<1>6. QED BY <1>1, <1>2, <1>3, <1>4, <1>5

LEMMA ZeroLayerStep ==
  ASSUME IInv, ZeroLayer
  PROVE  IInv'
<1>1. /\ Typed /\ TypeOK /\ CallSound /\ HostSound /\ pc = "zero" /\ pc' \in {"zero", "upload"}
      /\ UNCHANGED <<host, open, cmds, done, act, hidden>> /\ done = 0
  BY DEF IInv, ZeroLayer, Typed, HostSound, recording
<1>2. PICK l \in Layers : l = il /\ base = 0 /\ fed = <<>>
  BY <1>1, LayerFacts DEF HostSound, TypeOK
<1>3. CallSound' /\ EqualsTokenLoop' /\ whole' = whole
  BY <1>1, CallFrame
<1>4. il' \in 0..NLayers /\ (pc' = "zero" => il' = l + 1 /\ l + 1 < NLayers)
      /\ (pc' = "upload" => l = NLayers - 1)
  BY <1>1, <1>2, LayerFacts DEF ZeroLayer
<1>5. HostSound'
  BY <1>1, <1>2, <1>4 DEF HostSound, host
<1>6. DeviceTypes'
  <2>1. CASE l \in AttnLayers
    <3>1. /\ cache' = [cache EXCEPT ![l] = [st \in Stores |->
               IF st \in Zeroed THEN [p \in Positions |-> NoRow] ELSE cache[l][st]]]
          /\ UNCHANGED <<conv, state>>
      BY <1>2, <2>1 DEF ZeroLayer
    <3>2. PICK Kept : Kept = [in : Digests, pos : Positions \cup {-1}]
      OBVIOUS
    <3>3. cache \in [AttnLayers -> [Stores -> [Positions -> Kept]]] /\ NoRow \in Kept
      BY <1>1, <3>2, DigestFacts DEF TypeOK
    <3>4. cache' \in [AttnLayers -> [Stores -> [Positions -> Kept]]]
      BY <3>1, <3>3
    <3>5. QED BY <1>1, <3>1, <3>2, <3>4 DEF DeviceTypes, Typed, TypeOK
  <2>2. CASE l \notin AttnLayers
    <3>1. /\ conv' = [conv EXCEPT ![l] = ZeroConv] /\ state' = [state EXCEPT ![l] = <<>>]
          /\ UNCHANGED cache
      BY <1>2, <2>2 DEF ZeroLayer, ZeroState
    <3>2. <<>> \in Seq(Windows)
      OBVIOUS
    <3>3. QED BY <1>1, <3>1, <3>2, DigestFacts DEF DeviceTypes, Typed, TypeOK
  <2>3. QED BY <2>1, <2>2
<1>7. Typed'
  <2>1. \A m \in SsmLayers : \A j \in 1..Len(state'[m]) : state'[m][j] \in Windows
    BY <1>6, ElementOfSeq DEF DeviceTypes
  <2>2. TypeOK'
    BY <1>1, <1>4, <1>6, <2>1 DEF TypeOK, DeviceTypes, host
  <2>3. QED BY <1>1, <1>6, <2>2 DEF Typed, DeviceTypes
<1>8. ASSUME NEW m \in SsmLayers, m <= l
      PROVE  NetHeld(m, 0)'
  <2>1. CASE m = l
    <3>1. l \notin AttnLayers
      BY <2>1, LayerFacts
    <3>2. conv' = [conv EXCEPT ![l] = ZeroConv] /\ state' = [state EXCEPT ![l] = <<>>]
      BY <1>2, <3>1 DEF ZeroLayer, ZeroState
    <3>3. conv'[m] = ZeroConv /\ state'[m] = <<>>
      BY <1>1, <2>1, <3>2 DEF Typed, TypeOK
    <3>4. QED BY <3>3, NothingHeld
  <2>2. CASE m # l
    <3>1. NetHeld(m, 0)
      <4>1. m < l
        BY <1>8, <2>2, LayerFacts
      <4>2. QED BY <1>1, <1>2, <4>1 DEF IInv, DeviceRight
    <3>2. conv'[m] = conv[m] /\ state'[m] = state[m]
      <4>1. CASE l \in AttnLayers
        BY <1>2, <4>1 DEF ZeroLayer
      <4>2. CASE l \notin AttnLayers
        <5>1. conv' = [conv EXCEPT ![l] = ZeroConv] /\ state' = [state EXCEPT ![l] = <<>>]
          BY <1>2, <4>2 DEF ZeroLayer, ZeroState
        <5>2. QED BY <1>1, <2>2, <5>1 DEF Typed, TypeOK
      <4>3. QED BY <4>1, <4>2
    <3>3. QED BY <1>3, <3>1, <3>2 DEF NetHeld
  <2>3. QED BY <2>1, <2>2
<1>9. DeviceRight'
  <2>1. CASE pc' = "zero"
    <3>1. \A m \in SsmLayers : m < il' => m <= l
      BY <1>2, <1>4, <2>1, LayerFacts
    <3>2. QED BY <1>8, <2>1, <3>1 DEF DeviceRight
  <2>2. CASE pc' = "upload"
    <3>1. \A m \in SsmLayers : NetHeld(m, 0)'
      <4>1. \A m \in SsmLayers : m <= l
        BY <1>4, <2>2, LayerFacts DEF Layers
      <4>2. QED BY <1>8, <4>1
    <3>2. base' = 0
      BY <1>1, <1>2 DEF host
    <3>3. (\A m \in AttnLayers : RowsHeld(m, base))'
      <4>1. ~(\E p : p \in 0..(base' - 1))
        BY <3>2
      <4>2. QED BY <4>1 DEF RowsHeld
    <3>4. (\A m \in SsmLayers : NetHeld(m, base))'
      <4>1. PICK z : z = 0 /\ z = base'
        BY <3>2
      <4>2. \A m \in SsmLayers : NetHeld(m, z)'
        BY <3>1, <4>1, Zenon
      <4>3. QED BY <4>1, <4>2
    <3>5. AllHeld(base)'
      BY <3>3, <3>4 DEF AllHeld
    <3>6. QED BY <2>2, <3>5 DEF DeviceRight
  <2>3. QED BY <1>1, <2>1, <2>2
<1>10. QED BY <1>3, <1>5, <1>7, <1>9 DEF IInv

LEMMA UploadStep ==
  ASSUME IInv, Upload
  PROVE  IInv'
<1>1. /\ Typed /\ TypeOK /\ CallSound /\ HostSound /\ pc = "upload" /\ pc' = "begin" /\ il' = 0
      /\ UNCHANGED <<host, open, cmds, done, cache, conv, state, hidden>> /\ done = 0
  BY DEF IInv, Upload, Typed, HostSound, recording
<1>2. PICK w \in Nat \ {0}, b \in Nat : w = Width /\ b = base
  BY <1>1, CallFacts
<1>3. CallSound' /\ EqualsTokenLoop' /\ whole' = whole /\ Width' = Width /\ base' = base
  BY <1>1, CallFrame DEF host
<1>4. /\ whole \in Seq(Token) /\ Len(whole) \in Nat /\ b + w <= Len(whole)
      /\ Len(whole) <= NCtx /\ NCtx \in Nat
      /\ Len(whole) = Len(fed) + Len(call.toks)
  BY <1>1, <1>2, CallFacts, DeviceAssumption
<1>5. ASSUME NEW c \in 0..(w - 1)
      PROVE  /\ call.toks[base - Len(fed) + c + 1] = whole[base + c + 1]
             /\ whole[base + c + 1] \in Token /\ c \in Positions
  <2>1. PICK f \in Nat, n \in Nat : f = Len(fed) /\ n = Len(call.toks) /\ b + w <= f + n
    BY <1>1, <1>4, CallFacts
  <2>2. b >= f
    <3>1. CASE call.batch
      <4>1. f = 0
        BY <1>1, <2>1, <3>1 DEF CallSound
      <4>2. QED BY <1>2, <4>1
    <3>2. CASE ~call.batch
      BY <1>1, <1>2, <2>1, <3>2 DEF CallSound
    <3>3. QED BY <3>1, <3>2
  <2>3. PICK i \in 1..n : i = b - f + c + 1 /\ f + i = b + c + 1
    <3>1. b - f + c + 1 \in 1..n /\ f + (b - f + c + 1) = b + c + 1
      BY <1>2, <2>1, <2>2
    <3>2. QED BY <3>1
  <2>4. whole[f + i] = call.toks[i]
    BY <1>1, <2>1, <2>3, CallFacts
  <2>5. b + c + 1 \in 1..Len(whole) /\ c \in 0..(NCtx - 1)
    BY <1>2, <1>4
  <2>6. whole[b + c + 1] \in Token
    BY <1>4, <2>5, ElementOfSeq
  <2>7. QED BY <1>2, <2>1, <2>3, <2>4, <2>5, <2>6 DEF Positions
<1>6. act' = [c \in Positions |-> IF c < w THEN <<call.toks[base - Len(fed) + c + 1]>> ELSE act[c]]
  BY <1>2 DEF Upload
<1>7. ASSUME NEW c \in 0..(w - 1)
      PROVE  act'[c] = <<whole[base + c + 1]>>
  <2>1. c < w /\ c \in Positions
    BY <1>2, <1>5
  <2>2. QED BY <1>5, <1>6, <2>1
<1>8. act' \in [Positions -> Digests]
  <2>1. ASSUME NEW c \in Positions, c < w
        PROVE  <<call.toks[base - Len(fed) + c + 1]>> \in Digests
    <3>1. c \in 0..(w - 1)
      BY <1>2, <2>1 DEF Positions
    <3>2. QED BY <1>5, <3>1, DigestFacts
  <2>2. act \in [Positions -> Digests]
    BY <1>1 DEF TypeOK
  <2>3. QED BY <1>6, <2>1, <2>2
<1>9. Typed'
  BY <1>1, <1>8, DeviceAssumption, LayerFacts DEF Typed, TypeOK, host
<1>10. HostSound'
  BY <1>1 DEF HostSound
<1>11. StandsAt(0, 0, FALSE)'
  <2>1. AllHeld(base) /\ Used' = Used
    BY <1>1 DEF IInv, DeviceRight, Used, host
  <2>2. \A m \in Layers : Count(m, 0, 0)' = base
    <3>1. b + 0 = b /\ \A m \in Layers : ~(m < 0)
      BY LayerFacts
    <3>2. QED BY <1>2, <1>3, <3>1 DEF Count
  <2>3. \A m \in AttnLayers : RowsHeld(m, Count(m, 0, 0))'
    BY <1>1, <1>3, <2>1, <2>2, LayerFacts DEF AllHeld, RowsHeld
  <2>4. \A m \in SsmLayers : NetHeld(m, Count(m, 0, 0))'
    BY <1>1, <1>3, <2>1, <2>2, LayerFacts DEF AllHeld, NetHeld
  <2>5. ASSUME NEW k \in 0..(Width' - 1)
        PROVE  act'[k] = InputAt(IF k < 0 THEN 0 + 1 ELSE 0, whole', base' + k + 1)
    <3>1. k \in 0..(w - 1) /\ ~(k < 0)
      BY <1>2, <1>3
    <3>2. QED BY <1>3, <1>7, <3>1 DEF InputAt
  <2>6. QED BY <2>3, <2>4, <2>5 DEF StandsAt
<1>12. DeviceRight'
  BY <1>1, <1>11 DEF DeviceRight
<1>13. QED BY <1>3, <1>9, <1>10, <1>12 DEF IInv

\* An error ends the call wherever it is and gives the sequence up.
LEMMA FailStep ==
  ASSUME IInv, Fail
  PROVE  IInv'
<1>1. /\ Typed /\ TypeOK /\ CallSound /\ HostSound /\ pc # "idle" /\ pc' = "idle"
      /\ call' = NoCall /\ base' = 0 /\ il' = 0 /\ done' = 0 /\ act' = NoColumns /\ fed' = <<>>
      /\ UNCHANGED <<mode, open, cache, conv, state, hidden>>
  BY DEF IInv, Fail, Leave, Typed
<1>2. PICK l \in 0..NLayers : l = il
  BY <1>1 DEF TypeOK
<1>3. cmds \in Seq(AnyCommand) /\ Len(cmds) \in Nat /\ Len(cmds) <= MaxSets
  BY <1>1, LenProperties DEF Typed, TypeOK
<1>4. cmds' \in Seq(AnyCommand) /\ Len(cmds') \in Nat /\ Len(cmds') <= MaxSets
  <2>1. CASE UNCHANGED cmds
    BY <1>3, <2>1
  <2>2. CASE cmds' = <<>>
    <3>1. <<>> \in Seq(AnyCommand) /\ Len(<<>>) = 0
      OBVIOUS
    <3>2. QED BY <2>2, <3>1, DeviceAssumption
  <2>3. ASSUME NEW n \in 1..Len(Commands(l)),
               Len(cmds) + n <= MaxSets, cmds' = cmds \o SubSeq(Commands(l), 1, n)
        PROVE  cmds' \in Seq(AnyCommand) /\ Len(cmds') \in Nat /\ Len(cmds') <= MaxSets
    <3>1. PICK k \in Seq(AnyCommand) : k = Commands(l) /\ Len(k) \in Nat
      BY <1>1, CommandFacts
    <3>2. \A i \in 1..n : k[i] \in AnyCommand
      <4>1. \A i \in 1..n : i \in 1..Len(k)
        BY <3>1
      <4>2. QED BY <4>1, ElementOfSeq
    <3>3. SubSeq(k, 1, n) \in Seq(AnyCommand) /\ Len(SubSeq(k, 1, n)) = n /\ n \in Nat
      BY <3>1, <3>2, SubSeqProperties
    <3>4. PICK s \in Seq(AnyCommand) : s = SubSeq(k, 1, n) /\ Len(s) = n
      BY <3>3
    <3>5. cmds' = cmds \o s
      BY <2>3, <3>1, <3>4
    <3>6. cmds' \in Seq(AnyCommand) /\ Len(cmds') = Len(cmds) + n
      BY <1>3, <3>4, <3>5, ConcatProperties
    <3>7. QED BY <1>3, <2>3, <3>3, <3>6
  <2>4. QED BY <1>2, <2>1, <2>2, <2>3 DEF Fail
<1>5. Typed'
  <2>1. fed' \in Seq(Token) /\ Len(fed') <= NCtx
    <3>1. <<>> \in Seq(Token) /\ Len(<<>>) = 0
      OBVIOUS
    <3>2. QED BY <1>1, <3>1, DeviceAssumption
  <2>2. 0 \in 0..NCtx /\ 0 \in 0..NLayers /\ done' \in 0..Len(cmds')
    BY <1>1, <1>4, DeviceAssumption, LayerFacts
  <2>3. TypeOK'
    BY <1>1, <1>4, <2>1, <2>2, DigestFacts DEF TypeOK
  <2>4. QED BY <1>1, <1>4, <2>3 DEF Typed
<1>6. CallSound' /\ HostSound' /\ DeviceRight' /\ EqualsTokenLoop'
  BY <1>1 DEF CallSound, HostSound, DeviceRight, EqualsTokenLoop, CachesAsTokenLoop, HiddenRight
<1>7. QED BY <1>5, <1>6 DEF IInv

\* A longer sequence keeps what its layers hold of the tokens it begins with.
LEMMA HeldLonger ==
  ASSUME whole \in Seq(Token), whole' \in Seq(Token), UNCHANGED <<mode, cache, conv, state>>,
         NEW n \in Nat, n <= Len(whole), n <= Len(whole'),
         \A i \in 1..n : whole'[i] = whole[i],
         AllHeld(n)
  PROVE  AllHeld(n)'
<1>1. Used' = Used /\ NPrev \in Nat \ {0}
  BY ShapeAssumption DEF Used
<1>2. ASSUME NEW l, NEW j \in 1..n
      PROVE  InputAt(l, whole', j) = InputAt(l, whole, j)
  BY InputStays
<1>3. ASSUME NEW l \in AttnLayers
      PROVE  RowsHeld(l, n)'
  <2>1. \A p \in 0..(n - 1) : p + 1 \in 1..n
    OBVIOUS
  <2>2. \A p \in 0..(n - 1) : InputAt(l, whole', p + 1) = InputAt(l, whole, p + 1)
    BY <1>2, <2>1
  <2>3. RowsHeld(l, n)
    BY DEF AllHeld
  <2>4. QED BY <1>1, <2>2, <2>3 DEF RowsHeld
<1>4. ASSUME NEW l \in SsmLayers
      PROVE  NetHeld(l, n)'
  <2>1. ASSUME NEW j \in 1..(n + 1), NEW i \in 1..(NPrev + 1), j + i <= n + NPrev + 1
        PROVE  WindowInput(l, whole', j, i) = WindowInput(l, whole, j, i)
    <3>1. CASE j + i > NPrev + 1
      <4>1. j + i - NPrev - 1 \in 1..n
        BY <1>1, <2>1, <3>1
      <4>2. QED BY <1>2, <3>1, <4>1 DEF WindowInput
    <3>2. CASE ~(j + i > NPrev + 1)
      BY <3>2 DEF WindowInput
    <3>3. QED BY <3>1, <3>2
  <2>2. NetHeld(l, n)
    BY DEF AllHeld
  <2>3. ASSUME NEW i \in 1..NPrev
        PROVE  conv'[l][i] = WindowInput(l, whole', n + 1, i)
    <3>1. n + 1 \in 1..(n + 1) /\ i \in 1..(NPrev + 1) /\ (n + 1) + i <= n + NPrev + 1
      BY <1>1
    <3>2. QED BY <2>1, <2>2, <3>1 DEF NetHeld
  <2>4. ASSUME NEW j \in 1..n, NEW i \in 1..(NPrev + 1)
        PROVE  state'[l][j][i] = WindowInput(l, whole', j, i)
    <3>1. j \in 1..(n + 1) /\ j + i <= n + NPrev + 1
      BY <1>1
    <3>2. state[l][j][i] = WindowInput(l, whole, j, i)
      BY <2>2 DEF NetHeld, WindowIs
    <3>3. QED BY <2>1, <3>1, <3>2
  <2>5. QED BY <2>2, <2>3, <2>4 DEF NetHeld, WindowIs
<1>5. QED BY <1>3, <1>4 DEF AllHeld

LEMMA StartStep ==
  ASSUME IInv, NEW batch \in BOOLEAN, NEW toks \in Seq(Token), NEW width \in Nat \ {0},
         NEW pos \in Nat, pos \in {0, Len(fed)}, pos + Len(toks) <= NCtx, Len(toks) \in Nat \ {0},
         batch => mode = "f32" /\ pos = 0, ~batch => Len(toks) = 1,
         Start(batch, toks, width, pos)
  PROVE  IInv'
<1>1. /\ Typed /\ TypeOK /\ CallSound /\ HostSound /\ pc = "idle" /\ pc' \in {"zero", "upload"}
      /\ call' = [batch |-> batch, toks |-> toks, width |-> width] /\ base' = pos /\ il' = 0
      /\ fed' = SubSeq(fed, 1, pos) /\ pc' = IF pos = 0 THEN "zero" ELSE "upload"
      /\ UNCHANGED <<mode, open, cmds, done, act, cache, conv, state>> /\ done = 0
  BY DEF IInv, Start, Typed, HostSound, recording, device
<1>2. call'.batch = batch /\ call'.toks = toks /\ call'.width = width
  BY <1>1
<1>3. /\ fed \in Seq(Token) /\ Len(fed) \in Nat /\ Len(fed) <= NCtx /\ NCtx \in Nat
      /\ Len(toks) \in Nat
  BY <1>1, LenProperties, DeviceAssumption DEF TypeOK
<1>4. /\ fed' \in Seq(Token) /\ Len(fed') = pos
      /\ pos = 0 => fed' = <<>>
      /\ pos # 0 => fed' = fed /\ pos = Len(fed)
  <2>1. CASE pos = 0
    <3>1. fed' = <<>>
      BY <1>1, <1>3, <2>1, SubSeqEmpty
    <3>2. QED BY <2>1, <3>1
  <2>2. CASE pos # 0
    <3>1. fed' = fed
      BY <1>1, <1>3, <2>2, SubSeqFull
    <3>2. QED BY <1>3, <2>2, <3>1
  <2>3. QED BY <2>1, <2>2
<1>5. Typed'
  <2>1. pos \in 0..NCtx /\ 0 \in 0..NLayers /\ Len(fed') <= NCtx
    BY <1>3, <1>4, LayerFacts
  <2>2. TypeOK'
    BY <1>1, <1>4, <2>1 DEF TypeOK
  <2>3. QED BY <1>1, <2>2 DEF Typed
<1>6. CallSound'
  <2>1. pc' # "idle"
    BY <1>1
  <2>2. batch => mode' = "f32" /\ fed' = <<>> /\ base' < Len(toks)
    BY <1>1, <1>3, <1>4
  <2>3. ~batch => base' = Len(fed') /\ Len(toks) = 1
    BY <1>1, <1>4
  <2>4. Len(fed') + Len(toks) <= NCtx
    BY <1>4
  <2>5. QED BY <1>1, <1>2, <2>1, <2>2, <2>3, <2>4 DEF CallSound
<1>7. HostSound'
  BY <1>1, <1>4, LayerFacts DEF HostSound
<1>8. DeviceRight'
  <2>1. CASE pos = 0
    <3>1. pc' = "zero" /\ \A m \in SsmLayers : ~(m < il')
      BY <1>1, <2>1, LayerFacts
    <3>2. QED BY <3>1 DEF DeviceRight
  <2>2. CASE pos # 0
    <3>1. pc' = "upload" /\ pos = Len(fed) /\ fed' = fed /\ fed # <<>>
      BY <1>1, <1>3, <1>4, <2>2
    <3>2. AllHeld(Len(fed))
      BY <1>1, <3>1 DEF IInv, DeviceRight
    <3>3. AllHeld(pos)
      BY <3>1, <3>2
    <3>4. whole = fed /\ whole \in Seq(Token)
      BY <1>1, CallFacts
    <3>5. whole' = fed \o toks
      BY <1>2, <3>1 DEF whole
    <3>6. /\ fed \o toks \in Seq(Token) /\ Len(fed \o toks) = Len(fed) + Len(toks)
          /\ \A i \in 1..Len(fed) : (fed \o toks)[i] = fed[i]
      BY <1>3, ConcatProperties
    <3>7. /\ whole' \in Seq(Token) /\ pos <= Len(whole) /\ pos <= Len(whole')
          /\ \A i \in 1..pos : whole'[i] = whole[i]
      BY <1>3, <3>1, <3>4, <3>5, <3>6
    <3>8. AllHeld(pos)'
      BY <1>1, <3>3, <3>4, <3>7, HeldLonger
    <3>9. AllHeld(base)'
      BY <1>1, <3>8
    <3>10. QED BY <3>1, <3>9 DEF DeviceRight
  <2>3. QED BY <2>1, <2>2
<1>9. EqualsTokenLoop'
  BY <1>1 DEF EqualsTokenLoop, CachesAsTokenLoop, HiddenRight
<1>10. QED BY <1>5, <1>6, <1>7, <1>8, <1>9 DEF IInv

LEMMA ForwardTokenStep ==
  ASSUME IInv, NEW t \in Token, ForwardToken(t)
  PROVE  IInv'
<1>1. PICK pos \in {0, Len(fed)} : pos < NCtx /\ Start(FALSE, <<t>>, 1, pos)
  BY DEF ForwardToken
<1>2. Len(fed) \in Nat /\ NCtx \in Nat
  BY LenProperties, DeviceAssumption DEF IInv, Typed, TypeOK
<1>3. <<t>> \in Seq(Token) /\ Len(<<t>>) = 1
  OBVIOUS
<1>4. PICK s \in Seq(Token) : s = <<t>> /\ Len(s) = 1
  BY <1>3
<1>5. pos \in Nat /\ pos + Len(s) <= NCtx /\ Len(s) \in Nat \ {0}
  BY <1>1, <1>2, <1>4
<1>6. Start(FALSE, s, 1, pos)
  BY <1>1, <1>4
<1>7. QED BY <1>1, <1>4, <1>5, <1>6, StartStep

LEMMA PrefillStep ==
  ASSUME IInv, NEW s \in Prompts, NEW w \in Widths, Prefill(s, w)
  PROVE  IInv'
<1>1. mode = "f32" /\ Len(s) \in 1..NCtx /\ Start(TRUE, s, Clamped(w, Len(s)), 0)
  BY DEF Prefill
<1>2. s \in Seq(Token)
  <2>1. PICK n \in 1..NCtx : s \in [1..n -> Token]
    BY DEF Prompts
  <2>2. n \in Nat
    BY DeviceAssumption
  <2>3. QED BY <2>1, <2>2, FunIsSeq
<1>3. NCtx \in Nat /\ w \in Nat
  BY DeviceAssumption
<1>4. PICK v \in Nat \ {0} : v = Clamped(w, Len(s))
  BY <1>1, <1>3 DEF Clamped, Least
<1>5. 0 + Len(s) <= NCtx /\ Len(s) \in Nat \ {0}
  BY <1>1, <1>3
<1>6. Start(TRUE, s, v, 0)
  BY <1>1, <1>4
<1>7. QED BY <1>1, <1>2, <1>5, <1>6, StartStep

-----------------------------------------------------------------------------
\* Caches that hold a sequence are what the token loop would have left.
LEMMA HeldIsTokenLoop ==
  ASSUME Typed', AllHeld(Len(fed))', whole' = fed', Len(fed') \in Nat \ {0}
  PROVE  CachesAsTokenLoop'
<1>1. PICK s \in Seq(Token), n \in Nat \ {0} : s = fed' /\ Len(s) = n /\ n <= NCtx
  BY DEF Typed, TypeOK
<1>2. AllHeld(Len(fed))' /\ whole' = s /\ Len(fed') = n
  BY <1>1
<1>3. ASSUME NEW l \in AttnLayers, NEW st \in Used', NEW p \in 0..(n - 1)
      PROVE  cache'[l][st][p] = Row(InputAt(l, s, p + 1), p)
  BY <1>2, <1>3 DEF AllHeld, RowsHeld
<1>4. ASSUME NEW l \in SsmLayers
      PROVE  LET ins == [j \in 1..n |-> InputAt(l, s, j)] IN
             /\ state'[l] = [j \in 1..n |-> WindowAt(ins, j)]
             /\ conv'[l] = Tail(WindowAt(ins, n))
  <2> DEFINE ins == [j \in 1..n |-> InputAt(l, s, j)]
  <2>1. /\ \A i \in 1..NPrev : conv'[l][i] = WindowInput(l, s, n + 1, i)
        /\ Len(state'[l]) = n
        /\ \A j \in 1..n : WindowIs(l, state'[l][j], s, j)
    BY <1>2 DEF AllHeld, NetHeld
  <2>2. PICK ws \in Seq(Windows) : ws = state'[l] /\ Len(ws) = n
    BY <2>1 DEF Typed
  <2>3. n \in 1..Len(s) /\ ins = [j \in 1..n |-> InputAt(l, s, j)]
    BY <1>1
  <2> HIDE DEF ins
  <2>4. \A j \in 1..n : ws[j] \in Windows /\ ws[j] = WindowAt(ins, j)
    <3>1. \A j \in 1..n : ws[j] \in Windows /\ WindowIs(l, ws[j], s, j)
      BY <2>1, <2>2, ElementOfSeq
    <3>2. Len(s) <= NCtx /\ n \in 1..Len(s)
      BY <1>1
    <3>3. QED BY <2>3, <3>1, <3>2, WindowRight
  <2>5. ws = [j \in 1..n |-> WindowAt(ins, j)]
    <3>1. ws = [j \in 1..n |-> ws[j]]
      BY <2>2, LenProperties
    <3>2. QED BY <2>4, <3>1
  <2>6. PICK w \in Seq(Digests) : w = WindowAt(ins, n) /\ Len(w) = NPrev + 1 /\ w = ws[n]
    <3>1. n \in 1..n
      BY <1>1
    <3>2. QED BY <2>4, <3>1, WindowFacts
  <2>7. NPrev \in Nat \ {0} /\ conv'[l] \in [1..NPrev -> Digests]
    BY ShapeAssumption DEF Typed, TypeOK
  <2>8. PICK c \in Seq(Digests) : c = conv'[l] /\ Len(c) = NPrev
    BY <2>7, FunIsSeq
  <2>9. Tail(w) \in Seq(Digests) /\ Len(Tail(w)) = NPrev /\ \A i \in 1..NPrev : Tail(w)[i] = w[i + 1]
    <3>1. w # <<>>
      BY <2>6, <2>7
    <3>2. QED BY <2>6, <2>7, <3>1, HeadTailProperties
  <2>10. ASSUME NEW i \in 1..NPrev
         PROVE  c[i] = Tail(w)[i]
    <3>1. /\ i + 1 \in 1..(NPrev + 1) /\ n \in 1..n
          /\ n + (i + 1) > NPrev + 1 <=> (n + 1) + i > NPrev + 1
          /\ n + (i + 1) - NPrev - 1 = (n + 1) + i - NPrev - 1
      BY <1>1, <2>7
    <3>2. w[i + 1] = WindowInput(l, s, n, i + 1)
      BY <2>1, <2>2, <2>6, <3>1 DEF WindowIs
    <3>3. c[i] = WindowInput(l, s, n + 1, i)
      BY <2>1, <2>8
    <3>4. WindowInput(l, s, n, i + 1) = WindowInput(l, s, n + 1, i)
      BY <3>1 DEF WindowInput
    <3>5. QED BY <2>9, <3>2, <3>3, <3>4
  <2>11. c = Tail(w)
    BY <2>8, <2>9, <2>10, SeqEqual
  <2>12. QED BY <2>2, <2>3, <2>5, <2>6, <2>8, <2>11
<1>5. QED BY <1>1, <1>3, <1>4 DEF CachesAsTokenLoop

LEMMA ReadStep ==
  ASSUME IInv, Read
  PROVE  IInv'
<1>1. /\ Typed /\ TypeOK /\ CallSound /\ HostSound /\ pc = "read" /\ pc' \in {"upload", "idle"}
      /\ UNCHANGED <<mode, open, cmds, cache, conv, state>> /\ done = 0 /\ done' = 0
      /\ StandsAt(NLayers, 0, FALSE)
  BY DEF IInv, Read, Leave, Typed, HostSound, DeviceRight, recording, device
<1>2. PICK w \in Nat \ {0}, b \in Nat, n \in Nat, h \in Nat :
        w = Width /\ b = base /\ n = b + w /\ h = Len(whole)
  <2>1. Width \in Nat \ {0} /\ base \in Nat /\ Len(whole) \in Nat
    BY <1>1, CallFacts
  <2>2. base + Width \in Nat
    BY <2>1
  <2>3. QED BY <2>1, <2>2
<1>3. /\ whole \in Seq(Token) /\ h <= NCtx /\ n <= h /\ NCtx \in Nat
      /\ Len(fed) + Len(call.toks) = h /\ Len(fed) \in Nat /\ Len(call.toks) \in Nat
  BY <1>1, <1>2, CallFacts, DeviceAssumption
<1>4. AllHeld(n)
  <2>1. \A m \in Layers : Count(m, NLayers, 0) = n
    BY <1>2, LayerFacts DEF Count
  <2>2. \A m \in AttnLayers : RowsHeld(m, n)
    BY <1>1, <2>1, LayerFacts DEF StandsAt
  <2>3. \A m \in SsmLayers : NetHeld(m, n)
    BY <1>1, <2>1, LayerFacts DEF StandsAt
  <2>4. QED BY <2>2, <2>3 DEF AllHeld
<1>5. Used' = Used
  BY <1>1 DEF Used
<1>6. CASE call.batch /\ base + Width < Len(call.toks)
  <2>1. pc' = "upload" /\ base' = n /\ UNCHANGED <<fed, call, il, act, hidden>>
    BY <1>2, <1>6 DEF Read, NextBase, device
  <2>2. whole' = whole
    BY <2>1 DEF whole
  <2>3. Typed'
    <3>1. n \in 0..NCtx
      BY <1>2, <1>3
    <3>2. QED BY <1>1, <2>1, <3>1 DEF Typed, TypeOK
  <2>4. CallSound'
    BY <1>1, <1>2, <1>6, <2>1 DEF CallSound
  <2>5. HostSound'
    BY <1>1, <2>1 DEF HostSound
  <2>6. AllHeld(n)'
    BY <1>1, <1>4, <1>5, <2>2 DEF AllHeld, RowsHeld, NetHeld
  <2>7. AllHeld(base)'
    BY <2>1, <2>6
  <2>8. DeviceRight' /\ EqualsTokenLoop'
    BY <2>1, <2>7 DEF DeviceRight, EqualsTokenLoop, CachesAsTokenLoop, HiddenRight
  <2>9. QED BY <2>3, <2>4, <2>5, <2>8 DEF IInv
<1>7. CASE ~(call.batch /\ base + Width < Len(call.toks))
  <2>1. /\ pc' = "idle" /\ hidden' = [i \in 1..Width |-> act[i - 1]] /\ fed' = whole
        /\ call' = NoCall /\ base' = 0 /\ il' = 0 /\ act' = NoColumns
    BY <1>7 DEF Read, Leave, whole
  <2>2. n = h
    <3>1. CASE call.batch
      <4>1. Len(fed) = 0
        BY <1>1, <3>1 DEF CallSound
      <4>2. ~(n < Len(call.toks))
        BY <1>2, <1>7, <3>1
      <4>3. QED BY <1>2, <1>3, <4>1, <4>2
    <3>2. CASE ~call.batch
      <4>1. base = Len(fed) /\ Len(call.toks) = 1 /\ Width = 1
        BY <1>1, <3>2, CallFacts DEF CallSound
      <4>2. QED BY <1>2, <1>3, <4>1
    <3>3. QED BY <3>1, <3>2
  <2>3. whole' = fed' /\ whole' = whole
    <3>1. call'.toks = <<>>
      BY <2>1 DEF NoCall
    <3>2. whole' = whole \o <<>>
      BY <2>1, <3>1 DEF whole
    <3>3. QED BY <1>3, <2>1, <3>2, ConcatEmptySeq
  <2>4. Typed'
    <3>1. Len(fed') <= NCtx /\ fed' \in Seq(Token) /\ 0 \in 0..NCtx /\ 0 \in 0..NLayers
      BY <1>2, <1>3, <2>1, LayerFacts
    <3>2. Len(cmds') \in Nat /\ done' \in 0..Len(cmds')
      BY <1>1, LenProperties DEF Typed
    <3>3. TypeOK'
      BY <1>1, <2>1, <3>1, <3>2, DigestFacts DEF TypeOK
    <3>4. QED BY <1>1, <3>3 DEF Typed
  <2>5. CallSound' /\ HostSound'
    BY <1>1, <2>1 DEF CallSound, HostSound
  <2>6. AllHeld(n)'
    BY <1>1, <1>4, <1>5, <2>3 DEF AllHeld, RowsHeld, NetHeld
  <2>7. Len(fed') = n
    BY <1>2, <2>1, <2>2
  <2>8. AllHeld(Len(fed))'
    BY <2>6, <2>7
  <2>9. DeviceRight'
    BY <2>1, <2>8 DEF DeviceRight
  <2>10. CachesAsTokenLoop'
    BY <1>2, <2>3, <2>4, <2>7, <2>8, HeldIsTokenLoop
  <2>11. ASSUME NEW i \in 1..w
         PROVE  hidden'[i] = SubSeq(whole, 1, b + i) /\ hidden'[i] \in Digests
    <3>1. PICK k \in 0..(w - 1) : k = i - 1 /\ b + k + 1 = b + i /\ ~(k < 0)
      BY <1>2
    <3>2. act[k] = InputAt(NLayers, whole, base + k + 1)
      BY <1>1, <1>2, <3>1 DEF StandsAt
    <3>3. act[k] = SubSeq(whole, 1, b + i)
      BY <1>2, <3>1, <3>2, LayerFacts DEF InputAt
    <3>4. k \in Positions
      BY <1>1, <1>2, ColumnFacts
    <3>5. act[k] \in Digests
      BY <1>1, <3>4 DEF TypeOK
    <3>6. hidden'[i] = act[k]
      BY <1>2, <2>1, <3>1
    <3>7. QED BY <3>3, <3>5, <3>6
  <2>12. Len(hidden') = w
    <3>1. hidden' \in [1..w -> Digests]
      BY <1>2, <2>1, <2>11
    <3>2. QED BY <1>2, <3>1, FunIsSeq
  <2>13. HiddenRight'
    <3>1. w \in 1..n /\ \A i \in 1..w : n - w + i = b + i
      BY <1>2
    <3>2. QED BY <2>1, <2>7, <2>11, <2>12, <3>1 DEF HiddenRight
  <2>14. QED BY <2>4, <2>5, <2>9, <2>10, <2>13 DEF IInv, EqualsTokenLoop
<1>8. QED BY <1>6, <1>7

-----------------------------------------------------------------------------
LEMMA InitIInv == Init => IInv
<1> SUFFICES ASSUME Init PROVE IInv
  OBVIOUS
<1>1. Typed
  <2>1. <<>> \in Seq(Token) /\ <<>> \in Seq(AnyCommand) /\ <<>> \in Seq(Windows) /\ Len(<<>>) = 0
    OBVIOUS
  <2>2. /\ cache \in [AttnLayers -> [Stores -> [Positions -> [in : Digests, pos : Positions \cup {-1}]]]]
        /\ conv \in [SsmLayers -> [1..NPrev -> Digests]]
        /\ state \in [SsmLayers -> Seq(Windows)]
        /\ act \in [Positions -> Digests]
    BY <2>1, DigestFacts DEF Init
  <2>3. \A l \in SsmLayers : \A j \in 1..Len(state[l]) : state[l][j] \in Windows
    BY <2>2, ElementOfSeq
  <2>4. 0 \in 0..NCtx /\ 0 \in 0..NLayers /\ 0 <= MaxSets /\ 0 <= NCtx
    BY DeviceAssumption, LayerFacts
  <2>5. TypeOK
    <3>1. /\ mode \in KvModes /\ open \in BOOLEAN /\ fed \in Seq(Token) /\ Len(fed) <= NCtx
          /\ base \in 0..NCtx /\ il \in 0..NLayers
      BY <2>1, <2>4 DEF Init
    <3>2. Len(cmds) <= MaxSets /\ done \in 0..Len(cmds)
      BY <2>1, <2>4 DEF Init
    <3>3. pc = "idle"
      BY DEF Init
    <3>4. QED BY <2>2, <2>3, <3>1, <3>2, <3>3 DEF TypeOK
  <2>6. QED BY <2>1, <2>2, <2>5 DEF Init, Typed
<1>2. CallSound /\ HostSound /\ DeviceRight /\ EqualsTokenLoop
  BY DEF Init, CallSound, HostSound, DeviceRight, EqualsTokenLoop, CachesAsTokenLoop, HiddenRight
<1>3. QED BY <1>1, <1>2 DEF IInv

\* Nothing changes when no variable does.
LEMMA Stutter ==
  ASSUME IInv, UNCHANGED vars
  PROVE  IInv'
<1> USE DEF vars
<1>1. whole' = whole /\ Width' = Width /\ Used' = Used
  BY DEF whole, Width, Used
<1>2. \A o, l, c : Command(o, l, c)' = Command(o, l, c)
  BY DEF Command, StorePos
<1>3. \A l : Commands(l)' = Commands(l)
  BY <1>1, <1>2 DEF Commands
<1>4. \A d : Sound(d)' = Sound(d) /\ Follower(d)' = Follower(d)
  BY <1>1, <1>2, <1>3 DEF Sound, Follower
<1>5. \A l, n : RowsHeld(l, n)' = RowsHeld(l, n) /\ NetHeld(l, n)' = NetHeld(l, n)
  BY <1>1 DEF RowsHeld, NetHeld
<1>6. \A m, l, n : Count(m, l, n)' = Count(m, l, n)
  BY <1>1 DEF Count
<1>7. \A l, c : \A b \in BOOLEAN : StandsAt(l, c, b)' = StandsAt(l, c, b)
  BY <1>1, <1>5, <1>6 DEF StandsAt, RowsHeld, NetHeld
<1>8. \A n : AllHeld(n)' = AllHeld(n)
  BY <1>5 DEF AllHeld
<1>9. \A d : AtCommand(d)' = AtCommand(d)
  BY <1>7 DEF AtCommand
<1>10. Typed'
  BY DEF IInv, Typed, TypeOK
<1>11. CallSound' /\ EqualsTokenLoop'
  BY <1>1 DEF IInv, CallSound, EqualsTokenLoop, CachesAsTokenLoop, HiddenRight
<1>12. HostSound'
  BY <1>3, <1>4 DEF IInv, HostSound, RecordedSoFar, WholeToken
<1>13. DeviceRight'
  BY <1>5, <1>7, <1>8, <1>9 DEF IInv, DeviceRight
<1>14. QED BY <1>10, <1>11, <1>12, <1>13 DEF IInv

LEMMA NextIInv == IInv /\ [Next]_vars => IInv'
<1> SUFFICES ASSUME IInv, [Next]_vars PROVE IInv'
  OBVIOUS
<1>1. ASSUME NEW t \in Token, ForwardToken(t) PROVE IInv'
  BY <1>1, ForwardTokenStep
<1>2. ASSUME NEW s \in Prompts, NEW w \in Widths, Prefill(s, w) PROVE IInv'
  BY <1>2, PrefillStep
<1>3. CASE Run
  BY <1>3, ZeroLayerStep, UploadStep, RecBeginStep, RecordStep, SubmitStep, ExecuteStep,
     FenceStep, ReadStep, FailStep DEF Run
<1>4. CASE UNCHANGED vars
  BY <1>4, Stutter
<1>5. QED BY <1>1, <1>2, <1>3, <1>4 DEF Next

LEMMA Inductive == Spec => []IInv
BY InitIInv, NextIInv, PTL DEF Spec

\* The buffers, the recording and the caches keep their types in every call,
\* refused, failed or finished.
THEOREM TypeCorrect == Spec => []TypeOK
<1>1. IInv => TypeOK
  BY DEF IInv, Typed
<1>2. QED BY <1>1, Inductive, PTL

\* What is submitted to the device is one whole recording of the call under way,
\* every command in its place behind the one it depends on, whatever an earlier
\* call left in the command buffer (rec_begin, rec_submit, src/vk.rs).
THEOREM WholeRecordings == Spec => []RecordsWhole
<1>1. IInv => RecordsWhole
  BY DEF IInv, Typed, HostSound, RecordsWhole, SubmittedWhole
<1>2. QED BY <1>1, Inductive, PTL

\* After a call, by token or by batch, in windows of any width, the caches and the
\* answers on the device are those of one token after the other (gdev.rs:1330
\* and 1356).
THEOREM DeviceEqualsTokenLoop == Spec => []EqualsTokenLoop
<1>1. IInv => EqualsTokenLoop
  BY DEF IInv
<1>2. QED BY <1>1, Inductive, PTL

-----------------------------------------------------------------------------
\* A product with a positive factor is no smaller than the other factor.
LEMMA MulPositive ==
  ASSUME NEW a \in Nat, NEW b \in Nat, a >= 1 PROVE a * b >= b
  BY SMT

\* Quotient and remainder are determined.
LEMMA DivisionIsUnique ==
  ASSUME NEW n \in Nat, n > 0, NEW q \in Int, NEW r \in Int, NEW u \in Int, NEW v \in Int,
         0 <= r, r < n, 0 <= v, v < n, n * q + r = n * u + v
  PROVE  q = u /\ r = v
<1>1. n * (q - u) = v - r BY SMT
<1>2. q - u < 1
  <2>1. SUFFICES ASSUME q - u >= 1 PROVE FALSE BY SMT
  <2>2. n * (q - u) >= n BY <2>1, SMT
  <2>3. QED BY <1>1, <2>2, SMT
<1>3. u - q < 1
  <2>1. SUFFICES ASSUME u - q >= 1 PROVE FALSE BY SMT
  <2>2. n * (u - q) >= n BY <2>1, SMT
  <2>3. n * (u - q) = -(n * (q - u)) BY SMT
  <2>4. QED BY <1>1, <2>2, <2>3, SMT
<1>4. q = u BY <1>2, <1>3, SMT
<1>5. n * (q - u) = 0 BY <1>4, SMT
<1>6. QED BY <1>1, <1>4, <1>5, SMT

\* What \div and % compute.
LEMMA Division ==
  ASSUME NEW i \in Nat, NEW n \in Nat, n > 0
  PROVE  /\ i \div n \in Int /\ i % n \in Int
         /\ 0 <= i % n /\ i % n < n /\ i = n * (i \div n) + (i % n)
  BY SMT

\* A remainder is recognized by its range.
LEMMA RemainderIs ==
  ASSUME NEW n \in Nat, n > 0, NEW q \in Int, NEW r \in Int, 0 <= r, r < n,
         NEW i \in Nat, i = n * q + r
  PROVE  i % n = r
<1>1. /\ i \div n \in Int /\ i % n \in Int
      /\ 0 <= i % n /\ i % n < n /\ i = n * (i \div n) + (i % n)
  BY Division
<1> DEFINE u == i \div n
           v == i % n
<1>2. /\ u \in Int /\ v \in Int /\ 0 <= v /\ v < n /\ n * q + r = n * u + v
  BY <1>1
<1> HIDE DEF u, v
<1>3. r = v BY <1>2, DivisionIsUnique
<1> QED BY <1>3 DEF v

\* A residue class modulo s is two classes modulo 2 * s.
LEMMA HalfResidue ==
  ASSUME NEW i \in Nat, NEW s \in Nat, s > 0, NEW l \in Nat, l < s
  PROVE  /\ i % s = l => i % (2 * s) = l \/ i % (2 * s) = l + s
         /\ i % (2 * s) = l => i % s = l
         /\ i % (2 * s) = l + s => i % s = l
<1> DEFINE q == i \div (2 * s)
           r == i % (2 * s)
<1>1. /\ q \in Int /\ r \in Int /\ 0 <= r /\ r < 2 * s /\ i = (2 * s) * q + r
  <2>1. 2 * s \in Nat /\ 2 * s > 0 BY SMT
  <2> QED BY <2>1, Division
<1> HIDE DEF q, r
<1>2. CASE r < s
  <2>1. i = s * (2 * q) + r BY <1>1, SMT
  <2>2. 2 * q \in Int BY <1>1, SMT
  <2>3. i % s = r BY <1>1, <1>2, <2>1, <2>2, RemainderIs
  <2> QED BY <1>1, <1>2, <2>3 DEF r
<1>3. CASE r >= s
  <2>1. i = s * (2 * q + 1) + (r - s) BY <1>1, SMT
  <2>2. 2 * q + 1 \in Int /\ r - s \in Int /\ 0 <= r - s /\ r - s < s BY <1>1, <1>3, SMT
  <2> DEFINE a == 2 * q + 1
             b == r - s
  <2>3. i = s * a + b /\ a \in Int /\ b \in Int /\ 0 <= b /\ b < s BY <2>1, <2>2
  <2> HIDE DEF a, b
  <2>4. i % s = b BY <2>3, RemainderIs
  <2> QED BY <1>1, <1>3, <2>4 DEF r, b
<1> QED BY <1>1, <1>2, <1>3, SMT

\* Halving a power of two: 1 ends the tree, anything else leaves no remainder.
LEMMA Halving ==
  ASSUME NEW n \in Nat, n > 0, PowerOfTwo(n)
  PROVE  /\ n = 1 => n \div 2 = 0
         /\ n > 1 => /\ n \div 2 \in Nat /\ n \div 2 > 0 /\ n = 2 * (n \div 2)
                     /\ PowerOfTwo(n \div 2)
<1>1. PICK P \in SUBSET (1..n) : n \in P /\ \A m \in P : m = 1 \/ (m % 2 = 0 /\ m \div 2 \in P)
  BY DEF PowerOfTwo
<1>2. n = 1 => n \div 2 = 0 BY SMT
<1>3. ASSUME n > 1
      PROVE  /\ n \div 2 \in Nat /\ n \div 2 > 0 /\ n = 2 * (n \div 2) /\ PowerOfTwo(n \div 2)
  <2>1. n % 2 = 0 /\ n \div 2 \in P BY <1>1, <1>3
  <2>2. n \div 2 \in Nat /\ n \div 2 > 0 /\ n = 2 * (n \div 2) BY <2>1, <1>1, <1>3, SMT
  <2> DEFINE h == n \div 2
             Q == P \cap (1..h)
  <2>3. h \in Q BY <2>1, <2>2, <1>1, SMT
  <2>4. ASSUME NEW m \in Q PROVE m = 1 \/ (m % 2 = 0 /\ m \div 2 \in Q)
    <3>1. m \in P /\ m \in 1..h /\ h \in Nat BY <2>2
    <3>2. m = 1 \/ (m % 2 = 0 /\ m \div 2 \in P) BY <1>1, <3>1
    <3>3. m % 2 = 0 /\ m # 1 => m \div 2 \in 1..h
      <4> HIDE DEF h
      <4> QED BY <3>1, SMT
    <3> QED BY <3>2, <3>3
  <2>5. Q \in SUBSET (1..h) OBVIOUS
  <2> HIDE DEF Q
  <2> QED BY <2>2, <2>3, <2>4, <2>5 DEF PowerOfTwo, h
<1> QED BY <1>2, <1>3
-----------------------------------------------------------------------------
\* The kernels that add up a row: all but softmax_row and softmax_inplace.
SumKernels == {"rms_norm", "norm_rows", "l2_inplace", "pq2_rowsum", "pq2_rowsum_n",
               "pq2_matvec_fused"}
Scales == kernel \in {"rms_norm", "norm_rows"}
Normalizes == kernel = "l2_inplace"
SumsRow == kernel \in {"pq2_rowsum", "pq2_rowsum_n", "pq2_matvec_fused"}

\* Where a lane stands when it is through.
Through == IF Scales THEN 9 ELSE IF Normalizes THEN 7 ELSE 6

Number == [op : {"unset", "sum", "scale"}, of : [0..(row - 1) -> Nat]]
Places == 0..(IF row > Columns THEN row ELSE Columns)

Shapes ==
  /\ kernel \in SumKernels /\ row \in Nat \ {0} /\ spare \in BOOLEAN
  /\ ip \in [Lane -> 0..Through]
  /\ stride \in [Lane -> Nat] /\ column \in [Lane -> 1..LastColumn] /\ met \in [Lane -> Nat]
  /\ red \in [Lane -> Number]
  /\ seen = [l \in Lane |-> seen[l]]
  /\ written = [i \in Places |-> written[i]]

\* Where a lane is in its program goes with its registers.
Registers(l) ==
  /\ ip[l] = 0 <=> spare
  /\ ip[l] = 2 => stride[l] = Lanes \div 2
  /\ ip[l] \in {3, 4} => stride[l] > 0 /\ PowerOfTwo(stride[l]) /\ 2 * stride[l] <= Lanes
  /\ SumsRow /\ ip[l] = 6 => column[l] = LastColumn

\* The stretch between two barriers a lane is in: the column, and the stride of
\* the tree; Lanes stands for the stretch before the tree, and for the one behind
\* the tree of the column before.
EraColumn == [l \in Lane |-> IF ip[l] >= 5 THEN column[l] + 1 ELSE column[l]]
EraStride == [l \in Lane |-> IF ip[l] \in {3, 4} THEN stride[l]
                             ELSE IF Scales /\ ip[l] >= 7 THEN Lanes \div 2 ELSE Lanes]
Waiting == {l \in Lane : Waits(l)}

Follows(c, s, d, t) == IF s > 1 THEN d = c /\ t = s \div 2 ELSE d = c + 1 /\ t = Lanes

\* Lanes that have passed as many barriers are in one stretch; a lane is one
\* stretch ahead of another at most, and only of one that waits.
Agree(M, C, S, W) ==
  \A l, m \in Lane :
    /\ M[l] <= M[m] + 1
    /\ M[l] = M[m] => C[l] = C[m] /\ S[l] = S[m]
    /\ M[l] = M[m] + 1 => m \in W /\ Follows(C[m], S[m], C[l], S[l])

Residue(l, s) == {i \in 0..(row - 1) : i % s = l}
Partial(l, s) == Covers("sum", Residue(l, s))

\* What a lane's own place holds.
Slot(l) ==
  /\ ip[l] = 2 => red[l] = Partial(l, Lanes)
  /\ ip[l] = 3 => (l < 2 * stride[l] => red[l] = Partial(l, 2 * stride[l]))
  /\ ip[l] = 4 => /\ l < stride[l] => red[l] = Partial(l, stride[l])
                  /\ stride[l] <= l /\ l < 2 * stride[l] => red[l] = Partial(l, 2 * stride[l])
  /\ l = 0 /\ ip[l] >= 5 => red[l] = RowTotal(IF Scales /\ ip[l] >= 6 THEN "scale" ELSE "sum")

\* What a lane has read, and put in memory.
Reads(l) ==
  /\ Scales => seen[l] = IF ip[l] >= 8 THEN <<RowTotal("scale")>> ELSE <<>>
  /\ Normalizes => seen[l] = IF ip[l] >= 6 THEN <<RowTotal("sum")>> ELSE <<>>

Writes(l) ==
  /\ ByRow /\ ip[l] = Through => \A i \in Residue(l, Lanes) : written[i] = Expected
  /\ SumsRow /\ l = 0 /\ ~spare =>
       \A j \in 1..(IF ip[l] = 6 THEN LastColumn ELSE column[l] - 1) : written[j] = Expected

WgInv ==
  /\ Shapes
  /\ \A l \in Lane : Registers(l)
  /\ Agree(met, EraColumn, EraStride, Waiting)
  /\ \A l \in Lane : Slot(l)
  /\ \A l \in Lane : Reads(l)
  /\ \A l \in Lane : Writes(l)
  /\ spare => \A i \in Places : written[i] = <<>>
-----------------------------------------------------------------------------
\* A kernel that sums is of one of three shapes.
LEMMA Kinds == Shapes => Scales \/ Normalizes \/ SumsRow
BY DEF Shapes, SumKernels, Scales, Normalizes, SumsRow

\* A fold of two partial sums covers both residue classes, each element once.
LEMMA CombinesHalves ==
  ASSUME row \in Nat, NEW s \in Nat, s > 0, NEW l \in Nat, l < s
  PROVE  Combined(Partial(l, 2 * s), Partial(l + s, 2 * s)) = Partial(l, s)
<1> DEFINE I == 0..(row - 1)
           A == [i \in I |-> IF i \in Residue(l, 2 * s) THEN 1 ELSE 0]
           B == [i \in I |-> IF i \in Residue(l + s, 2 * s) THEN 1 ELSE 0]
           H == [i \in I |-> IF i \in Residue(l, s) THEN 1 ELSE 0]
<1>1. ASSUME NEW i \in I PROVE A[i] + B[i] = H[i]
  <2>1. /\ i % s = l => i % (2 * s) = l \/ i % (2 * s) = l + s
        /\ i % (2 * s) = l => i % s = l
        /\ i % (2 * s) = l + s => i % s = l
    <3>1. i \in Nat BY SMT
    <3> HIDE DEF A, B, H, I
    <3> QED BY <3>1, HalfResidue
  <2> DEFINE x == i % s
             y == i % (2 * s)
  <2>2. A[i] = (IF y = l THEN 1 ELSE 0) /\ B[i] = (IF y = l + s THEN 1 ELSE 0)
        /\ H[i] = (IF x = l THEN 1 ELSE 0)
    BY DEF Residue
  <2>3. /\ x = l => y = l \/ y = l + s
        /\ y = l => x = l
        /\ y = l + s => x = l
    BY <2>1
  <2> HIDE DEF A, B, H, x, y
  <2> QED BY <2>2, <2>3, SMT
<1>2. [i \in I |-> A[i] + B[i]] = H
  <2>1. \A i \in I : A[i] + B[i] = H[i] BY <1>1
  <2>2. H = [i \in I |-> H[i]] OBVIOUS
  <2> HIDE DEF A, B, H
  <2> QED BY <2>1, <2>2, Zenon
<1>3. /\ Partial(l, 2 * s) = [op |-> "sum", of |-> A]
      /\ Partial(l + s, 2 * s) = [op |-> "sum", of |-> B]
      /\ Partial(l, s) = [op |-> "sum", of |-> H]
      /\ DOMAIN A = I
  BY DEF Partial, Covers
<1> HIDE DEF A, B, H, I
<1>4. Combined([op |-> "sum", of |-> A], [op |-> "sum", of |-> B])
        = [op |-> "sum", of |-> [i \in DOMAIN A |-> A[i] + B[i]]]
  BY DEF Combined
<1> QED BY <1>2, <1>3, <1>4

\* Modulo 1 there is one class, the row.
LEMMA WholeRow ==
  ASSUME row \in Nat PROVE Partial(0, 1) = RowTotal("sum")
<1>1. ASSUME NEW i \in 0..(row - 1) PROVE i % 1 = 0
  <2>1. i \in Nat /\ i = 1 * i + 0 BY SMT
  <2> QED BY <2>1, RemainderIs
<1>2. Residue(0, 1) = 0..(row - 1) BY <1>1 DEF Residue
<1> QED BY <1>2 DEF Partial, RowTotal

\* What Covers makes is a number.
LEMMA CoversType ==
  ASSUME NEW S, NEW o \in {"unset", "sum", "scale"}
  PROVE  Covers(o, S) \in Number
BY DEF Covers, Number

\* A program that begins with a reduction.
Reduces(p) == p[1] = StoreOwn("sum") /\ p[2] = Sync /\ p[3] = Fold /\ p[4] = Turn

\* The three programs, instruction by instruction.
LEMMA Instructions ==
  /\ Scales => /\ Len(Shader) = 8 /\ DOMAIN Shader = 1..8 /\ Reduces(Shader)
               /\ Shader[5] = Scale /\ Shader[6] = Sync /\ Shader[7] = Peek /\ Shader[8] = Write
  /\ Normalizes => /\ Len(Shader) = 6 /\ DOMAIN Shader = 1..6 /\ Reduces(Shader)
                   /\ Shader[5] = Peek /\ Shader[6] = Write
  /\ SumsRow => /\ Len(Shader) = 5 /\ DOMAIN Shader = 1..5 /\ Reduces(Shader)
             /\ Shader[5] = Emit
<1> DEFINE X == {StoreOwn("sum"), Sync, Fold, Turn, Scale, Peek, Emit, Write}
           r == Reduce("sum")
<1>1. r \in Seq(X) /\ Len(r) = 4 /\ Reduces(r)
  BY DEF Reduce, Reduces
<1>2. ASSUME NEW t \in Seq(X)
      PROVE  /\ Len(r \o t) = 4 + Len(t) /\ DOMAIN (r \o t) = 1..(4 + Len(t))
             /\ Reduces(r \o t)
             /\ \A i \in 1..Len(t) : (r \o t)[4 + i] = t[i]
  <2> HIDE DEF r, X
  <2>1. /\ Len(r \o t) = 4 + Len(t) /\ DOMAIN (r \o t) = 1..(4 + Len(t))
        /\ \A i \in 1..4 : (r \o t)[i] = r[i]
        /\ \A i \in 1..Len(t) : (r \o t)[4 + i] = t[i]
    <3>1. r \in Seq(X) /\ t \in Seq(X) BY <1>1
    <3>2. r \o t \in Seq(X) /\ Len(r \o t) = Len(r) + Len(t) BY <3>1
    <3>3. \A i \in 1..Len(r) : (r \o t)[i] = r[i] BY <3>1
    <3>4. \A i \in 1..Len(t) : (r \o t)[Len(r) + i] = t[i] BY <3>1
    <3>5. DOMAIN (r \o t) = 1..Len(r \o t) BY <3>2
    <3>6. Len(r) = 4 BY <1>1
    <3> QED BY <3>2, <3>3, <3>4, <3>5, <3>6, Zenon
  <2>2. r[1] = (r \o t)[1] /\ r[2] = (r \o t)[2] /\ r[3] = (r \o t)[3] /\ r[4] = (r \o t)[4]
    BY <2>1
  <2>3. Reduces(r \o t) BY <1>1, <2>2, Zenon DEF Reduces
  <2> QED BY <2>1, <2>3
<1>3. ASSUME Scales
      PROVE  /\ Len(Shader) = 8 /\ DOMAIN Shader = 1..8 /\ Reduces(Shader)
             /\ Shader[5] = Scale /\ Shader[6] = Sync /\ Shader[7] = Peek /\ Shader[8] = Write
  <2> DEFINE t == <<Scale, Sync, Peek, Write>>
  <2>1. Shader = r \o t BY <1>3 DEF Scales, Shader, RmsNormShader
  <2>2. t \in Seq(X) /\ Len(t) = 4 /\ t[1] = Scale /\ t[2] = Sync /\ t[3] = Peek /\ t[4] = Write
    OBVIOUS
  <2> HIDE DEF t, r, X
  <2>3. \A i \in 1..4 : Shader[4 + i] = t[i] BY <1>2, <2>1, <2>2
  <2>4. Shader[4 + 1] = t[1] /\ Shader[4 + 2] = t[2] /\ Shader[4 + 3] = t[3] /\ Shader[4 + 4] = t[4]
    BY <2>3
  <2>5. Len(Shader) = 4 + Len(t) /\ DOMAIN Shader = 1..(4 + Len(t)) /\ Reduces(Shader)
    BY <1>2, <2>1, <2>2, Zenon
  <2> QED BY <2>2, <2>4, <2>5
<1>4. ASSUME Normalizes
      PROVE  /\ Len(Shader) = 6 /\ DOMAIN Shader = 1..6 /\ Reduces(Shader)
             /\ Shader[5] = Peek /\ Shader[6] = Write
  <2> DEFINE t == <<Peek, Write>>
  <2>1. Shader = r \o t BY <1>4 DEF Normalizes, Shader, L2Inplace
  <2>2. t \in Seq(X) /\ Len(t) = 2 /\ t[1] = Peek /\ t[2] = Write OBVIOUS
  <2> HIDE DEF t, r, X
  <2>3. \A i \in 1..2 : Shader[4 + i] = t[i] BY <1>2, <2>1, <2>2
  <2>4. Shader[4 + 1] = t[1] /\ Shader[4 + 2] = t[2] BY <2>3
  <2>5. Len(Shader) = 4 + Len(t) /\ DOMAIN Shader = 1..(4 + Len(t)) /\ Reduces(Shader)
    BY <1>2, <2>1, <2>2, Zenon
  <2> QED BY <2>2, <2>4, <2>5
<1>5. ASSUME SumsRow
      PROVE  /\ Len(Shader) = 5 /\ DOMAIN Shader = 1..5 /\ Reduces(Shader) /\ Shader[5] = Emit
  <2> DEFINE t == <<Emit>>
  <2>1. Shader = r \o t BY <1>5 DEF SumsRow, Shader, RowSum
  <2>2. t \in Seq(X) /\ Len(t) = 1 /\ t[1] = Emit OBVIOUS
  <2> HIDE DEF t, r, X
  <2>3. \A i \in 1..1 : Shader[4 + i] = t[i] BY <1>2, <2>1, <2>2
  <2>4. Shader[4 + 1] = t[1] BY <2>3
  <2>5. Len(Shader) = 4 + Len(t) /\ DOMAIN Shader = 1..(4 + Len(t)) /\ Reduces(Shader)
    BY <1>2, <2>1, <2>2, Zenon
  <2> QED BY <2>2, <2>4, <2>5
<1> QED BY <1>3, <1>4, <1>5
-----------------------------------------------------------------------------
\* What a lane does where it stands.
LEMMA StepAt ==
  ASSUME Shapes, NEW l \in Lane, LaneStep(l)
  PROVE  \/ ip[l] = 1 /\ StorePartial(l)
         \/ ip[l] = 2 /\ Meet(l)
         \/ ip[l] = 3 /\ FoldLevel(l)
         \/ ip[l] = 4 /\ NextLevel(l)
         \/ Scales /\ ip[l] = 5 /\ ScaleTotal(l)
         \/ Scales /\ ip[l] = 6 /\ Meet(l)
         \/ Scales /\ ip[l] = 7 /\ ReadTotal(l)
         \/ Scales /\ ip[l] = 8 /\ WriteRow(l)
         \/ Normalizes /\ ip[l] = 5 /\ ReadTotal(l)
         \/ Normalizes /\ ip[l] = 6 /\ WriteRow(l)
         \/ SumsRow /\ ip[l] = 5 /\ EmitTotal(l)
<1> DEFINE do == Shader[ip[l]].do
<1>1. /\ ip[l] \in DOMAIN Shader
      /\ \/ do \in {"barrier"} /\ Meet(l)
         \/ do = "turn" /\ NextLevel(l)
         \/ do = "store" /\ StorePartial(l)
         \/ do = "fold" /\ FoldLevel(l)
         \/ do = "read" /\ ReadTotal(l)
         \/ do = "scale" /\ ScaleTotal(l)
         \/ do = "emit" /\ EmitTotal(l)
         \/ do = "write" /\ WriteRow(l)
  BY DEF LaneStep, Meet, NextLevel, StorePartial, FoldLevel, ReadTotal, ScaleTotal, EmitTotal,
         WriteRow, At
<1>2. \A p \in DOMAIN Shader :
        /\ p = 1 => Shader[p].do = "store"
        /\ p = 2 => Shader[p].do = "barrier"
        /\ p = 3 => Shader[p].do = "fold"
        /\ p = 4 => Shader[p].do = "turn"
        /\ Scales => p \in 1..8 /\ (p = 5 => Shader[p].do = "scale")
                     /\ (p = 6 => Shader[p].do = "barrier")
                     /\ (p = 7 => Shader[p].do = "read") /\ (p = 8 => Shader[p].do = "write")
        /\ Normalizes => p \in 1..6 /\ (p = 5 => Shader[p].do = "read")
                         /\ (p = 6 => Shader[p].do = "write")
        /\ SumsRow => p \in 1..5 /\ (p = 5 => Shader[p].do = "emit")
  BY Instructions, Kinds DEF Reduces, StoreOwn, Sync, Fold, Turn, Scale, Peek, Write, Emit
<1>3. Scales \/ Normalizes \/ SumsRow BY DEF Shapes, SumKernels, Scales, Normalizes, SumsRow
<1> QED BY <1>1, <1>2, <1>3
\* Which instructions are barriers.
LEMMA WaitsWhere ==
  ASSUME Shapes, NEW p \in 0..Through
  PROVE  p \in DOMAIN Shader /\ (Shader[p].do = "barrier" \/ Shader[p].do = "turn")
           <=> p = 2 \/ p = 4 \/ (Scales /\ p = 6)
<1>1. CASE Scales
  <2>1. \A q \in 1..8 : q = 1 \/ q = 2 \/ q = 3 \/ q = 4 \/ q = 5 \/ q = 6 \/ q = 7 \/ q = 8
    OBVIOUS
  <2> QED BY <1>1, <2>1, Instructions DEF Reduces, StoreOwn, Sync, Fold, Turn, Scale, Peek, Write
<1>2. CASE Normalizes
  <2>1. \A q \in 1..6 : q = 1 \/ q = 2 \/ q = 3 \/ q = 4 \/ q = 5 \/ q = 6
    OBVIOUS
  <2>2. ~Scales BY <1>2 DEF Scales, Normalizes
  <2> QED BY <1>2, <2>1, <2>2, Instructions DEF Reduces, StoreOwn, Sync, Fold, Turn, Peek, Write
<1>3. CASE SumsRow
  <2>1. \A q \in 1..5 : q = 1 \/ q = 2 \/ q = 3 \/ q = 4 \/ q = 5
    OBVIOUS
  <2>2. ~Scales BY <1>3 DEF Scales, SumsRow
  <2> QED BY <1>3, <2>1, <2>2, Instructions DEF Reduces, StoreOwn, Sync, Fold, Turn, Emit
<1> QED BY <1>1, <1>2, <1>3, Kinds

\* A step changes neither the program nor what is derived from it and the row.
LEMMA Fixed ==
  ASSUME kernel' = kernel, row' = row
  PROVE  /\ Shader' = Shader /\ Through' = Through /\ LastColumn' = LastColumn
         /\ Scales' = Scales /\ Normalizes' = Normalizes /\ SumsRow' = SumsRow /\ ByRow' = ByRow
         /\ Number' = Number /\ Places' = Places /\ Expected' = Expected
         /\ RowTotal("sum")' = RowTotal("sum") /\ RowTotal("scale")' = RowTotal("scale")
<1>1. Shader' = Shader BY DEF Shader
<1>2. Scales' = Scales /\ Normalizes' = Normalizes /\ SumsRow' = SumsRow /\ ByRow' = ByRow
  BY DEF Scales, Normalizes, SumsRow, ByRow
<1>3. Through' = Through /\ LastColumn' = LastColumn
  BY <1>2 DEF Through, LastColumn
<1>4. Number' = Number /\ Places' = Places
  BY DEF Number, Places
<1>5. /\ RowTotal("sum")' = RowTotal("sum") /\ RowTotal("scale")' = RowTotal("scale")
      /\ RowTotal("max")' = RowTotal("max")
  BY DEF RowTotal, Covers
<1>6. Expected' = Expected
  BY <1>5 DEF Expected
<1> QED BY <1>1, <1>2, <1>3, <1>4, <1>5, <1>6
-----------------------------------------------------------------------------
\* More lanes may wait.
LEMMA WaitingMore ==
  ASSUME NEW M, NEW C, NEW S, NEW W, NEW V, Agree(M, C, S, W), W \subseteq V
  PROVE  Agree(M, C, S, V)
BY DEF Agree

\* A lane that passes a barrier at which, or behind which, all others are leaves
\* the lanes in step.
LEMMA PassesBarrier ==
  ASSUME NEW M \in [Lane -> Nat], NEW C, NEW S, NEW W, NEW V, NEW c, NEW s, NEW l \in Lane,
         C = [m \in Lane |-> C[m]], S = [m \in Lane |-> S[m]],
         Agree(M, C, S, W), \A m \in Lane : M[m] > M[l] \/ (M[m] = M[l] /\ m \in W),
         Follows(C[l], S[l], c, s), \A m \in W : m # l => m \in V
  PROVE  Agree([M EXCEPT ![l] = @ + 1], [C EXCEPT ![l] = c], [S EXCEPT ![l] = s], V)
<1> DEFINE N == [M EXCEPT ![l] = @ + 1]
           D == [C EXCEPT ![l] = c]
           T == [S EXCEPT ![l] = s]
<1>1. /\ N[l] = M[l] + 1 /\ D[l] = c /\ T[l] = s
      /\ \A m \in Lane : m # l => N[m] = M[m] /\ D[m] = C[m] /\ T[m] = S[m]
      /\ \A m \in Lane : M[m] \in Nat
  OBVIOUS
<1> HIDE DEF N, D, T
<1>2. SUFFICES ASSUME NEW x \in Lane, NEW y \in Lane
               PROVE  /\ N[x] <= N[y] + 1
                      /\ N[x] = N[y] => D[x] = D[y] /\ T[x] = T[y]
                      /\ N[x] = N[y] + 1 => y \in V /\ Follows(D[y], T[y], D[x], T[x])
  BY DEF Agree, N, D, T
<1>3. \A a, b \in Lane :
        /\ M[a] <= M[b] + 1
        /\ M[a] = M[b] => C[a] = C[b] /\ S[a] = S[b]
        /\ M[a] = M[b] + 1 => b \in W /\ Follows(C[b], S[b], C[a], S[a])
  BY DEF Agree
<1>4. CASE x = l /\ y = l
  BY <1>1, <1>4
<1>5. CASE x # l /\ y # l
  <2>1. N[x] = M[x] /\ D[x] = C[x] /\ T[x] = S[x] BY <1>1, <1>5
  <2>2. N[y] = M[y] /\ D[y] = C[y] /\ T[y] = S[y] BY <1>1, <1>5
  <2>3. y \in W => y \in V BY <1>5
  <2> QED BY <1>3, <2>1, <2>2, <2>3
<1>6. CASE x = l /\ y # l
  <2>1. N[y] = M[y] /\ D[y] = C[y] /\ T[y] = S[y] BY <1>1, <1>6
  <2>2. M[y] > M[l] \/ (M[y] = M[l] /\ y \in W) OBVIOUS
  <2>3. M[y] <= M[l] + 1 BY <1>3
  <2>4. M[l] \in Nat /\ M[y] \in Nat BY <1>1
  <2>5. CASE M[y] = M[l]
    <3>1. C[y] = C[l] /\ S[y] = S[l] BY <1>3, <2>5
    <3>2. y \in V BY <2>2, <2>4, <2>5, <1>6
    <3> QED BY <1>1, <1>6, <2>1, <2>4, <2>5, <3>1, <3>2
  <2>6. CASE M[y] = M[l] + 1
    <3>1. Follows(C[l], S[l], C[y], S[y]) BY <1>3, <2>6
    <3>2. C[y] = c /\ S[y] = s BY <3>1 DEF Follows
    <3> QED BY <1>1, <1>6, <2>1, <2>4, <2>6, <3>2
  <2> QED BY <2>2, <2>3, <2>4, <2>5, <2>6, SMT
<1>7. CASE x # l /\ y = l
  <2>1. N[x] = M[x] /\ D[x] = C[x] /\ T[x] = S[x] BY <1>1, <1>7
  <2>2. M[x] > M[l] \/ (M[x] = M[l] /\ x \in W) OBVIOUS
  <2>3. M[x] <= M[l] + 1 BY <1>3
  <2>4. M[l] \in Nat /\ M[x] \in Nat BY <1>1
  <2>5. CASE M[x] = M[l]
    BY <1>1, <1>7, <2>1, <2>4, <2>5
  <2>6. CASE M[x] = M[l] + 1
    <3>1. Follows(C[l], S[l], C[x], S[x]) BY <1>3, <2>6
    <3>2. C[x] = c /\ S[x] = s BY <3>1 DEF Follows
    <3> QED BY <1>1, <1>7, <2>1, <2>4, <2>6, <3>2
  <2> QED BY <2>2, <2>3, <2>4, <2>5, <2>6, SMT
<1> QED BY <1>4, <1>5, <1>6, <1>7
-----------------------------------------------------------------------------
\* The size of a workgroup, and the stride the tree begins with.
LEMMA LanesHalve ==
  /\ Lanes \in Nat /\ Lanes > 1 /\ Lanes \div 2 \in Nat /\ Lanes \div 2 > 0
  /\ Lanes = 2 * (Lanes \div 2) /\ PowerOfTwo(Lanes \div 2)
BY WorkgroupAssumption, Halving

\* Lanes are numbers below Lanes.
LEMMA LaneIsNat == \A l \in Lane : l \in Nat /\ l < Lanes
BY LanesHalve DEF Lane

\* Lane 0 exists.
LEMMA ZeroIsLane == 0 \in Lane
BY LanesHalve DEF Lane

\* Who waits, by the place in the program.
LEMMA WaitsAt ==
  ASSUME Shapes, NEW m \in Lane
  PROVE  Waits(m) <=> ip[m] = 2 \/ ip[m] = 4 \/ (Scales /\ ip[m] = 6)
<1>1. ip[m] \in 0..Through BY DEF Shapes
<1> QED BY <1>1, WaitsWhere DEF Waits, At

\* A lane that folds finds the other half as it should be: a lane behind it waits
\* at the barrier before, a lane ahead of it is not possible, and one in the same
\* stretch folds into another place.
LEMMA FoldYields ==
  ASSUME WgInv, NEW l \in Lane, ip[l] = 3, l < stride[l]
  PROVE  /\ l + stride[l] \in Lane
         /\ Combined(red[l], red[l + stride[l]]) = Partial(l, stride[l])
<1> DEFINE s == stride[l]
           m == l + stride[l]
<1>1. /\ s \in Nat /\ s > 0 /\ PowerOfTwo(s) /\ 2 * s <= Lanes
      /\ l \in Nat /\ row \in Nat /\ Lanes \in Nat
  BY LaneIsNat, LanesHalve DEF WgInv, Shapes, Registers
<1>2. m \in Lane /\ m \in Nat /\ s <= m /\ m < 2 * s
  BY <1>1, SMT DEF Lane
<1>3. red[l] = Partial(l, 2 * s)
  <2>1. l < 2 * s BY <1>1
  <2> QED BY <2>1 DEF WgInv, Slot
<1>4. red[m] = Partial(m, 2 * s)
  <2>1. /\ Slot(m) /\ Registers(m) /\ ip[m] \in 0..Through
        /\ column[m] \in 1..LastColumn /\ column[l] \in 1..LastColumn
    BY <1>2 DEF WgInv, Shapes
  <2>2. /\ met[m] <= met[l] + 1 /\ met[l] <= met[m] + 1
        /\ met[l] = met[m] => EraColumn[l] = EraColumn[m] /\ EraStride[l] = EraStride[m]
        /\ met[m] = met[l] + 1 => l \in Waiting
        /\ met[l] = met[m] + 1 =>
             m \in Waiting /\ Follows(EraColumn[m], EraStride[m], EraColumn[l], EraStride[l])
        /\ met[l] \in Nat /\ met[m] \in Nat
    BY <1>2 DEF WgInv, Agree, Shapes
  <2>3. EraColumn[l] = column[l] /\ EraStride[l] = s
    BY DEF EraColumn, EraStride
  <2>4. EraColumn[m] = IF ip[m] >= 5 THEN column[m] + 1 ELSE column[m]
    BY <1>2 DEF EraColumn
  <2>5. EraStride[m] = IF ip[m] \in {3, 4} THEN stride[m]
                       ELSE IF Scales /\ ip[m] >= 7 THEN Lanes \div 2 ELSE Lanes
    BY <1>2 DEF EraStride
  <2>6. Scales => LastColumn = 1
    BY DEF Scales, LastColumn
  <2>7. l \notin Waiting
    BY WaitsAt DEF WgInv, Waiting
  <2>8. CASE met[m] = met[l]
    <3>1. EraColumn[m] = column[l] /\ EraStride[m] = s BY <2>2, <2>3, <2>8
    <3>2. ip[m] \in {3, 4}
      <4>1. SUFFICES ASSUME ip[m] \notin {3, 4} PROVE FALSE OBVIOUS
      <4>2. EraStride[m] # Lanes BY <1>1, <3>1, SMT
      <4>3. Scales /\ ip[m] >= 7 BY <2>5, <4>1, <4>2
      <4>4. EraColumn[m] = column[m] + 1 BY <2>1, <2>4, <4>3
      <4>5. column[m] = 1 /\ column[l] = 1 BY <2>1, <2>6, <4>3
      <4>6. EraColumn[m] = 1 BY <3>1, <4>5, Zenon
      <4>7. EraColumn[m] = 1 + 1 BY <4>4, <4>5, Zenon
      <4>8. 1 + 1 # 1 OBVIOUS
      <4> QED BY <4>6, <4>7, <4>8, Zenon
    <3>3. stride[m] = s BY <2>5, <3>1, <3>2
    <3> QED BY <1>1, <1>2, <2>1, <3>2, <3>3 DEF Slot
  <2>9. CASE met[l] = met[m] + 1
    <3>1. ip[m] = 2 \/ ip[m] = 4 \/ (Scales /\ ip[m] = 6)
      BY <1>2, <2>2, <2>9, WaitsAt DEF WgInv, Waiting
    <3>2. Follows(EraColumn[m], EraStride[m], column[l], s)
      BY <2>2, <2>3, <2>9
    <3>3. EraStride[m] > 1 /\ column[l] = EraColumn[m] /\ s = EraStride[m] \div 2
      <4>1. s # Lanes BY <1>1, SMT
      <4> QED BY <3>2, <4>1 DEF Follows
    <3>4. CASE ip[m] = 2
      <4>1. EraStride[m] = Lanes BY <2>5, <3>4
      <4>2. 2 * s = Lanes BY <3>3, <4>1, LanesHalve
      <4> QED BY <2>1, <3>4, <4>2 DEF Slot
    <3>5. CASE ip[m] = 4
      <4>1. EraStride[m] = stride[m] BY <2>5, <3>5
      <4>2. stride[m] \in Nat /\ stride[m] > 1 /\ PowerOfTwo(stride[m])
        BY <1>2, <2>1, <3>3, <3>5, <4>1 DEF Registers, WgInv, Shapes
      <4>3. stride[m] = 2 * s BY <3>3, <4>1, <4>2, Halving
      <4> QED BY <1>2, <2>1, <3>5, <4>3 DEF Slot
    <3>6. CASE Scales /\ ip[m] = 6
      <4>1. EraColumn[m] = column[m] + 1 BY <2>4, <3>6
      <4>2. column[m] = 1 /\ column[l] = 1 BY <2>1, <2>6, <3>6
      <4> QED BY <3>3, <4>1, <4>2
    <3> QED BY <3>1, <3>4, <3>5, <3>6
  <2> QED BY <2>2, <2>7, <2>8, <2>9, SMT
<1>5. Combined(Partial(l, 2 * s), Partial(l + s, 2 * s)) = Partial(l, s)
  BY <1>1, CombinesHalves
<1> QED BY <1>2, <1>3, <1>4, <1>5

\* Lane 0 when it is through the tree.
LEMMA LastFold ==
  ASSUME WgInv, ip[0] = 4, stride[0] = 1
  PROVE  red[0] = RowTotal("sum")
<1>1. red[0] = Partial(0, 1)
  BY ZeroIsLane DEF WgInv, Slot
<1> QED BY <1>1, WholeRow DEF WgInv, Shapes

\* What lane 0 holds behind the tree.
LEMMA TotalAt ==
  ASSUME WgInv, NEW l \in Lane, l = 0, ip[l] >= 5
  PROVE  /\ Scales /\ ip[l] >= 6 => red[l] = RowTotal("scale")
         /\ ~(Scales /\ ip[l] >= 6) => red[l] = RowTotal("sum")
<1>1. red[l] = RowTotal(IF Scales /\ ip[l] >= 6 THEN "scale" ELSE "sum")
  BY DEF WgInv, Slot
<1> QED BY <1>1

\* What a lane reads from red[0].
LEMMA ReadYields ==
  ASSUME WgInv, NEW l \in Lane, (Scales /\ ip[l] = 7) \/ (Normalizes /\ ip[l] = 5)
  PROVE  red[0] = RowTotal(IF Scales THEN "scale" ELSE "sum")
<1>1. /\ Slot(0) /\ Registers(0) /\ ip[0] \in 0..Through /\ 0 \in Lane
      /\ column[0] \in 1..LastColumn /\ column[l] \in 1..LastColumn
  BY ZeroIsLane DEF WgInv, Shapes
<1>2. LastColumn = 1 /\ ~(Scales /\ Normalizes)
  BY DEF Scales, Normalizes, LastColumn
<1>3. column[0] = 1 /\ column[l] = 1
  BY <1>1, <1>2
<1>4. /\ met[0] <= met[l] + 1 /\ met[l] <= met[0] + 1
      /\ met[l] = met[0] => EraColumn[l] = EraColumn[0] /\ EraStride[l] = EraStride[0]
      /\ met[0] = met[l] + 1 => l \in Waiting
      /\ met[l] = met[0] + 1 =>
           0 \in Waiting /\ Follows(EraColumn[0], EraStride[0], EraColumn[l], EraStride[l])
      /\ met[l] \in Nat /\ met[0] \in Nat
  BY <1>1 DEF WgInv, Agree, Shapes
<1>5. l \notin Waiting
  <2>1. ~Waits(l)
    BY <1>2, WaitsAt DEF WgInv
  <2> QED BY <2>1 DEF Waiting
<1>6. /\ EraColumn[l] = 2 /\ EraStride[l] = IF Scales THEN Lanes \div 2 ELSE Lanes
      /\ EraColumn[0] = IF ip[0] >= 5 THEN 2 ELSE 1
      /\ EraStride[0] = IF ip[0] \in {3, 4} THEN stride[0]
                        ELSE IF Scales /\ ip[0] >= 7 THEN Lanes \div 2 ELSE Lanes
  BY <1>1, <1>2, <1>3 DEF EraColumn, EraStride
<1>7. Lanes \div 2 # Lanes /\ Lanes > 1
  BY LanesHalve
<1>8. CASE met[l] = met[0]
  <2>1. ip[0] >= 5 BY <1>1, <1>4, <1>6, <1>8
  <2>2. Scales => ip[0] >= 7 BY <1>1, <1>4, <1>6, <1>7, <1>8, <2>1
  <2> QED BY <1>1, <2>1, <2>2 DEF Slot
<1>9. CASE met[l] = met[0] + 1
  <2>1. ip[0] = 2 \/ ip[0] = 4 \/ (Scales /\ ip[0] = 6)
    BY <1>1, <1>4, <1>9, WaitsAt DEF WgInv, Waiting
  <2>2. Follows(EraColumn[0], EraStride[0], EraColumn[l], EraStride[l])
    BY <1>4, <1>9
  <2>3. CASE Scales
    <3>1. EraStride[l] # Lanes BY <1>6, <1>7, <2>3
    <3>2. EraColumn[0] = 2 BY <1>6, <2>2, <3>1 DEF Follows
    <3>3. ip[0] = 6 BY <1>6, <2>1, <3>2
    <3> QED BY <1>1, <2>3, <3>3 DEF Slot
  <2>4. CASE ~Scales
    <3>1. ip[0] = 2 \/ ip[0] = 4 BY <2>1, <2>4
    <3>2. EraColumn[0] = 1 BY <1>6, <3>1
    <3>3. ~(EraStride[0] > 1) BY <1>6, <2>2, <3>2 DEF Follows
    <3>4. ip[0] = 4 /\ ~(stride[0] > 1) BY <1>6, <1>7, <2>4, <3>1, <3>3
    <3>5. stride[0] \in Nat /\ stride[0] > 0 BY <1>1, <3>4 DEF Registers, WgInv, Shapes
    <3>6. stride[0] = 1 BY <3>4, <3>5
    <3> QED BY <2>4, <3>4, <3>6, LastFold
  <2> QED BY <2>3, <2>4
<1> QED BY <1>4, <1>5, <1>8, <1>9, SMT
-----------------------------------------------------------------------------
\* A step of lane l, as far as the other lanes and the program go.
MovesOnly(l) ==
  /\ kernel' = kernel /\ row' = row /\ spare' = spare
  /\ ip' \in [Lane -> 0..Through] /\ stride' \in [Lane -> Nat]
  /\ column' \in [Lane -> 1..LastColumn]
  /\ red' \in [Lane -> Number]
  /\ \A m \in Lane : m # l =>
       /\ ip'[m] = ip[m] /\ stride'[m] = stride[m] /\ column'[m] = column[m]
       /\ red'[m] = red[m] /\ seen'[m] = seen[m]

\* The types, from what a step does to each variable.
LEMMA ShapesKept ==
  ASSUME Shapes, NEW l \in Lane, MovesOnly(l), met' \in [Lane -> Nat],
         seen' = [m \in Lane |-> seen'[m]], written' = [i \in Places |-> written'[i]]
  PROVE  Shapes'
<1>1. kernel' = kernel /\ row' = row /\ spare' = spare BY DEF MovesOnly
<1>2. Through' = Through /\ LastColumn' = LastColumn /\ Number' = Number /\ Places' = Places
  BY <1>1, Fixed
<1>3. kernel' \in SumKernels /\ row' \in Nat \ {0} /\ spare' \in BOOLEAN
  BY <1>1 DEF Shapes
<1> QED BY <1>2, <1>3 DEF Shapes, MovesOnly

\* A step keeps the row, so what covers a class of it.
LEMMA SamePartial ==
  ASSUME row' = row, NEW m, NEW s
  PROVE  Partial(m, s)' = Partial(m, s)
BY DEF Partial, Covers, Residue

\* What is said of a lane that does not move stays true.
LEMMA OthersKeep ==
  ASSUME WgInv, NEW l \in Lane, MovesOnly(l), NEW m \in Lane, m # l
  PROVE  Registers(m)' /\ Slot(m)' /\ Reads(m)'
<1>1. /\ kernel' = kernel /\ row' = row /\ spare' = spare
      /\ ip'[m] = ip[m] /\ stride'[m] = stride[m] /\ column'[m] = column[m]
      /\ red'[m] = red[m] /\ seen'[m] = seen[m]
  BY DEF MovesOnly
<1>2. /\ Scales' = Scales /\ Normalizes' = Normalizes /\ SumsRow' = SumsRow
      /\ LastColumn' = LastColumn
      /\ RowTotal("sum")' = RowTotal("sum") /\ RowTotal("scale")' = RowTotal("scale")
  BY <1>1, Fixed
<1>3. Registers(m) /\ Slot(m) /\ Reads(m) BY DEF WgInv
<1>4. Registers(m)' BY <1>1, <1>2, <1>3 DEF Registers
<1>5. Reads(m)' BY <1>1, <1>2, <1>3 DEF Reads
<1>6. Slot(m)'
  <2>1. /\ Partial(m, Lanes)' = Partial(m, Lanes)
        /\ Partial(m, 2 * stride[m])' = Partial(m, 2 * stride[m])
        /\ Partial(m, stride[m])' = Partial(m, stride[m])
    BY <1>1 DEF Partial, Covers, Residue
  <2>2. RowTotal(IF Scales /\ ip[m] >= 6 THEN "scale" ELSE "sum")'
          = RowTotal(IF Scales /\ ip[m] >= 6 THEN "scale" ELSE "sum")
    BY <1>1, <1>2 DEF RowTotal, Covers
  <2> QED BY <1>1, <1>3, <2>1, <2>2 DEF Slot
<1> QED BY <1>4, <1>5, <1>6

\* A lane that waits and does not move still waits.
LEMMA WaitingKept ==
  ASSUME WgInv, NEW l \in Lane, MovesOnly(l), NEW m \in Waiting, m # l
  PROVE  m \in Waiting'
<1>1. m \in Lane /\ Waits(m) BY DEF Waiting
<1>2. ip'[m] = ip[m] /\ Shader' = Shader BY <1>1, Fixed DEF MovesOnly
<1>3. Waits(m)' BY <1>1, <1>2 DEF Waits, At
<1> QED BY <1>1, <1>3 DEF Waiting

\* The stretch lane l is in after its step.
ColumnAt(l) == IF ip[l] >= 5 THEN column[l] + 1 ELSE column[l]
StrideAt(l) == IF ip[l] \in {3, 4} THEN stride[l]
               ELSE IF Scales /\ ip[l] >= 7 THEN Lanes \div 2 ELSE Lanes

\* A step within a stretch leaves the lanes in step.
LEMMA QuietStep ==
  ASSUME WgInv, NEW l \in Lane, MovesOnly(l), met' = met, ~Waits(l),
         ColumnAt(l)' = ColumnAt(l), StrideAt(l)' = StrideAt(l)
  PROVE  Agree(met, EraColumn, EraStride, Waiting)'
<1>1. ASSUME NEW m \in Lane PROVE ColumnAt(m)' = ColumnAt(m) /\ StrideAt(m)' = StrideAt(m)
  <2>1. CASE m = l BY <2>1
  <2>2. CASE m # l
    <3>1. Scales' = Scales BY Fixed DEF MovesOnly
    <3> QED BY <2>2, <3>1 DEF ColumnAt, StrideAt, MovesOnly
  <2> QED BY <2>1, <2>2
<1>2. EraColumn' = EraColumn
  <2>1. EraColumn = [m \in Lane |-> ColumnAt(m)] /\ EraColumn' = [m \in Lane |-> ColumnAt(m)']
    BY DEF EraColumn, ColumnAt
  <2> QED BY <1>1, <2>1
<1>3. EraStride' = EraStride
  <2>1. EraStride = [m \in Lane |-> StrideAt(m)] /\ EraStride' = [m \in Lane |-> StrideAt(m)']
    BY DEF EraStride, StrideAt
  <2> QED BY <1>1, <2>1
<1>4. Waiting \subseteq Waiting'
  <2>1. l \notin Waiting BY DEF Waiting
  <2> QED BY <2>1, WaitingKept
<1>5. Agree(met, EraColumn, EraStride, Waiting)
  BY DEF WgInv
<1>6. Agree(met, EraColumn, EraStride, Waiting')
  BY <1>4, <1>5, WaitingMore
<1> QED BY <1>2, <1>3, <1>6

\* So does one from a stretch to the next.
LEMMA BarrierStep ==
  ASSUME WgInv, NEW l \in Lane, MovesOnly(l), met' = [met EXCEPT ![l] = @ + 1], Pass(l),
         Follows(ColumnAt(l), StrideAt(l), ColumnAt(l)', StrideAt(l)')
  PROVE  Agree(met, EraColumn, EraStride, Waiting)'
<1>1. ASSUME NEW m \in Lane, m # l PROVE ColumnAt(m)' = ColumnAt(m) /\ StrideAt(m)' = StrideAt(m)
  <2>1. Scales' = Scales BY Fixed DEF MovesOnly
  <2> QED BY <1>1, <2>1 DEF ColumnAt, StrideAt, MovesOnly
<1>2. /\ EraColumn = [m \in Lane |-> ColumnAt(m)] /\ EraColumn' = [m \in Lane |-> ColumnAt(m)']
      /\ EraStride = [m \in Lane |-> StrideAt(m)] /\ EraStride' = [m \in Lane |-> StrideAt(m)']
  BY DEF EraColumn, ColumnAt, EraStride, StrideAt
<1>3. EraColumn' = [EraColumn EXCEPT ![l] = ColumnAt(l)']
  BY <1>1, <1>2
<1>4. EraStride' = [EraStride EXCEPT ![l] = StrideAt(l)']
  BY <1>1, <1>2
<1>5. \A m \in Lane : met[m] > met[l] \/ (met[m] = met[l] /\ m \in Waiting)
  BY DEF Pass, Waiting
<1>6. \A m \in Waiting : m # l => m \in Waiting'
  BY WaitingKept
<1>7. /\ met \in [Lane -> Nat] /\ Agree(met, EraColumn, EraStride, Waiting)
      /\ EraColumn = [m \in Lane |-> EraColumn[m]] /\ EraStride = [m \in Lane |-> EraStride[m]]
      /\ Follows(EraColumn[l], EraStride[l], ColumnAt(l)', StrideAt(l)')
  BY <1>2 DEF WgInv, Shapes
<1> DEFINE c == ColumnAt(l)'
           s == StrideAt(l)'
           V == Waiting'
<1> HIDE DEF c, s, V
<1>8. Agree([met EXCEPT ![l] = @ + 1], [EraColumn EXCEPT ![l] = c], [EraStride EXCEPT ![l] = s], V)
  <2>1. \A m \in Waiting : m # l => m \in V BY <1>6 DEF V
  <2>2. Follows(EraColumn[l], EraStride[l], c, s) BY <1>7 DEF c, s
  <2> QED BY <1>5, <1>7, <2>1, <2>2, PassesBarrier
<1> QED BY <1>3, <1>4, <1>8 DEF c, s, V
-----------------------------------------------------------------------------
\* What was written stays as long as nothing is written.
LEMMA WritesKept ==
  ASSUME WgInv, NEW l \in Lane, MovesOnly(l), written' = written, NEW m \in Lane,
         m = l => ip[l] # Through /\ ip'[l] # Through /\ column'[l] = column[l]
  PROVE  Writes(m)'
<1>1. /\ Through' = Through /\ LastColumn' = LastColumn /\ SumsRow' = SumsRow /\ ByRow' = ByRow
      /\ Expected' = Expected /\ spare' = spare
  BY Fixed DEF MovesOnly
<1>2. Residue(m, Lanes)' = Residue(m, Lanes)
  BY DEF MovesOnly, Residue
<1>3. SumsRow => Through = 6
  BY DEF SumsRow, Scales, Normalizes, Through
<1>4. Writes(m) BY DEF WgInv
<1>5. m # l => ip'[m] = ip[m] /\ column'[m] = column[m] BY DEF MovesOnly
<1>6. ASSUME ByRow', ip'[m] = Through' PROVE \A i \in Residue(m, Lanes)' : written'[i] = Expected'
  BY <1>1, <1>2, <1>4, <1>5, <1>6 DEF Writes
<1>7. ASSUME SumsRow', m = 0, ~spare'
      PROVE  \A j \in 1..(IF ip'[m] = 6 THEN LastColumn' ELSE column'[m] - 1) :
               written'[j] = Expected'
  <2>1. column'[m] = column[m] /\ (ip'[m] = 6 <=> ip[m] = 6)
    BY <1>1, <1>3, <1>5, <1>7
  <2> QED BY <1>1, <1>4, <1>7, <2>1 DEF Writes
<1> QED BY <1>6, <1>7 DEF Writes

\* The invariant, from what a step of lane l has to establish.
LEMMA Assembled ==
  ASSUME WgInv, NEW l \in Lane, MovesOnly(l), ip[l] # 0,
         Shapes', Agree(met, EraColumn, EraStride, Waiting)',
         Registers(l)', Slot(l)', Reads(l)', \A m \in Lane : Writes(m)'
  PROVE  WgInv'
<1>1. ~spare'
  <2>1. ~spare BY DEF WgInv, Registers
  <2> QED BY <2>1 DEF MovesOnly
<1>2. \A m \in Lane : Registers(m)' /\ Slot(m)' /\ Reads(m)'
  BY OthersKeep
<1> QED BY <1>1, <1>2 DEF WgInv

\* Types as they are used, and the three shapes exclude each other.
LEMMA Moving ==
  ASSUME WgInv, NEW l \in Lane
  PROVE  /\ ip \in [Lane -> 0..Through] /\ stride \in [Lane -> Nat]
         /\ column \in [Lane -> 1..LastColumn] /\ met \in [Lane -> Nat] /\ red \in [Lane -> Number]
         /\ seen = [m \in Lane |-> seen[m]] /\ written = [i \in Places |-> written[i]]
         /\ Through \in {6, 7, 9} /\ (Scales => Through = 9) /\ (Normalizes => Through = 7)
         /\ (SumsRow => Through = 6) /\ ~(Scales /\ Normalizes) /\ ~(Scales /\ SumsRow)
         /\ ~(Normalizes /\ SumsRow)
         /\ ip[l] = 0 <=> spare
BY DEF WgInv, Shapes, Registers, Through, Scales, Normalizes, SumsRow

\* red[lid] = acc.
LEMMA StoreKeeps ==
  ASSUME WgInv, NEW l \in Lane, ip[l] = 1, StorePartial(l)
  PROVE  WgInv'
<1>1. Shader[1].op = "sum"
  BY Instructions, Kinds DEF Reduces, StoreOwn, WgInv
<1>2. Covers("sum", Strided(l)) = Partial(l, Lanes)
  BY DEF Strided, Partial, Residue
<1>3. /\ ip' = [ip EXCEPT ![l] = 2] /\ stride' = [stride EXCEPT ![l] = Lanes \div 2]
      /\ red' = [red EXCEPT ![l] = Partial(l, Lanes)]
      /\ kernel' = kernel /\ row' = row /\ spare' = spare /\ column' = column /\ met' = met
      /\ seen' = seen /\ written' = written
  <2>1. Covers(Shader[ip[l]].op, Strided(l)) = Partial(l, Lanes)
    BY <1>1, <1>2, Zenon
  <2> QED BY <2>1, Moving DEF StorePartial, Step
<1>4. Partial(l, Lanes) \in Number
  BY CoversType DEF Partial
<1>5. MovesOnly(l)
  BY <1>3, <1>4, Moving, LanesHalve DEF MovesOnly
<1>6. /\ ip'[l] = 2 /\ stride'[l] = Lanes \div 2 /\ red'[l] = Partial(l, Lanes)
      /\ column'[l] = column[l] /\ seen'[l] = seen[l]
  BY <1>3, Moving
<1>7. Shapes'
  BY <1>3, <1>5, Moving, ShapesKept DEF WgInv
<1>8. Agree(met, EraColumn, EraStride, Waiting)'
  <2>1. ~Waits(l) BY WaitsAt DEF WgInv
  <2>2. ColumnAt(l)' = ColumnAt(l) BY <1>6 DEF ColumnAt
  <2>3. StrideAt(l)' = StrideAt(l) BY <1>6 DEF StrideAt
  <2> QED BY <1>3, <1>5, <2>1, <2>2, <2>3, QuietStep
<1>9. Registers(l)'
  BY <1>3, <1>6, Moving DEF Registers
<1>10. Slot(l)'
  <2>1. Partial(l, Lanes)' = Partial(l, Lanes) BY <1>3, SamePartial
  <2> QED BY <1>6, <2>1 DEF Slot
<1>11. Reads(l)'
  <2>1. Scales' = Scales /\ Normalizes' = Normalizes BY <1>3, Fixed
  <2> QED BY <1>6, <2>1 DEF Reads, WgInv
<1>12. \A m \in Lane : Writes(m)'
  BY <1>3, <1>5, <1>6, Moving, WritesKept
<1> QED BY <1>5, <1>7, <1>8, <1>9, <1>10, <1>11, <1>12, Assembled

\* if (lid < s) { red[lid] += red[lid + s]; }
LEMMA FoldKeeps ==
  ASSUME WgInv, NEW l \in Lane, ip[l] = 3, FoldLevel(l)
  PROVE  WgInv'
<1> DEFINE s == stride[l]
<1>1. /\ s \in Nat /\ s > 0 /\ PowerOfTwo(s) /\ 2 * s <= Lanes /\ l \in Nat
  BY LaneIsNat DEF WgInv, Shapes, Registers
<1>2. /\ ip' = [ip EXCEPT ![l] = 4] /\ stride' = stride
      /\ kernel' = kernel /\ row' = row /\ spare' = spare /\ column' = column /\ met' = met
      /\ seen' = seen /\ written' = written
  BY Moving DEF FoldLevel, Step
<1>3. red' = IF l < s THEN [red EXCEPT ![l] = Partial(l, s)] ELSE red
  BY FoldYields DEF FoldLevel
<1>4. Partial(l, s) \in Number
  BY CoversType DEF Partial
<1>5. MovesOnly(l)
  BY <1>2, <1>3, <1>4, Moving DEF MovesOnly
<1>6. /\ ip'[l] = 4 /\ stride'[l] = s /\ red'[l] = IF l < s THEN Partial(l, s) ELSE red[l]
      /\ column'[l] = column[l] /\ seen'[l] = seen[l]
  BY <1>2, <1>3, Moving
<1>7. Shapes'
  BY <1>2, <1>5, Moving, ShapesKept DEF WgInv
<1>8. Agree(met, EraColumn, EraStride, Waiting)'
  <2>1. ~Waits(l) BY WaitsAt DEF WgInv
  <2>2. ColumnAt(l)' = ColumnAt(l) BY <1>6 DEF ColumnAt
  <2>3. StrideAt(l)' = StrideAt(l) BY <1>6 DEF StrideAt
  <2> QED BY <1>2, <1>5, <2>1, <2>2, <2>3, QuietStep
<1>9. Registers(l)'
  BY <1>1, <1>2, <1>6, Moving DEF Registers
<1>10. Slot(l)'
  <2>1. /\ Partial(l, s)' = Partial(l, s) /\ Partial(l, 2 * s)' = Partial(l, 2 * s)
    BY <1>2, <1>6 DEF Partial, Covers, Residue
  <2>2. l < 2 * s => red[l] = Partial(l, 2 * s)
    BY DEF WgInv, Slot
  <2> QED BY <1>1, <1>6, <2>1, <2>2 DEF Slot
<1>11. Reads(l)'
  <2>1. Scales' = Scales /\ Normalizes' = Normalizes BY <1>2, Fixed
  <2> QED BY <1>6, <2>1 DEF Reads, WgInv
<1>12. \A m \in Lane : Writes(m)'
  BY <1>2, <1>5, <1>6, Moving, WritesKept
<1> QED BY <1>5, <1>7, <1>8, <1>9, <1>10, <1>11, <1>12, Assembled

\* barrier() before the tree, and before the scale is read.
LEMMA MeetKeeps ==
  ASSUME WgInv, NEW l \in Lane, ip[l] = 2 \/ (Scales /\ ip[l] = 6), Meet(l)
  PROVE  WgInv'
<1>1. /\ ip' = [ip EXCEPT ![l] = @ + 1] /\ stride' = stride /\ red' = red
      /\ met' = [met EXCEPT ![l] = @ + 1] /\ Pass(l)
      /\ kernel' = kernel /\ row' = row /\ spare' = spare /\ column' = column
      /\ seen' = seen /\ written' = written
  BY DEF Meet, Step
<1>2. ip[l] + 1 \in 0..Through
  BY Moving
<1>3. MovesOnly(l)
  BY <1>1, <1>2, Moving DEF MovesOnly
<1>4. /\ ip'[l] = ip[l] + 1 /\ stride'[l] = stride[l] /\ red'[l] = red[l]
      /\ column'[l] = column[l] /\ seen'[l] = seen[l] /\ met' \in [Lane -> Nat]
  BY <1>1, Moving
<1>5. Shapes'
  BY <1>1, <1>3, <1>4, Moving, ShapesKept DEF WgInv
<1>6. Scales' = Scales /\ Normalizes' = Normalizes /\ RowTotal("scale")' = RowTotal("scale")
  BY <1>1, Fixed
<1>7. Reads(l)'
  BY <1>1, <1>4, <1>6, Moving, Fixed DEF Reads, WgInv
<1>8. \A m \in Lane : Writes(m)'
  BY <1>1, <1>3, <1>4, Moving, WritesKept
<1>9. CASE ip[l] = 2
  <2>1. stride[l] = Lanes \div 2 /\ ip'[l] = 3
    BY <1>4, <1>9 DEF WgInv, Registers
  <2>2. Follows(ColumnAt(l), StrideAt(l), ColumnAt(l)', StrideAt(l)')
    BY <1>4, <1>6, <1>9, <2>1, LanesHalve DEF Follows, ColumnAt, StrideAt
  <2>3. Agree(met, EraColumn, EraStride, Waiting)'
    BY <1>1, <1>3, <2>2, BarrierStep
  <2>4. Registers(l)'
    BY <1>1, <1>4, <1>9, <2>1, Moving, LanesHalve DEF Registers
  <2>5. Slot(l)'
    <3>1. red[l] = Partial(l, Lanes) BY <1>9 DEF WgInv, Slot
    <3>2. 2 * stride[l] = Lanes BY <2>1, LanesHalve
    <3>3. Partial(l, 2 * stride[l])' = Partial(l, 2 * stride[l])
      BY <1>1, <1>4 DEF Partial, Covers, Residue
    <3>4. red'[l] = Partial(l, 2 * stride[l])' BY <1>4, <3>1, <3>2, <3>3
    <3> QED BY <2>1, <3>4 DEF Slot
  <2> QED BY <1>3, <1>5, <1>7, <1>8, <1>9, <2>3, <2>4, <2>5, Assembled
<1>10. CASE Scales /\ ip[l] = 6
  <2>1. Follows(ColumnAt(l), StrideAt(l), ColumnAt(l)', StrideAt(l)')
    BY <1>4, <1>6, <1>10, LanesHalve DEF Follows, ColumnAt, StrideAt
  <2>2. Agree(met, EraColumn, EraStride, Waiting)'
    BY <1>1, <1>3, <2>1, BarrierStep
  <2>3. Registers(l)'
    BY <1>1, <1>4, <1>10, Moving DEF Registers
  <2>4. Slot(l)'
    <3>1. l = 0 => red[l] = RowTotal("scale") BY <1>10 DEF WgInv, Slot
    <3> QED BY <1>4, <1>6, <1>10, <3>1 DEF Slot
  <2> QED BY <1>3, <1>5, <1>7, <1>8, <1>10, <2>2, <2>3, <2>4, Assembled
<1> QED BY <1>9, <1>10

\* barrier() at the end of a level, and s >>= 1.
LEMMA NextLevelKeeps ==
  ASSUME WgInv, NEW l \in Lane, ip[l] = 4, NextLevel(l)
  PROVE  WgInv'
<1> DEFINE s == stride[l]
<1>1. /\ s \in Nat /\ s > 0 /\ PowerOfTwo(s) /\ 2 * s <= Lanes /\ l \in Nat
  BY LaneIsNat DEF WgInv, Shapes, Registers
<1>2. /\ s = 1 => s \div 2 = 0
      /\ s > 1 => s \div 2 \in Nat /\ s \div 2 > 0 /\ s = 2 * (s \div 2) /\ PowerOfTwo(s \div 2)
  BY <1>1, Halving
<1>3. s = 1 \/ s > 1 BY <1>1
<1>4. /\ ip' = [ip EXCEPT ![l] = IF s > 1 THEN 3 ELSE 5]
      /\ stride' = [stride EXCEPT ![l] = s \div 2] /\ red' = red
      /\ met' = [met EXCEPT ![l] = @ + 1] /\ Pass(l)
      /\ kernel' = kernel /\ row' = row /\ spare' = spare /\ column' = column
      /\ seen' = seen /\ written' = written
  <2>1. ip' = [ip EXCEPT ![l] = IF s \div 2 > 0 THEN 3 ELSE 5]
    BY DEF NextLevel
  <2>2. s \div 2 > 0 <=> s > 1 BY <1>2, <1>3
  <2> QED BY <2>1, <2>2 DEF NextLevel
<1>5. s \div 2 \in Nat BY <1>2, <1>3
<1>6. MovesOnly(l)
  <2>1. (IF s > 1 THEN 3 ELSE 5) \in 0..Through BY Moving
  <2>2. ip' \in [Lane -> 0..Through] /\ stride' \in [Lane -> Nat]
    BY <1>4, <1>5, <2>1, Moving
  <2> HIDE DEF s
  <2> QED BY <1>4, <2>2, Moving DEF MovesOnly
<1>7. /\ ip'[l] = (IF s > 1 THEN 3 ELSE 5) /\ stride'[l] = s \div 2 /\ red'[l] = red[l]
      /\ column'[l] = column[l] /\ seen'[l] = seen[l] /\ met' \in [Lane -> Nat]
  BY <1>4, Moving
<1>8. Shapes'
  BY <1>4, <1>6, <1>7, Moving, ShapesKept DEF WgInv
<1>9. /\ Scales' = Scales /\ Normalizes' = Normalizes
      /\ RowTotal("scale")' = RowTotal("scale") /\ RowTotal("sum")' = RowTotal("sum")
  BY <1>4, Fixed
<1>10. Reads(l)'
  BY <1>7, <1>9 DEF Reads, WgInv
<1>11. \A m \in Lane : Writes(m)'
  BY <1>4, <1>6, <1>7, Moving, WritesKept
<1>12. Agree(met, EraColumn, EraStride, Waiting)'
  <2>1. ColumnAt(l) = column[l] /\ StrideAt(l) = s BY DEF ColumnAt, StrideAt
  <2>2. CASE s > 1
    <3>1. ColumnAt(l)' = column[l] /\ StrideAt(l)' = s \div 2
      BY <1>7, <2>2 DEF ColumnAt, StrideAt
    <3>2. Follows(ColumnAt(l), StrideAt(l), ColumnAt(l)', StrideAt(l)')
      BY <2>1, <2>2, <3>1 DEF Follows
    <3> QED BY <1>4, <1>6, <3>2, BarrierStep
  <2>3. CASE s = 1
    <3>1. ColumnAt(l)' = column[l] + 1 /\ StrideAt(l)' = Lanes
      BY <1>7, <2>3 DEF ColumnAt, StrideAt
    <3>2. Follows(ColumnAt(l), StrideAt(l), ColumnAt(l)', StrideAt(l)')
      BY <2>1, <2>3, <3>1 DEF Follows
    <3> QED BY <1>4, <1>6, <3>2, BarrierStep
  <2> QED BY <1>3, <2>2, <2>3
<1>13. Registers(l)'
  <2>1. spare' <=> FALSE BY <1>4, Moving
  <2>2. s > 1 => 2 * (s \div 2) <= Lanes
    <3>1. s <= Lanes BY <1>1, LanesHalve
    <3> QED BY <1>2, <3>1
  <2> QED BY <1>2, <1>3, <1>7, <2>1, <2>2 DEF Registers
<1>14. Slot(l)'
  <2>1. CASE s > 1
    <3>1. l < s => red[l] = Partial(l, s) BY DEF WgInv, Slot
    <3>2. Partial(l, 2 * stride[l])' = Partial(l, 2 * stride'[l])
      BY <1>4 DEF Partial, Covers, Residue
    <3>3. 2 * stride'[l] = s BY <1>2, <1>7, <2>1
    <3>4. l < 2 * stride'[l] => red'[l] = Partial(l, 2 * stride[l])'
      BY <1>7, <3>1, <3>2, <3>3
    <3> QED BY <1>7, <2>1, <3>4 DEF Slot
  <2>2. CASE s = 1
    <3>1. l = 0 => red[l] = RowTotal("sum") BY <2>2, LastFold
    <3> QED BY <1>7, <1>9, <2>2, <3>1 DEF Slot
  <2> QED BY <1>3, <2>1, <2>2
<1> QED BY <1>6, <1>8, <1>10, <1>11, <1>12, <1>13, <1>14, Assembled

\* Lane 0 replaces the sum by the scale.
LEMMA ScaleKeeps ==
  ASSUME WgInv, NEW l \in Lane, Scales, ip[l] = 5, ScaleTotal(l)
  PROVE  WgInv'
<1>1. /\ ip' = [ip EXCEPT ![l] = 6] /\ stride' = stride
      /\ kernel' = kernel /\ row' = row /\ spare' = spare /\ column' = column /\ met' = met
      /\ seen' = seen /\ written' = written
  BY Moving DEF ScaleTotal, Step
<1>2. red' = IF l = 0 THEN [red EXCEPT ![0] = RowTotal("scale")] ELSE red
  <2>1. ASSUME l = 0 PROVE [op |-> "scale", of |-> red[0].of] = RowTotal("scale")
    <3>1. red[0] = RowTotal("sum") BY <2>1 DEF WgInv, Slot
    <3> DEFINE F == [i \in 0..(row - 1) |-> IF i \in 0..(row - 1) THEN 1 ELSE 0]
    <3>2. RowTotal("sum") = [op |-> "sum", of |-> F] /\ RowTotal("scale") = [op |-> "scale", of |-> F]
      BY DEF RowTotal, Covers
    <3> HIDE DEF F
    <3>3. red[0].of = F BY <3>1, <3>2
    <3> QED BY <3>2, <3>3
  <2> QED BY <2>1 DEF ScaleTotal
<1>3. RowTotal("scale") \in Number
  BY CoversType DEF RowTotal
<1>4. MovesOnly(l)
  BY <1>1, <1>2, <1>3, Moving DEF MovesOnly
<1>5. /\ ip'[l] = 6 /\ stride'[l] = stride[l] /\ (l = 0 => red'[l] = RowTotal("scale"))
      /\ column'[l] = column[l] /\ seen'[l] = seen[l]
  BY <1>1, <1>2, Moving
<1>6. Shapes'
  BY <1>1, <1>4, Moving, ShapesKept DEF WgInv
<1>7. /\ Scales' = Scales /\ Normalizes' = Normalizes /\ RowTotal("scale")' = RowTotal("scale")
  BY <1>1, Fixed
<1>8. Agree(met, EraColumn, EraStride, Waiting)'
  <2>1. ~Waits(l) BY WaitsAt DEF WgInv
  <2>2. ColumnAt(l)' = ColumnAt(l) BY <1>5 DEF ColumnAt
  <2>3. StrideAt(l)' = StrideAt(l) BY <1>5, <1>7 DEF StrideAt
  <2> QED BY <1>1, <1>4, <2>1, <2>2, <2>3, QuietStep
<1>9. Registers(l)'
  <2>1. ~SumsRow' BY <1>7, Moving, Fixed, <1>1
  <2> QED BY <1>1, <1>5, <2>1, Moving DEF Registers
<1>10. Slot(l)'
  BY <1>5, <1>7 DEF Slot
<1>11. Reads(l)'
  BY <1>5, <1>7, Moving DEF Reads, WgInv
<1>12. \A m \in Lane : Writes(m)'
  BY <1>1, <1>4, <1>5, Moving, WritesKept
<1> QED BY <1>4, <1>6, <1>8, <1>9, <1>10, <1>11, <1>12, Assembled

\* A lane reads the sum or the scale.
LEMMA ReadKeeps ==
  ASSUME WgInv, NEW l \in Lane, (Scales /\ ip[l] = 7) \/ (Normalizes /\ ip[l] = 5), ReadTotal(l)
  PROVE  WgInv'
<1> DEFINE x == RowTotal(IF Scales THEN "scale" ELSE "sum")
<1>1. /\ ip' = [ip EXCEPT ![l] = @ + 1] /\ stride' = stride /\ red' = red
      /\ kernel' = kernel /\ row' = row /\ spare' = spare /\ column' = column /\ met' = met
      /\ written' = written
  BY DEF ReadTotal, Step
<1>2. seen' = [seen EXCEPT ![l] = <<x>>]
  <2>1. seen[l] = <<>> BY DEF WgInv, Reads
  <2>2. red[0] = x BY ReadYields
  <2> HIDE DEF x
  <2>3. Append(<<>>, x) = <<x>> OBVIOUS
  <2>4. seen' = [seen EXCEPT ![l] = Append(seen[l], red[0])] BY DEF ReadTotal
  <2> QED BY <2>1, <2>2, <2>3, <2>4
<1>3. ip[l] + 1 \in 0..Through
  BY Moving
<1>4. MovesOnly(l)
  <2>1. \A m \in Lane : m # l => seen'[m] = seen[m] BY <1>2, Moving
  <2> QED BY <1>1, <1>3, <2>1, Moving DEF MovesOnly
<1>5. /\ ip'[l] = ip[l] + 1 /\ stride'[l] = stride[l] /\ red'[l] = red[l]
      /\ column'[l] = column[l] /\ seen'[l] = <<x>>
  BY <1>1, <1>2, Moving
<1>6. Shapes'
  <2>1. seen' = [m \in Lane |-> seen'[m]] BY <1>2, Moving
  <2> QED BY <1>1, <1>4, <2>1, Moving, ShapesKept DEF WgInv
<1>7. /\ Scales' = Scales /\ Normalizes' = Normalizes /\ SumsRow' = SumsRow
      /\ RowTotal("scale")' = RowTotal("scale") /\ RowTotal("sum")' = RowTotal("sum")
  BY <1>1, Fixed
<1>8. Agree(met, EraColumn, EraStride, Waiting)'
  <2>1. ~Waits(l)
    <3>1. Waits(l) => ip[l] = 2 \/ ip[l] = 4 \/ (Scales /\ ip[l] = 6)
      BY WaitsAt DEF WgInv
    <3>2. ~(Scales /\ Normalizes) BY Moving
    <3> QED BY <3>1, <3>2
  <2>2. ColumnAt(l)' = ColumnAt(l) BY <1>5 DEF ColumnAt
  <2>3. StrideAt(l)' = StrideAt(l) BY <1>5, <1>7, Moving DEF StrideAt
  <2> QED BY <1>1, <1>4, <2>1, <2>2, <2>3, QuietStep
<1>9. Registers(l)'
  BY <1>1, <1>5, <1>7, Moving DEF Registers
<1>10. Slot(l)'
  <2>1. l = 0 => red[l] = RowTotal(IF Scales THEN "scale" ELSE "sum") BY Moving, TotalAt
  <2> QED BY <1>5, <1>7, <2>1, Moving DEF Slot
<1>11. Reads(l)'
  BY <1>5, <1>7, Moving DEF Reads
<1>12. \A m \in Lane : Writes(m)'
  BY <1>1, <1>4, <1>5, Moving, WritesKept
<1> QED BY <1>4, <1>6, <1>8, <1>9, <1>10, <1>11, <1>12, Assembled

\* A row's element has one lane, and a place in memory.
LEMMA ResidueOfOne ==
  ASSUME Shapes, NEW m \in Lane, NEW i \in Residue(m, Lanes)
  PROVE  i \in Places /\ \A l \in Lane : i \in Strided(l) => l = m
<1>1. row \in Nat /\ Columns \in Nat BY WorkgroupAssumption DEF Shapes
<1>2. i \in 0..(row - 1) /\ i % Lanes = m BY DEF Residue
<1>3. i \in Places BY <1>1, <1>2 DEF Places
<1> QED BY <1>2, <1>3 DEF Strided

\* What is expected of each shape.
LEMMA ExpectedIs ==
  /\ Scales => Expected = <<RowTotal("scale")>>
  /\ Normalizes \/ SumsRow => Expected = <<RowTotal("sum")>>
  /\ Scales \/ Normalizes => ByRow
  /\ SumsRow => ~ByRow
BY DEF Scales, Normalizes, SumsRow, Expected, ByRow

\* A lane writes its elements.
LEMMA WriteKeeps ==
  ASSUME WgInv, NEW l \in Lane, (Scales /\ ip[l] = 8) \/ (Normalizes /\ ip[l] = 6), WriteRow(l)
  PROVE  WgInv'
<1>1. /\ ip' = [ip EXCEPT ![l] = @ + 1] /\ stride' = stride /\ red' = red
      /\ kernel' = kernel /\ row' = row /\ spare' = spare /\ column' = column /\ met' = met
      /\ seen' = seen
      /\ written' = [i \in Places |-> IF i \in Strided(l) THEN seen[l] ELSE written[i]]
  BY Moving DEF WriteRow, Step
<1>2. ip[l] + 1 \in 0..Through
  BY Moving
<1>3. MovesOnly(l)
  BY <1>1, <1>2, Moving DEF MovesOnly
<1>4. /\ ip'[l] = ip[l] + 1 /\ stride'[l] = stride[l] /\ red'[l] = red[l]
      /\ column'[l] = column[l] /\ seen'[l] = seen[l]
  BY <1>1, Moving
<1>5. Shapes'
  BY <1>1, <1>3, Moving, ShapesKept DEF WgInv
<1>6. /\ Scales' = Scales /\ Normalizes' = Normalizes /\ SumsRow' = SumsRow /\ Expected' = Expected
      /\ Through' = Through
      /\ RowTotal("scale")' = RowTotal("scale") /\ RowTotal("sum")' = RowTotal("sum")
  BY <1>1, Fixed
<1>7. Agree(met, EraColumn, EraStride, Waiting)'
  <2>1. ~Waits(l)
    <3>1. Waits(l) => ip[l] = 2 \/ ip[l] = 4 \/ (Scales /\ ip[l] = 6)
      BY WaitsAt DEF WgInv
    <3>2. ~(Scales /\ Normalizes) BY Moving
    <3> QED BY <3>1, <3>2
  <2>2. ColumnAt(l)' = ColumnAt(l) BY <1>4 DEF ColumnAt
  <2>3. StrideAt(l)' = StrideAt(l) BY <1>4, <1>6, Moving DEF StrideAt
  <2> QED BY <1>1, <1>3, <2>1, <2>2, <2>3, QuietStep
<1>8. Registers(l)'
  BY <1>1, <1>4, <1>6, Moving DEF Registers
<1>9. Slot(l)'
  <2>1. l = 0 => red[l] = RowTotal(IF Scales THEN "scale" ELSE "sum") BY Moving, TotalAt
  <2> QED BY <1>4, <1>6, <2>1, Moving DEF Slot
<1>10. Reads(l)'
  BY <1>4, <1>6, Moving DEF Reads, WgInv
<1>11. seen[l] = Expected
  BY Moving, ExpectedIs DEF WgInv, Reads
<1>12. ASSUME NEW m \in Lane PROVE Writes(m)'
  <2>1. Residue(m, Lanes)' = Residue(m, Lanes) BY <1>1 DEF Residue
  <2>2. ~SumsRow' BY <1>6, Moving
  <2>3. ASSUME NEW i \in Residue(m, Lanes), ip'[m] = Through PROVE written'[i] = Expected
    <3>1. i \in Places /\ \A o \in Lane : i \in Strided(o) => o = m
      BY ResidueOfOne DEF WgInv
    <3>2. CASE m = l
      <4>1. i \in Strided(l) BY <3>2 DEF Residue, Strided
      <4> QED BY <1>1, <1>11, <3>1, <4>1
    <3>3. CASE m # l
      <4>1. i \notin Strided(l) BY <3>1, <3>3
      <4>2. ip[m] = Through BY <1>3, <2>3, <3>3 DEF MovesOnly
      <4>3. written[i] = Expected
        <5>1. ByRow BY Moving, ExpectedIs
        <5> QED BY <4>2, <5>1 DEF WgInv, Writes
      <4> QED BY <1>1, <3>1, <4>1, <4>3
    <3> QED BY <3>2, <3>3
  <2> QED BY <1>6, <2>1, <2>2, <2>3 DEF Writes
<1> QED BY <1>3, <1>5, <1>7, <1>8, <1>9, <1>10, <1>12, Assembled

\* Lane 0 writes the sum of a column.
LEMMA EmitKeeps ==
  ASSUME WgInv, NEW l \in Lane, SumsRow, ip[l] = 5, EmitTotal(l)
  PROVE  WgInv'
<1> DEFINE more == column[l] < LastColumn
<1>1. /\ ip' = [ip EXCEPT ![l] = IF more THEN 1 ELSE 6]
      /\ column' = [column EXCEPT ![l] = IF more THEN @ + 1 ELSE @]
      /\ stride' = stride /\ red' = red /\ met' = met /\ seen' = seen
      /\ kernel' = kernel /\ row' = row /\ spare' = spare
  <2>1. column[l] \in Nat /\ LastColumn \in Nat
    BY Moving, WorkgroupAssumption DEF LastColumn
  <2>2. CASE more
    BY <2>1, <2>2, Moving DEF EmitTotal, Step
  <2>3. CASE ~more
    <3>1. ip' = [ip EXCEPT ![l] = 6] /\ column' = column
      BY <2>1, <2>3, Moving DEF EmitTotal, Step
    <3> QED BY <2>3, <3>1, Moving DEF EmitTotal
  <2> QED BY <2>2, <2>3
<1>2. written' = IF l = 0 THEN [written EXCEPT ![column[l]] = Expected] ELSE written
  <2>1. l = 0 => red[0] = RowTotal("sum")
    BY Moving, TotalAt
  <2>2. Expected = <<RowTotal("sum")>> BY ExpectedIs
  <2> QED BY <2>1, <2>2 DEF EmitTotal
<1>3. /\ column[l] \in Nat /\ 1 <= column[l] /\ column[l] <= LastColumn /\ LastColumn \in Nat
      /\ LastColumn <= Columns /\ Columns \in Nat /\ row \in Nat
  BY Moving, WorkgroupAssumption DEF LastColumn, WgInv, Shapes
<1>4. MovesOnly(l)
  <2>1. ip' \in [Lane -> 0..Through]
    BY <1>1, Moving
  <2>2. column' \in [Lane -> 1..LastColumn]
    <3>1. (IF more THEN column[l] + 1 ELSE column[l]) \in 1..LastColumn BY <1>3
    <3> HIDE DEF more
    <3> QED BY <1>1, <3>1, Moving
  <2> HIDE DEF more
  <2> QED BY <1>1, <2>1, <2>2, Moving DEF MovesOnly
<1>5. /\ ip'[l] = (IF more THEN 1 ELSE 6) /\ stride'[l] = stride[l] /\ red'[l] = red[l]
      /\ column'[l] = (IF more THEN column[l] + 1 ELSE column[l]) /\ seen'[l] = seen[l]
  BY <1>1, Moving
<1>6. Shapes'
  <2>1. written' = [i \in Places |-> written'[i]]
    BY <1>2, Moving
  <2> QED BY <1>1, <1>4, <2>1, Moving, ShapesKept DEF WgInv
<1>7. /\ Scales' = Scales /\ Normalizes' = Normalizes /\ SumsRow' = SumsRow /\ ByRow' = ByRow
      /\ Expected' = Expected /\ LastColumn' = LastColumn
  BY <1>1, Fixed
<1>8. ~Scales /\ ~Normalizes BY Moving
<1>9. Agree(met, EraColumn, EraStride, Waiting)'
  <2>1. ~Waits(l) BY <1>8, WaitsAt DEF WgInv
  <2>2. ColumnAt(l)' = ColumnAt(l) BY <1>5 DEF ColumnAt
  <2>3. StrideAt(l)' = StrideAt(l) BY <1>5, <1>7, <1>8 DEF StrideAt
  <2> QED BY <1>1, <1>4, <2>1, <2>2, <2>3, QuietStep
<1>10. Registers(l)'
  <2>1. ~more => column[l] = LastColumn BY <1>3
  <2> QED BY <1>1, <1>5, <1>7, <2>1, Moving DEF Registers
<1>11. Slot(l)'
  <2>1. l = 0 => red[l] = RowTotal("sum") BY <1>8, TotalAt
  <2>2. RowTotal("sum")' = RowTotal("sum") BY <1>1, Fixed
  <2> QED BY <1>5, <1>7, <1>8, <2>1, <2>2 DEF Slot
<1>12. Reads(l)'
  BY <1>7, <1>8 DEF Reads
<1>13. ASSUME NEW m \in Lane PROVE Writes(m)'
  <2>1. ~ByRow' BY <1>7, ExpectedIs
  <2>2. ASSUME m = 0, ~spare',
               NEW j \in 1..(IF ip'[m] = 6 THEN LastColumn' ELSE column'[m] - 1)
        PROVE  written'[j] = Expected'
    <3>1. CASE l # 0
      <4>1. ip'[m] = ip[m] /\ column'[m] = column[m] /\ written' = written
        BY <1>2, <1>4, <2>2, <3>1 DEF MovesOnly
      <4>2. j \in 1..(IF ip[m] = 6 THEN LastColumn ELSE column[m] - 1) /\ ~spare
        BY <1>1, <1>7, <2>2, <4>1
      <4>3. written[j] = Expected
        BY <2>2, <4>2 DEF WgInv, Writes
      <4> QED BY <1>7, <4>1, <4>3
    <3>2. CASE l = 0
      <4>1. j \in 1..column[l]
        BY <1>3, <1>5, <1>7, <2>2, <3>2
      <4>2. j \in Places /\ column[l] \in Places
        BY <1>3, <4>1 DEF Places
      <4>3. CASE j = column[l]
        BY <1>2, <1>7, <3>2, <4>2, <4>3, Moving
      <4>4. CASE j # column[l]
        <5>1. j \in 1..(column[l] - 1) BY <1>3, <4>1, <4>4
        <5>2. ~spare BY <1>1, <2>2
        <5>3. written[j] = Expected
          BY <3>2, <5>1, <5>2 DEF WgInv, Writes
        <5>4. written'[j] = written[j]
          BY <1>2, <4>2, <4>4, Moving
        <5> QED BY <1>7, <5>3, <5>4
      <4> QED BY <4>3, <4>4
    <3> QED BY <3>1, <3>2
  <2> QED BY <2>1, <2>2 DEF Writes
<1> QED BY <1>4, <1>6, <1>9, <1>10, <1>11, <1>12, <1>13, Assembled
-----------------------------------------------------------------------------
\* Every step keeps the invariant.
LEMMA StepKeeps ==
  ASSUME WgInv, [WgNext]_wgVars
  PROVE  WgInv'
<1>1. CASE UNCHANGED wgVars
  <2>1. /\ kernel' = kernel /\ row' = row /\ spare' = spare /\ ip' = ip /\ stride' = stride
        /\ column' = column /\ met' = met /\ red' = red /\ seen' = seen /\ written' = written
    BY <1>1 DEF wgVars
  <2>2. ASSUME NEW l \in Lane PROVE MovesOnly(l)
    BY <2>1, Moving DEF MovesOnly
  <2>3. \A m \in Lane : \E l \in Lane : l # m
    <3>1. 0 \in Lane /\ 1 \in Lane BY LanesHalve DEF Lane
    <3> QED BY <3>1
  <2>4. ASSUME NEW m \in Lane PROVE Registers(m)' /\ Slot(m)' /\ Reads(m)' /\ Writes(m)'
    <3>1. PICK l \in Lane : l # m BY <2>3
    <3> QED BY <2>1, <2>2, <3>1, OthersKeep, WritesKept
  <2>5. Shapes'
    BY <2>1, <2>2, Moving, ZeroIsLane, ShapesKept DEF WgInv
  <2>6. EraColumn' = EraColumn /\ EraStride' = EraStride
    <3>1. Scales' = Scales BY <2>1, Fixed
    <3> QED BY <2>1, <3>1 DEF EraColumn, EraStride
  <2>7. Waiting' = Waiting
    <3>1. Shader' = Shader BY <2>1, Fixed
    <3>2. \A m \in Lane : Waits(m)' <=> Waits(m) BY <2>1, <3>1 DEF Waits, At
    <3> QED BY <3>2 DEF Waiting
  <2>8. Agree(met, EraColumn, EraStride, Waiting)'
    BY <2>1, <2>6, <2>7 DEF WgInv
  <2>9. spare' => \A i \in Places' : written'[i] = <<>>
    <3>1. Places' = Places BY <2>1, Fixed
    <3> QED BY <2>1, <3>1 DEF WgInv
  <2> QED BY <2>4, <2>5, <2>8, <2>9 DEF WgInv
<1>2. CASE WgNext
  <2>1. PICK l \in Lane : LaneStep(l) BY <1>2 DEF WgNext
  <2> QED BY <2>1, StepAt, StoreKeeps, MeetKeeps, FoldKeeps, NextLevelKeeps, ScaleKeeps, ReadKeeps,
             WriteKeeps, EmitKeeps DEF WgInv
<1> QED BY <1>1, <1>2

\* It holds when a workgroup starts.
LEMMA InitHolds ==
  ASSUME Programs \subseteq SumKernels, WgInit
  PROVE  WgInv
<1>1. /\ kernel \in SumKernels /\ row \in Nat \ {0} /\ spare \in BOOLEAN /\ row \in Nat
      /\ ip = [l \in Lane |-> IF spare THEN 0 ELSE 1]
      /\ stride = [l \in Lane |-> 0] /\ column = [l \in Lane |-> 1] /\ met = [l \in Lane |-> 0]
      /\ red = [l \in Lane |-> [op |-> "unset", of |-> [i \in 0..(row - 1) |-> 0]]]
      /\ seen = [l \in Lane |-> <<>>]
      /\ written = [i \in Places |-> <<>>]
  <2>1. kernel \in SumKernels BY DEF WgInit
  <2>2. row \in Nat \ {0} /\ spare \in BOOLEAN
    <3>1. MaxRow \in Nat /\ row \in 1..MaxRow BY WorkgroupAssumption DEF WgInit
    <3>2. spare \in (IF kernel = "pq2_matvec_fused" THEN BOOLEAN ELSE {FALSE}) BY DEF WgInit
    <3>3. spare \in BOOLEAN BY <3>2
    <3> QED BY <3>1, <3>3
  <2>3. ip = [l \in Lane |-> IF spare THEN 0 ELSE 1] BY DEF WgInit, Leaves
  <2>4. written = [i \in Places |-> <<>>] BY DEF WgInit, Places
  <2> QED BY <2>1, <2>2, <2>3, <2>4 DEF WgInit
<1>2. 1 \in 1..LastColumn
  BY WorkgroupAssumption DEF LastColumn
<1>3. [op |-> "unset", of |-> [i \in 0..(row - 1) |-> 0]] \in Number
  BY DEF Number
<1>4. Through \in {6, 7, 9} BY DEF Through
<1>5. Shapes
  <2>1. ip \in [Lane -> 0..Through] BY <1>1, <1>4
  <2>2. red \in [Lane -> Number] BY <1>1, <1>3
  <2>3. column \in [Lane -> 1..LastColumn] BY <1>1, <1>2
  <2> QED BY <1>1, <2>1, <2>2, <2>3 DEF Shapes
<1>6. ASSUME NEW l \in Lane
      PROVE  ip[l] = (IF spare THEN 0 ELSE 1) /\ column[l] = 1 /\ seen[l] = <<>> /\ met[l] = 0
  BY <1>1
<1>7. \A l \in Lane : Registers(l) BY <1>1, <1>6 DEF Registers
<1>8. \A l \in Lane : Slot(l) BY <1>1, <1>6 DEF Slot
<1>9. \A l \in Lane : Reads(l) BY <1>1, <1>6 DEF Reads
<1>10. \A l \in Lane : Writes(l) BY <1>1, <1>4, <1>6 DEF Writes
<1>11. Agree(met, EraColumn, EraStride, Waiting)
  <2>1. \A l \in Lane : EraColumn[l] = 1 /\ EraStride[l] = Lanes
    BY <1>6 DEF EraColumn, EraStride
  <2> QED BY <1>6, <2>1 DEF Agree
<1>12. spare => \A i \in Places : written[i] = <<>> BY <1>1
<1> QED BY <1>5, <1>7, <1>8, <1>9, <1>10, <1>11, <1>12 DEF WgInv

\* When all lanes are through, it says what was promised.
LEMMA InvReduces == WgInv => ReducesTheRow
<1> SUFFICES ASSUME WgInv, WgDone PROVE ReducesTheRow
  BY DEF ReducesTheRow
<1>1. ASSUME NEW l \in Lane PROVE ip[l] = 0 \/ ip[l] = Through
  <2>1. Len(Shader) + 1 = Through
    <3>1. Scales => Len(Shader) = 8 BY Instructions
    <3>2. Normalizes => Len(Shader) = 6 BY Instructions
    <3>3. SumsRow => Len(Shader) = 5 BY Instructions
    <3>4. Scales \/ Normalizes \/ SumsRow BY Kinds DEF WgInv
    <3>5. (Scales => Through = 9) /\ (Normalizes => Through = 7) /\ (SumsRow => Through = 6)
      BY Moving
    <3>6. CASE Scales
      <4>1. Len(Shader) = 8 /\ Through = 9 BY <3>1, <3>5, <3>6
      <4> QED BY <4>1
    <3>7. CASE Normalizes
      <4>1. Len(Shader) = 6 /\ Through = 7 BY <3>2, <3>5, <3>7
      <4> QED BY <4>1
    <3>8. CASE SumsRow
      <4>1. Len(Shader) = 5 /\ Through = 6 BY <3>3, <3>5, <3>8
      <4> QED BY <4>1
    <3> QED BY <3>4, <3>6, <3>7, <3>8
  <2>2. ip[l] = 0 \/ ip[l] > Len(Shader) BY DEF WgDone
  <2>3. ip[l] \in 0..Through /\ Len(Shader) \in Nat
    BY Instructions, Kinds, Moving DEF WgInv
  <2> QED BY <2>1, <2>2, <2>3, Moving
<1>2. /\ row \in Nat /\ row > 0 /\ Columns \in Nat /\ Columns > 0
  BY WorkgroupAssumption DEF WgInv, Shapes
<1>3. CASE spare
  <2>1. ASSUME NEW i \in (IF ByRow THEN 0..(row - 1)
                          ELSE IF kernel = "pq2_rowsum_n" THEN 1..Columns ELSE {1})
        PROVE  i \in Places
    BY <1>2 DEF Places
  <2> QED BY <1>3, <2>1 DEF WgInv, ReducesTheRow
<1>4. CASE ~spare
  <2>1. \A l \in Lane : ip[l] = Through BY <1>1, <1>4, Moving
  <2>2. ASSUME ByRow, NEW i \in 0..(row - 1) PROVE written[i] = Expected
    <3>1. i \in Nat BY <1>2
    <3>2. i % Lanes \in Lane
      <4>1. /\ i % Lanes \in Int /\ 0 <= i % Lanes /\ i % Lanes < Lanes
        BY <3>1, LanesHalve, Division
      <4> DEFINE r == i % Lanes
      <4> HIDE DEF r
      <4>2. r \in Lane BY <4>1, LanesHalve DEF Lane, r
      <4> QED BY <4>2 DEF r
    <3> DEFINE m == i % Lanes
    <3>3. i \in Residue(m, Lanes) BY DEF Residue
    <3>4. Writes(m) /\ ip[m] = Through BY <2>1, <3>2 DEF WgInv
    <3> HIDE DEF m
    <3> QED BY <2>2, <3>3, <3>4 DEF Writes
  <2>3. ASSUME ~ByRow, NEW i \in (IF kernel = "pq2_rowsum_n" THEN 1..Columns ELSE {1})
        PROVE  written[i] = Expected
    <3>1. SumsRow BY <2>3, ExpectedIs, Kinds DEF WgInv
    <3>2. ip[0] = 6 BY <2>1, <3>1, ZeroIsLane, Moving
    <3>3. i \in 1..LastColumn BY <2>3 DEF LastColumn
    <3> QED BY <1>4, <3>1, <3>2, <3>3, ZeroIsLane DEF WgInv, Writes
  <2> QED BY <1>4, <2>2, <2>3 DEF ReducesTheRow
<1> QED BY <1>3, <1>4

\* Every kernel but the two softmaxes computes what it writes from the whole row,
\* each element once, for every size of workgroup that is a power of two, every
\* length of row and every number of columns, however the lanes are scheduled.
THEOREM ReducesWholeRow ==
  ASSUME Programs \subseteq SumKernels
  PROVE  WgSpec => []ReducesTheRow
<1>1. WgInit => WgInv BY InitHolds
<1>2. WgInv /\ [WgNext]_wgVars => WgInv' BY StepKeeps
<1>3. WgInv => ReducesTheRow BY InvReduces
<1> QED BY <1>1, <1>2, <1>3, PTL DEF WgSpec
=============================================================================
