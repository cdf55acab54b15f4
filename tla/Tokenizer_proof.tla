---------------------------- MODULE Tokenizer_proof ----------------------------
(***************************************************************************)
(* Proofs about encode: Tokenizer, for any text, any vocabulary of special   *)
(* tokens and any table of codepoints, and BpeMerge, for any word, any table *)
(* of merges and any vocabulary.                                            *)
(***************************************************************************)
EXTENDS Tokenizer, BpeMerge, Pieces_proof, FiniteSetTheorems

\* A set of naturals with a bound has a greatest one.
LEMMA GreatestNat ==
  ASSUME NEW T \in SUBSET Nat, T # {}, NEW b \in Nat, \A k \in T : k <= b
  PROVE  \E m \in T : \A k \in T : k <= m
<1> DEFINE D == {d \in Nat : \E k \in T : d = b - k}
<1>1. D \in SUBSET Nat /\ D # {}
  <2>1. PICK k \in T : TRUE
    OBVIOUS
  <2>2. b - k \in D
    OBVIOUS
  <2>3. QED BY <2>2
<1>2. PICK d \in D : \A o \in D : d <= o
  <2> HIDE DEF D
  <2>1. QED BY <1>1, LeastNat
<1>3. PICK m \in T : d = b - m
  OBVIOUS
<1>4. ASSUME NEW k \in T PROVE k <= m
  <2>1. b - k \in D
    OBVIOUS
  <2>2. d <= b - k
    BY <1>2, <2>1
  <2>3. QED BY <1>3, <2>2
<1>5. QED BY <1>4

-----------------------------------------------------------------------------
\* Codepoints, least elements and the first of some sets.

Codepoint == DOMAIN Kind

\* Min is the least element.
LEMMA MinIs ==
  ASSUME NEW T \in SUBSET Nat, T # {}
  PROVE  Min(T) \in T /\ \A k \in T : Min(T) <= k
<1>1. PICK m \in T : \A k \in T : m <= k
  BY LeastNat
<1>2. QED BY <1>1 DEF Min

\* An element that no other exceeds is Max.
LEMMA MaxIs ==
  ASSUME NEW T \in SUBSET Nat, NEW m \in T, \A k \in T : k <= m
  PROVE  Max(T) = m
<1>1. \A x \in T : (\A y \in T : x >= y) => x = m
  BY SMT
<1>2. \A y \in T : m >= y
  BY SMT
<1>3. QED BY <1>1, <1>2 DEF Max

\* The first set with an element.
LEMMA FirstIs ==
  ASSUME NEW m \in Nat, NEW s, DOMAIN s = 1..m, NEW k \in 1..m, s[k] # {},
         \A j \in 1..m : j < k => s[j] = {}
  PROVE  FirstOf(s) = s[k]
<1> DEFINE T == {j \in DOMAIN s : s[j] # {}}
<1>1. T \in SUBSET Nat /\ k \in T
  OBVIOUS
<1>2. Min(T) \in T /\ \A j \in T : Min(T) <= j
  <2> HIDE DEF T
  <2> QED BY <1>1, MinIs
<1>3. Min(T) = k
  <2> DEFINE x == Min(T)
  <2>1. x \in 1..m /\ s[x] # {} /\ x <= k
    BY <1>1, <1>2
  <2> HIDE DEF x
  <2>2. x = k
    BY <2>1
  <2>3. QED BY <2>2 DEF x
<1>4. QED BY <1>3 DEF FirstOf

\* The first that has an element, of the scanner's tests.
LEMMA FirstOfSix ==
  ASSUME NEW a, NEW b, NEW c, NEW d, NEW e, NEW f,
         NEW X, X = FirstOf(<<a, b, c, d, e, f>>)
  PROVE  /\ a # {} => X = a
         /\ a = {} /\ b # {} => X = b
         /\ a = {} /\ b = {} /\ c # {} => X = c
         /\ a = {} /\ b = {} /\ c = {} /\ d # {} => X = d
         /\ a = {} /\ b = {} /\ c = {} /\ d = {} /\ e # {} => X = e
         /\ a = {} /\ b = {} /\ c = {} /\ d = {} /\ e = {} /\ f # {} => X = f
<1> DEFINE s == <<a, b, c, d, e, f>>
<1>1. DOMAIN s = 1..6
  OBVIOUS
<1>2. s[1] = a /\ s[2] = b /\ s[3] = c /\ s[4] = d /\ s[5] = e /\ s[6] = f
  OBVIOUS
<1> HIDE DEF s
<1>3. \A k \in 1..6 : s[k] # {} /\ (\A j \in 1..6 : j < k => s[j] = {}) => FirstOf(s) = s[k]
  BY <1>1, FirstIs
<1>4. \A j \in 1..6 : j = 1 \/ j = 2 \/ j = 3 \/ j = 4 \/ j = 5 \/ j = 6
  OBVIOUS
<1>5. a # {} => FirstOf(s) = a
  BY <1>2, <1>3, <1>4
<1>6. a = {} /\ b # {} => FirstOf(s) = b
  BY <1>2, <1>3, <1>4
<1>7. a = {} /\ b = {} /\ c # {} => FirstOf(s) = c
  BY <1>2, <1>3, <1>4
<1>8. a = {} /\ b = {} /\ c = {} /\ d # {} => FirstOf(s) = d
  BY <1>2, <1>3, <1>4
<1>9. a = {} /\ b = {} /\ c = {} /\ d = {} /\ e # {} => FirstOf(s) = e
  BY <1>2, <1>3, <1>4
<1>10. a = {} /\ b = {} /\ c = {} /\ d = {} /\ e = {} /\ f # {} => FirstOf(s) = f
  BY <1>2, <1>3, <1>4
<1> QED BY <1>5, <1>6, <1>7, <1>8, <1>9, <1>10 DEF s

\* And of the alternatives of the expression.
LEMMA FirstOfEight ==
  ASSUME NEW a, NEW b, NEW c, NEW d, NEW e, NEW f, NEW g, NEW h,
         NEW X, X = FirstOf(<<a, b, c, d, e, f, g, h>>)
  PROVE  /\ a # {} => X = a
         /\ a = {} /\ b # {} => X = b
         /\ a = {} /\ b = {} /\ c # {} => X = c
         /\ a = {} /\ b = {} /\ c = {} /\ d # {} => X = d
         /\ a = {} /\ b = {} /\ c = {} /\ d = {} /\ e # {} => X = e
         /\ a = {} /\ b = {} /\ c = {} /\ d = {} /\ e = {} /\ f # {} => X = f
         /\ a = {} /\ b = {} /\ c = {} /\ d = {} /\ e = {} /\ f = {} /\ g # {} => X = g
         /\ a = {} /\ b = {} /\ c = {} /\ d = {} /\ e = {} /\ f = {} /\ g = {} /\ h # {} => X = h
<1> DEFINE s == <<a, b, c, d, e, f, g, h>>
<1>1. DOMAIN s = 1..8
  OBVIOUS
<1>2. /\ s[1] = a /\ s[2] = b /\ s[3] = c /\ s[4] = d /\ s[5] = e /\ s[6] = f /\ s[7] = g
      /\ s[8] = h
  OBVIOUS
<1> HIDE DEF s
<1>3. \A k \in 1..8 : s[k] # {} /\ (\A j \in 1..8 : j < k => s[j] = {}) => FirstOf(s) = s[k]
  BY <1>1, FirstIs
<1>4. \A j \in 1..8 : j = 1 \/ j = 2 \/ j = 3 \/ j = 4 \/ j = 5 \/ j = 6 \/ j = 7 \/ j = 8
  OBVIOUS
<1>5. a # {} => FirstOf(s) = a
  BY <1>2, <1>3, <1>4
<1>6. a = {} /\ b # {} => FirstOf(s) = b
  BY <1>2, <1>3, <1>4
<1>7. a = {} /\ b = {} /\ c # {} => FirstOf(s) = c
  BY <1>2, <1>3, <1>4
<1>8. a = {} /\ b = {} /\ c = {} /\ d # {} => FirstOf(s) = d
  BY <1>2, <1>3, <1>4
<1>9. a = {} /\ b = {} /\ c = {} /\ d = {} /\ e # {} => FirstOf(s) = e
  BY <1>2, <1>3, <1>4
<1>10. a = {} /\ b = {} /\ c = {} /\ d = {} /\ e = {} /\ f # {} => FirstOf(s) = f
  BY <1>2, <1>3, <1>4
<1>11. a = {} /\ b = {} /\ c = {} /\ d = {} /\ e = {} /\ f = {} /\ g # {} => FirstOf(s) = g
  BY <1>2, <1>3, <1>4
<1>12. a = {} /\ b = {} /\ c = {} /\ d = {} /\ e = {} /\ f = {} /\ g = {} /\ h # {} =>
         FirstOf(s) = h
  BY <1>2, <1>3, <1>4
<1> QED BY <1>5, <1>6, <1>7, <1>8, <1>9, <1>10, <1>11, <1>12 DEF s

\* The kinds of a fragment's codepoints; behind its end there is none.
LEMMA KindsAre ==
  ASSUME Cs \in Seq(Codepoint), NEW p \in Nat \ {0}
  PROVE  /\ KindAt(p) \in Kinds
         /\ p > Len(Cs) => KindAt(p) = "none"
         /\ p \in 1..Len(Cs) => Cs[p] \in Codepoint /\ KindAt(p) = Kind[Cs[p]]
<1> DEFINE c == Cs
<1>1. c \in Seq(Codepoint) /\ KindAt(p) = IF p <= Len(c) THEN Kind[c[p]] ELSE "none"
  BY DEF KindAt
<1> HIDE DEF c
<1>2. p \in 1..Len(c) => c[p] \in Codepoint
  BY <1>1
<1>3. Len(c) \in Nat /\ (p \in 1..Len(c) <=> p <= Len(c))
  BY <1>1
<1>4. "none" \in Kinds
  BY DEF Kinds
<1>5. p \in 1..Len(c) => Kind[c[p]] \in Kinds
  BY <1>2, TokenizerAssumption DEF Codepoint
<1> QED BY <1>1, <1>2, <1>3, <1>4, <1>5 DEF c

\* Where a run ends.
LEMMA PastIs ==
  ASSUME Cs \in Seq(Codepoint), NEW p \in 1..(Len(Cs) + 1), NEW kinds, "none" \notin kinds
  PROVE  /\ Past(p, kinds) \in p..(Len(Cs) + 1)
         /\ ~Is(Past(p, kinds), kinds)
         /\ \A i \in p..(Past(p, kinds) - 1) : Is(i, kinds)
<1> DEFINE T == {q \in p..(Len(Cs) + 1) : ~Is(q, kinds)}
<1>1. Len(Cs) \in Nat
  OBVIOUS
<1>2. KindAt(Len(Cs) + 1) = "none"
  BY <1>1, KindsAre
<1>3. Len(Cs) + 1 \in T
  BY <1>1, <1>2 DEF Is
<1>4. T \in SUBSET Nat
  BY <1>1
<1>5. Min(T) \in T /\ \A k \in T : Min(T) <= k
  <2> HIDE DEF T
  <2> QED BY <1>3, <1>4, MinIs
<1>6. Past(p, kinds) = Min(T)
  BY DEF Past
<1> QED BY <1>1, <1>5, <1>6

-----------------------------------------------------------------------------
\* The scanner's tests and the alternatives of the regular expression.

\* All of a stretch of a fragment is of the kinds.
LEMMA WithinIs ==
  ASSUME Cs \in Seq(Codepoint), NEW p \in Nat \ {0}, NEW e \in 1..(Len(Cs) + 1), NEW kinds
  PROVE  Within(Cs, p, e, kinds) <=> \A i \in p..(e - 1) : Is(i, kinds)
<1>1. Len(Cs) \in Nat
  OBVIOUS
<1>2. \A i \in p..(e - 1) : KindAt(i) = Kind[Cs[i]]
  <2>1. SUFFICES ASSUME NEW i \in p..(e - 1) PROVE KindAt(i) = Kind[Cs[i]]
    OBVIOUS
  <2>2. i \in Nat \ {0} /\ i \in 1..Len(Cs)
    BY <1>1
  <2>3. QED BY <2>2, KindsAre
<1>3. QED BY <1>2 DEF Within, Is

\* What is of the kinds from p on ends where the run ends, or before.
LEMMA RunIs ==
  ASSUME Cs \in Seq(Codepoint), NEW p \in 1..(Len(Cs) + 1), NEW kinds, "none" \notin kinds,
         NEW e \in p..(Len(Cs) + 1)
  PROVE  Within(Cs, p, e, kinds) <=> e <= Past(p, kinds)
<1>1. Len(Cs) \in Nat
  OBVIOUS
<1>2. /\ Past(p, kinds) \in p..(Len(Cs) + 1)
      /\ ~Is(Past(p, kinds), kinds)
      /\ \A i \in p..(Past(p, kinds) - 1) : Is(i, kinds)
  BY PastIs
<1>3. Within(Cs, p, e, kinds) <=> \A i \in p..(e - 1) : Is(i, kinds)
  BY <1>1, WithinIs
<1> DEFINE q == Past(p, kinds)
<1> HIDE DEF q
<1>4. q \in p..(Len(Cs) + 1) /\ ~Is(q, kinds) /\ \A i \in p..(q - 1) : Is(i, kinds)
  BY <1>2 DEF q
<1>5. ASSUME e <= q PROVE \A i \in p..(e - 1) : Is(i, kinds)
  BY <1>1, <1>4, <1>5
<1>6. ASSUME ~(e <= q) PROVE ~(\A i \in p..(e - 1) : Is(i, kinds))
  <2>1. q \in p..(e - 1)
    BY <1>1, <1>4, <1>6
  <2>2. QED BY <2>1, <1>4
<1>7. QED BY <1>3, <1>5, <1>6 DEF q

\* Two characters in lower case, or three; and nothing else is as long.
LEMMA LowerOfTwo ==
  ASSUME NEW c, NEW p \in Nat
  PROVE  LowerOf(c, p, p + 2) = <<Lower[c[p]], Lower[c[p + 1]]>>
<1> DEFINE s == LowerOf(c, p, p + 2)
<1>1. s = [i \in 1..2 |-> Lower[c[p + i - 1]]]
  <2>1. s = [i \in 1..((p + 2) - p) |-> Lower[c[p + i - 1]]]
    BY DEF LowerOf
  <2>2. 1..((p + 2) - p) = 1..2
    OBVIOUS
  <2> HIDE DEF s
  <2>3. QED BY <2>1, <2>2
<1>2. p + 1 - 1 = p /\ p + 2 - 1 = p + 1
  OBVIOUS
<1>3. s[1] = Lower[c[p]] /\ s[2] = Lower[c[p + 1]] /\ DOMAIN s = 1..2
  BY <1>1, <1>2
<1>4. QED BY <1>1, <1>3

\* Three codepoints in lower case.
LEMMA LowerOfThree ==
  ASSUME NEW c, NEW p \in Nat
  PROVE  LowerOf(c, p, p + 3) = <<Lower[c[p]], Lower[c[p + 1]], Lower[c[p + 2]]>>
<1> DEFINE s == LowerOf(c, p, p + 3)
<1>1. s = [i \in 1..3 |-> Lower[c[p + i - 1]]]
  <2>1. s = [i \in 1..((p + 3) - p) |-> Lower[c[p + i - 1]]]
    BY DEF LowerOf
  <2>2. 1..((p + 3) - p) = 1..3
    OBVIOUS
  <2> HIDE DEF s
  <2>3. QED BY <2>1, <2>2
<1>2. p + 1 - 1 = p /\ p + 2 - 1 = p + 1 /\ p + 3 - 1 = p + 2
  OBVIOUS
<1>3. /\ s[1] = Lower[c[p]] /\ s[2] = Lower[c[p + 1]] /\ s[3] = Lower[c[p + 2]]
      /\ DOMAIN s = 1..3
  BY <1>1, <1>2
<1>4. QED BY <1>1, <1>3

\* Stretches of other lengths are no contraction.
LEMMA LowerOfOther ==
  ASSUME NEW c, NEW p \in Nat, NEW e \in Nat, p < e
  PROVE  /\ e # p + 2 => \A x, y : LowerOf(c, p, e) # <<x, y>>
         /\ e # p + 3 => \A x, y, z : LowerOf(c, p, e) # <<x, y, z>>
<1> DEFINE s == LowerOf(c, p, e)
<1>1. DOMAIN s = 1..(e - p) /\ e - p \in 1..(e - p)
  BY DEF LowerOf
<1> HIDE DEF s
<1>2. ASSUME NEW x, NEW y, s = <<x, y>> PROVE e = p + 2
  <2>1. DOMAIN s = 1..2
    BY <1>2
  <2>2. e - p \in 1..2 /\ 2 \in 1..(e - p)
    <3>1. 1..(e - p) = 1..2
      BY <1>1, <2>1, Zenon
    <3>2. 2 \in 1..2
      OBVIOUS
    <3>3. QED BY <1>1, <3>1, <3>2, Zenon
  <2>3. QED BY <2>2
<1>3. ASSUME NEW x, NEW y, NEW z, s = <<x, y, z>> PROVE e = p + 3
  <2>1. DOMAIN s = 1..3
    BY <1>3
  <2>2. e - p \in 1..3 /\ 3 \in 1..(e - p)
    <3>1. 1..(e - p) = 1..3
      BY <1>1, <2>1, Zenon
    <3>2. 3 \in 1..3
      OBVIOUS
    <3>3. QED BY <1>1, <3>1, <3>2, Zenon
  <2>3. QED BY <2>2
<1>4. QED BY <1>2, <1>3, Zenon DEF s

\* The scanner's test for a contraction finds what the expression matches.
LEMMA ApostropheIs ==
  ASSUME Cs \in Seq(Codepoint), NEW p \in 1..Len(Cs)
  PROVE  ByApostrophe(Cs, p) = Contraction(p)
<1>1. Len(Cs) \in Nat
  OBVIOUS
<1> DEFINE c == Cs
           L == Len(c)
<1> HIDE DEF c, L
<1>2. L \in Nat /\ p \in 1..L
  BY <1>1 DEF c, L
<1>3. CAt(p) = c[p] /\ (Lower[c[p]] = "'" <=> c[p] = "'")
  <2>1. c[p] \in Codepoint
    BY DEF c
  <2>2. QED BY <2>1, <1>2, TokenizerAssumption DEF CAt, Codepoint, c, L
<1>4. /\ p + 1 <= L => LowerAt(p + 1) = Lower[c[p + 1]]
      /\ ~(p + 1 <= L) => LowerAt(p + 1) = "end"
      /\ p + 2 <= L => LowerAt(p + 2) = Lower[c[p + 2]]
      /\ ~(p + 2 <= L) => LowerAt(p + 2) = "end"
  BY DEF LowerAt, c, L
<1>5. ASSUME NEW e
      PROVE  e \in ByApostrophe(c, p) <=>
        /\ e \in (p + 1)..(L + 1)
        /\ Lower[c[p]] = "'"
        /\ \/ e = p + 2 /\ Lower[c[p + 1]] \in {"s", "t", "m", "d"}
           \/ /\ e = p + 3
              /\ \/ Lower[c[p + 1]] = "r" /\ Lower[c[p + 2]] = "e"
                 \/ Lower[c[p + 1]] = "v" /\ Lower[c[p + 2]] = "e"
                 \/ Lower[c[p + 1]] = "l" /\ Lower[c[p + 2]] = "l"
  <2>1. e \in ByApostrophe(c, p) <=>
          /\ e \in (p + 1)..(L + 1)
          /\ \/ LowerOf(c, p, e) = <<"'", "s">>
             \/ LowerOf(c, p, e) = <<"'", "t">>
             \/ LowerOf(c, p, e) = <<"'", "m">>
             \/ LowerOf(c, p, e) = <<"'", "d">>
             \/ LowerOf(c, p, e) = <<"'", "r", "e">>
             \/ LowerOf(c, p, e) = <<"'", "v", "e">>
             \/ LowerOf(c, p, e) = <<"'", "l", "l">>
    BY Zenon DEF ByApostrophe, Ends, L
  <2>2. CASE ~(e \in (p + 1)..(L + 1))
    BY <2>1, <2>2
  <2>3. CASE e \in (p + 1)..(L + 1)
    <3>1. e \in Nat /\ p \in Nat /\ p < e
      BY <2>3, <1>2
    <3>2. CASE e = p + 2
      <4>1. LowerOf(c, p, e) = <<Lower[c[p]], Lower[c[p + 1]]>>
        BY <3>1, <3>2, LowerOfTwo
      <4>2. \A x, y, z : LowerOf(c, p, e) # <<x, y, z>>
        BY <3>1, <3>2, LowerOfOther
      <4>3. e \in ByApostrophe(c, p) <=>
              \/ <<Lower[c[p]], Lower[c[p + 1]]>> = <<"'", "s">>
              \/ <<Lower[c[p]], Lower[c[p + 1]]>> = <<"'", "t">>
              \/ <<Lower[c[p]], Lower[c[p + 1]]>> = <<"'", "m">>
              \/ <<Lower[c[p]], Lower[c[p + 1]]>> = <<"'", "d">>
        BY <2>1, <2>3, <4>1, <4>2, Zenon
      <4>4. QED BY <2>3, <3>1, <3>2, <4>3
    <3>3. CASE e = p + 3
      <4>1. LowerOf(c, p, e) = <<Lower[c[p]], Lower[c[p + 1]], Lower[c[p + 2]]>>
        BY <3>1, <3>3, LowerOfThree
      <4>2. \A x, y : LowerOf(c, p, e) # <<x, y>>
        BY <3>1, <3>3, LowerOfOther
      <4>3. e \in ByApostrophe(c, p) <=>
              \/ <<Lower[c[p]], Lower[c[p + 1]], Lower[c[p + 2]]>> = <<"'", "r", "e">>
              \/ <<Lower[c[p]], Lower[c[p + 1]], Lower[c[p + 2]]>> = <<"'", "v", "e">>
              \/ <<Lower[c[p]], Lower[c[p + 1]], Lower[c[p + 2]]>> = <<"'", "l", "l">>
        BY <2>1, <2>3, <4>1, <4>2, Zenon
      <4>4. QED BY <2>3, <3>1, <3>3, <4>3
    <3>4. CASE e # p + 2 /\ e # p + 3
      <4>1. /\ \A x, y : LowerOf(c, p, e) # <<x, y>>
            /\ \A x, y, z : LowerOf(c, p, e) # <<x, y, z>>
        BY <3>1, <3>4, LowerOfOther, Zenon
      <4>2. ~(e \in ByApostrophe(c, p))
        BY <2>1, <4>1, Zenon
      <4>3. QED BY <3>4, <4>2
    <3>5. QED BY <3>2, <3>3, <3>4
  <2>4. QED BY <2>2, <2>3
<1>6. CASE c[p] # "'"
  BY <1>3, <1>5, <1>6 DEF Contraction, c
<1>7. CASE c[p] = "'" /\ LowerAt(p + 1) \in {"s", "t", "m", "d"}
  <2>1. p + 1 <= L /\ Lower[c[p + 1]] \in {"s", "t", "m", "d"}
    BY <1>4, <1>7
  <2>2. Contraction(p) = {p + 2}
    BY <1>3, <1>7 DEF Contraction
  <2>3. \A e : e \in ByApostrophe(c, p) <=> e = p + 2
    BY <1>2, <1>3, <1>5, <1>7, <2>1
  <2>4. QED BY <2>2, <2>3 DEF c
<1>8. CASE /\ c[p] = "'" /\ LowerAt(p + 1) \notin {"s", "t", "m", "d"}
           /\ <<LowerAt(p + 1), LowerAt(p + 2)>> \in {<<"r", "e">>, <<"v", "e">>, <<"l", "l">>}
  <2>1. p + 2 <= L
    BY <1>2, <1>4, <1>8
  <2>2. Contraction(p) = {p + 3}
    BY <1>3, <1>8 DEF Contraction
  <2>3. \A e : e \in ByApostrophe(c, p) <=> e = p + 3
    BY <1>2, <1>3, <1>4, <1>5, <1>8, <2>1
  <2>4. QED BY <2>2, <2>3 DEF c
<1>9. CASE /\ c[p] = "'" /\ LowerAt(p + 1) \notin {"s", "t", "m", "d"}
           /\ <<LowerAt(p + 1), LowerAt(p + 2)>> \notin {<<"r", "e">>, <<"v", "e">>, <<"l", "l">>}
  <2>1. Contraction(p) = {}
    BY <1>3, <1>9 DEF Contraction
  <2>2. \A e : ~(e \in ByApostrophe(c, p))
    BY <1>2, <1>3, <1>4, <1>5, <1>9
  <2>3. QED BY <2>1, <2>2 DEF c
<1>10. QED BY <1>6, <1>7, <1>8, <1>9

\* The same for letters: all that the expression matches from p on ends with the
\* run of letters, or before.
LEMMA LettersAre ==
  ASSUME Cs \in Seq(Codepoint), NEW p \in 1..Len(Cs)
  PROVE  /\ LetterRun(p) = {} => ByLetters(Cs, p) = {}
         /\ LetterRun(p) # {} => /\ LetterRun(p) = {Past(p + 1, {"letter", "mark"})}
                                 /\ Past(p + 1, {"letter", "mark"}) \in ByLetters(Cs, p)
                                 /\ \A e \in ByLetters(Cs, p) : e <= Past(p + 1, {"letter", "mark"})
<1> DEFINE LM == {"letter", "mark"}
           Else == {"space", "blank", "mark", "punct", "none"}
           q == Past(p + 1, LM)
           L == Len(Cs)
<1>1. L \in Nat /\ p \in 1..L /\ p + 1 \in 1..(L + 1) /\ "none" \notin LM
  OBVIOUS
<1>2. /\ q \in (p + 1)..(L + 1)
      /\ \A e \in (p + 1)..(L + 1) : Within(Cs, p + 1, e, LM) <=> e <= q
  BY <1>1, PastIs, RunIs
<1>3. KindAt(p) \in Kinds
  BY <1>1, KindsAre
<1>4. \A e \in (p + 1)..(L + 1) : Within(Cs, p, e, LM) <=> \A i \in p..(e - 1) : Is(i, LM)
  BY <1>1, WithinIs
<1>5. \A e \in (p + 1)..(L + 1) : Within(Cs, p + 1, e, LM) <=> \A i \in (p + 1)..(e - 1) : Is(i, LM)
  BY <1>1, WithinIs
<1>6. /\ Within(Cs, p, p, Else)
      /\ Within(Cs, p, p + 1, Else) <=> Is(p, Else)
  <2>1. p \in 1..(L + 1) /\ p + 1 \in 1..(L + 1) /\ p \in Nat \ {0}
    BY <1>1
  <2>2. /\ Within(Cs, p, p, Else) <=> \A i \in p..(p - 1) : Is(i, Else)
        /\ Within(Cs, p, p + 1, Else) <=> \A i \in p..(p + 1 - 1) : Is(i, Else)
    BY <2>1, WithinIs
  <2>3. p..(p - 1) = {} /\ p..(p + 1 - 1) = {p}
    BY <1>1
  <2>4. QED BY <2>2, <2>3
<1>7. ASSUME NEW e
      PROVE  e \in ByLetters(Cs, p) <=>
        /\ e \in (p + 1)..(L + 1)
        /\ \/ Within(Cs, p, e, LM)
           \/ p + 1 < e /\ Within(Cs, p + 1, e, LM) /\ Is(p, Else)
  <2> HIDE DEF LM, Else, L
  <2>1. e \in ByLetters(Cs, p) <=>
        /\ e \in (p + 1)..(L + 1)
        /\ \E s \in {p, p + 1} : s < e /\ Within(Cs, s, e, LM) /\ Within(Cs, p, s, Else)
    BY Zenon DEF ByLetters, Ends, LM, Else, L
  <2>2. QED BY <1>1, <1>6, <2>1
<1>8. Is(p, LM) \/ (~Is(p, LM) /\ Is(p, Else)) \/ Is(p, {"newline", "number"})
  BY <1>3 DEF Is, Kinds, Main, White
<1>9. /\ Is(p, LM) => ~Is(p, {"newline", "number"})
      /\ Is(p, Else) => ~Is(p, {"newline", "number"})
  BY DEF Is
<1>10. Is(p + 1, LM) <=> p + 1 < q
  <2>1. q > p + 1 => Is(p + 1, LM)
    BY <1>1, PastIs
  <2>2. q = p + 1 => ~Is(p + 1, LM)
    BY <1>1, PastIs
  <2>3. QED BY <1>1, <1>2, <2>1, <2>2
<1>11. \A e \in (p + 1)..(L + 1) : Within(Cs, p, e, LM) <=> Is(p, LM) /\ e <= q
  <2> HIDE DEF LM, q, L
  <2>1. SUFFICES ASSUME NEW e \in (p + 1)..(L + 1)
                 PROVE  Within(Cs, p, e, LM) <=> Is(p, LM) /\ Within(Cs, p + 1, e, LM)
    BY <1>2
  <2>2. \A i : i \in p..(e - 1) <=> i = p \/ i \in (p + 1)..(e - 1)
    BY <1>1
  <2>3. QED BY <1>4, <1>5, <2>2
<1>12. LetterRun(p) = IF ~Is(p, {"newline", "number"}) /\ (Is(p, LM) \/ Is(p + 1, LM)) THEN {q} ELSE {}
  BY DEF LetterRun
<1> HIDE DEF LM, Else, q, L
<1>13. ASSUME NEW e
      PROVE  e \in ByLetters(Cs, p) <=>
        /\ e \in (p + 1)..(L + 1)
        /\ e <= q
        /\ Is(p, LM) \/ (p + 1 < e /\ Is(p, Else))
  BY <1>2, <1>7, <1>11
<1>14. CASE Is(p, LM)
  BY <1>2, <1>9, <1>12, <1>13, <1>14 DEF LM, q
<1>15. CASE ~Is(p, LM) /\ Is(p, Else) /\ Is(p + 1, LM)
  BY <1>2, <1>9, <1>10, <1>12, <1>13, <1>15 DEF LM, q
<1>16. CASE ~Is(p, LM) /\ Is(p, Else) /\ ~Is(p + 1, LM)
  <2>1. q = p + 1
    BY <1>1, <1>2, <1>10, <1>16
  <2>2. \A e : ~(e \in ByLetters(Cs, p))
    BY <1>1, <1>13, <1>16, <2>1
  <2>3. LetterRun(p) = {}
    BY <1>12, <1>16
  <2>4. QED BY <2>2, <2>3
<1>17. CASE Is(p, {"newline", "number"})
  <2>1. \A e : ~(e \in ByLetters(Cs, p))
    BY <1>9, <1>13, <1>17
  <2>2. LetterRun(p) = {}
    BY <1>12, <1>17
  <2>3. QED BY <2>1, <2>2
<1>18. QED BY <1>8, <1>14, <1>15, <1>16, <1>17

\* A number is one codepoint in both.
LEMMA DigitIs ==
  ASSUME Cs \in Seq(Codepoint), NEW p \in 1..Len(Cs)
  PROVE  ByDigit(Cs, p) = Digit(p)
<1>1. Len(Cs) \in Nat /\ p \in Nat \ {0} /\ p + 1 \in 1..(Len(Cs) + 1)
  OBVIOUS
<1>2. Within(Cs, p, p + 1, {"number"}) <=> \A i \in p..(p + 1 - 1) : Is(i, {"number"})
  BY <1>1, WithinIs
<1>3. p..(p + 1 - 1) = {p}
  BY <1>1
<1>4. p + 1 \in (p + 1)..(Len(Cs) + 1)
  BY <1>1
<1>5. \A e : e \in ByDigit(Cs, p) <=> e = p + 1 /\ Is(p, {"number"})
  BY <1>2, <1>3, <1>4, Zenon DEF ByDigit, Ends
<1>6. QED BY <1>5 DEF Digit

\* Where symbols begin, with a space before them or without, and where they end.
SymbolsFrom(p) == IF Is(p, {"space"}) THEN p + 1 ELSE p
SymbolsEnd(p) == Past(Past(SymbolsFrom(p), {"punct"}), {"newline"})

\* The symbols that the expression matches from p on end where the scanner's do, or
\* before.
LEMMA SymbolsAre ==
  ASSUME Cs \in Seq(Codepoint), NEW p \in 1..Len(Cs)
  PROVE  /\ ~Is(SymbolsFrom(p), {"punct"}) => BySymbols(Cs, p, {"punct"}) = {}
         /\ Is(SymbolsFrom(p), {"punct"}) =>
              /\ SymbolsEnd(p) \in BySymbols(Cs, p, {"punct"})
              /\ \A e \in BySymbols(Cs, p, {"punct"}) : e <= SymbolsEnd(p)
<1> DEFINE L == Len(Cs)
           P == {"punct"}
           N == {"newline"}
           f == SymbolsFrom(p)
           a == Past(f, P)
           b == Past(a, N)
<1>1. L \in Nat /\ p \in 1..L /\ "none" \notin P /\ "none" \notin N
  OBVIOUS
<1>2. f \in p..(p + 1) /\ f \in 1..(L + 1)
  BY <1>1 DEF SymbolsFrom
<1> HIDE DEF f, L, P, N
<1>3. /\ a \in f..(L + 1) /\ ~Is(a, P) /\ \A i \in f..(a - 1) : Is(i, P)
      /\ \A e \in f..(L + 1) : Within(Cs, f, e, P) <=> e <= a
  BY <1>1, <1>2, PastIs, RunIs DEF L
<1>4. a \in 1..(L + 1)
  BY <1>1, <1>2, <1>3
<1> HIDE DEF a
<1>5. /\ b \in a..(L + 1)
      /\ \A e \in a..(L + 1) : Within(Cs, a, e, N) <=> e <= b
  BY <1>1, <1>4, PastIs, RunIs DEF L
<1> HIDE DEF b
<1>6. KindAt(p) \in Kinds
  BY <1>1, KindsAre
<1>7. /\ Within(Cs, p, p, {"space"})
      /\ Within(Cs, p, p + 1, {"space"}) <=> Is(p, {"space"})
  <2>1. p \in 1..(L + 1) /\ p + 1 \in 1..(L + 1) /\ p \in Nat \ {0}
    BY <1>1
  <2>2. /\ Within(Cs, p, p, {"space"}) <=> \A i \in p..(p - 1) : Is(i, {"space"})
        /\ Within(Cs, p, p + 1, {"space"}) <=> \A i \in p..(p + 1 - 1) : Is(i, {"space"})
    BY <2>1, WithinIs DEF L
  <2>3. p..(p - 1) = {} /\ p..(p + 1 - 1) = {p}
    BY <1>1
  <2>4. QED BY <2>2, <2>3
<1>8. ASSUME NEW e
      PROVE  e \in BySymbols(Cs, p, P) <=>
        /\ e \in (p + 1)..(L + 1)
        /\ \E s \in {p, p + 1}, m \in (p + 1)..(L + 1) :
             /\ s < m /\ m <= e /\ Within(Cs, p, s, {"space"})
             /\ Within(Cs, s, m, P) /\ Within(Cs, m, e, N)
  BY Zenon DEF BySymbols, Ends, L, N
<1>9. ASSUME NEW e \in BySymbols(Cs, p, P)
      PROVE  Is(f, P) /\ e <= b
  <2>1. PICK s \in {p, p + 1}, m \in (p + 1)..(L + 1) :
             /\ s < m /\ m <= e /\ Within(Cs, p, s, {"space"})
             /\ Within(Cs, s, m, P) /\ Within(Cs, m, e, N)
    BY <1>8
  <2>2. e \in (p + 1)..(L + 1)
    BY <1>8
  <2>3. s \in Nat \ {0} /\ m \in 1..(L + 1) /\ e \in 1..(L + 1) /\ m \in Nat \ {0}
    BY <1>1, <2>1, <2>2
  <2>4. /\ Within(Cs, s, m, P) <=> \A i \in s..(m - 1) : Is(i, P)
        /\ Within(Cs, m, e, N) <=> \A i \in m..(e - 1) : Is(i, N)
    BY <2>3, WithinIs DEF L
  <2>5. Is(s, P)
    <3>1. s \in s..(m - 1)
      BY <2>1, <2>3
    <3>2. QED BY <2>1, <2>4, <3>1
  <2>6. s = f
    <3>1. CASE s = p
      <4>1. ~Is(p, {"space"})
        BY <2>5, <3>1 DEF Is, P
      <4>2. QED BY <3>1, <4>1 DEF f, SymbolsFrom
    <3>2. CASE s = p + 1
      <4>1. Is(p, {"space"})
        BY <1>7, <2>1, <3>2
      <4>2. QED BY <3>2, <4>1 DEF f, SymbolsFrom
    <3>3. QED BY <3>1, <3>2
  <2>7. m <= a
    BY <1>2, <1>3, <2>1, <2>3, <2>6
  <2>8. CASE m = a
    <3>1. e \in a..(L + 1) /\ Within(Cs, a, e, N)
      BY <2>1, <2>3, <2>8
    <3>2. e <= b
      BY <1>5, <3>1
    <3>3. QED BY <2>5, <2>6, <3>2
  <2>9. CASE m < a
    <3>1. Is(m, P)
      BY <1>1, <1>2, <1>3, <2>1, <2>3, <2>6, <2>9
    <3>2. ~Is(m, N)
      BY <3>1 DEF Is, P, N
    <3>3. ~(m < e)
      <4>1. m < e => m \in m..(e - 1)
        BY <2>3
      <4>2. QED BY <2>1, <2>4, <3>2, <4>1
    <3>4. QED BY <1>1, <1>2, <1>3, <1>5, <2>1, <2>2, <2>3, <2>5, <2>6, <2>9, <3>3
  <2>10. QED BY <1>1, <1>2, <1>3, <2>3, <2>5, <2>6, <2>7, <2>8, <2>9
<1>10. ASSUME Is(f, P)
       PROVE  b \in BySymbols(Cs, p, P)
  <2>1. f < a
    BY <1>1, <1>2, <1>3, <1>10
  <2>2. b \in (p + 1)..(L + 1) /\ a \in (p + 1)..(L + 1) /\ f \in {p, p + 1}
    BY <1>1, <1>2, <1>3, <1>5, <2>1
  <2>3. Within(Cs, p, f, {"space"})
    BY <1>7 DEF f, SymbolsFrom
  <2>4. Within(Cs, f, a, P) /\ Within(Cs, a, b, N) /\ a <= b
    BY <1>1, <1>2, <1>3, <1>4, <1>5
  <2>5. QED BY <1>8, <2>1, <2>2, <2>3, <2>4
<1>11. SymbolsEnd(p) = b
  BY DEF SymbolsEnd, b, a, f, P, N
<1> QED BY <1>9, <1>10, <1>11, Zenon DEF f, P

\* What the scanner takes for symbols: a run of them, or a space that neither a word
\* nor symbols follow.
LEMMA PunctRunIs ==
  ASSUME Cs \in Seq(Codepoint), NEW p \in 1..Len(Cs)
  PROVE  /\ Is(SymbolsFrom(p), {"punct"}) => PunctRun(p) = {SymbolsEnd(p)}
         /\ ~Is(SymbolsFrom(p), {"punct"}) =>
              \/ PunctRun(p) = {}
              \/ PunctRun(p) = {p + 1} /\ KindAt(p) = "space" /\ KindAt(p + 1) = "none"
<1> DEFINE L == Len(Cs)
           f == SymbolsFrom(p)
<1>1. L \in Nat /\ p \in 1..L /\ p + 1 \in 1..(L + 1)
  OBVIOUS
<1>2. PunctRun(p) = IF ~Is(f, Main) /\ ~Is(p, {"none"}) THEN {SymbolsEnd(p)} ELSE {}
  BY DEF PunctRun, SymbolsFrom, SymbolsEnd
<1>3. f \in 1..(L + 1) /\ f \in Nat \ {0} /\ p \in Nat \ {0}
  BY <1>1 DEF SymbolsFrom
<1>4. KindAt(f) \in Kinds /\ KindAt(p) \in Kinds
  BY <1>3, KindsAre
<1>5. CASE Is(f, {"punct"})
  <2>1. ~Is(f, Main)
    BY <1>5 DEF Is, Main, White
  <2>2. ~Is(p, {"none"})
    BY <1>5 DEF Is, SymbolsFrom
  <2>3. QED BY <1>2, <1>5, <2>1, <2>2
<1>6. CASE ~Is(f, {"punct"}) /\ PunctRun(p) # {}
  <2>1. ~Is(f, Main) /\ ~Is(p, {"none"}) /\ PunctRun(p) = {SymbolsEnd(p)}
    BY <1>2, <1>6
  <2>2. KindAt(f) = "none"
    BY <1>4, <1>6, <2>1 DEF Is, Kinds
  <2>3. f = p + 1 /\ KindAt(p) = "space"
    BY <2>1, <2>2 DEF Is, SymbolsFrom
  <2>4. KindAt(p + 1) = "none" /\ "none" \notin {"punct"} /\ "none" \notin {"newline"}
    BY <2>2, <2>3
  <2>5. Past(p + 1, {"punct"}) = p + 1
    <3>1. /\ Past(p + 1, {"punct"}) \in (p + 1)..(L + 1)
          /\ \A i \in (p + 1)..(Past(p + 1, {"punct"}) - 1) : Is(i, {"punct"})
      BY <1>1, <2>4, PastIs
    <3>2. ~Is(p + 1, {"punct"})
      BY <2>4 DEF Is
    <3>3. QED BY <1>1, <3>1, <3>2
  <2>6. Past(p + 1, {"newline"}) = p + 1
    <3>1. /\ Past(p + 1, {"newline"}) \in (p + 1)..(L + 1)
          /\ \A i \in (p + 1)..(Past(p + 1, {"newline"}) - 1) : Is(i, {"newline"})
      BY <1>1, <2>4, PastIs
    <3>2. ~Is(p + 1, {"newline"})
      BY <2>4 DEF Is
    <3>3. QED BY <1>1, <3>1, <3>2
  <2>7. SymbolsEnd(p) = p + 1
    BY <2>3, <2>5, <2>6 DEF SymbolsEnd
  <2>8. QED BY <1>6, <2>1, <2>3, <2>4, <2>7
<1>7. QED BY <1>5, <1>6

\* What the expression's three alternatives for white space match within a run of it.
LEMMA WhitesAre ==
  ASSUME Cs \in Seq(Codepoint), NEW p \in 1..Len(Cs), NEW q, q = Past(p, White)
  PROVE  /\ q \in p..(Len(Cs) + 1) /\ "none" \notin White
         /\ \A i \in p..(q - 1) : Is(i, White)
         /\ ~Is(q, White)
         /\ \A e : e \in ByNewline(Cs, p) <=> e \in (p + 1)..q /\ Is(e - 1, {"newline"})
         /\ \A e : e \in BeforeWhite(Cs, p) <=> e \in (p + 1)..q /\ (e <= Len(Cs) => Is(e, White))
         /\ \A e : e \in ByWhite(Cs, p) <=> e \in (p + 1)..q
<1> DEFINE L == Len(Cs)
<1>1. L \in Nat /\ p \in 1..L /\ p \in 1..(L + 1)
  OBVIOUS
<1>2. "none" \notin White
  BY DEF White
<1>3. /\ q \in p..(L + 1) /\ ~Is(q, White)
      /\ \A i \in p..(q - 1) : Is(i, White)
      /\ \A e \in p..(L + 1) : Within(Cs, p, e, White) <=> e <= q
  BY <1>1, <1>2, PastIs, RunIs
<1> HIDE DEF L
<1>4. \A i \in 1..L : KindAt(i) = Kind[Cs[i]]
  <2>1. SUFFICES ASSUME NEW i \in 1..L PROVE KindAt(i) = Kind[Cs[i]]
    OBVIOUS
  <2>2. i \in Nat \ {0}
    BY <1>1
  <2>3. QED BY <2>2, KindsAre DEF L
<1>5. \A e : e \in (p + 1)..(L + 1) /\ Within(Cs, p, e, White) <=> e \in (p + 1)..q
  BY <1>1, <1>3
<1>6. ASSUME NEW e
      PROVE  e \in ByNewline(Cs, p) <=> e \in (p + 1)..q /\ Is(e - 1, {"newline"})
  <2>1. e \in ByNewline(Cs, p) <=>
          e \in (p + 1)..(L + 1) /\ Within(Cs, p, e, White) /\ Kind[Cs[e - 1]] = "newline"
    BY Zenon DEF ByNewline, Ends, L
  <2>2. e \in (p + 1)..q => KindAt(e - 1) = Kind[Cs[e - 1]]
    <3>1. e \in (p + 1)..q => e - 1 \in 1..L
      BY <1>1, <1>3
    <3>2. QED BY <1>4, <3>1
  <2>3. QED BY <1>5, <2>1, <2>2 DEF Is
<1>7. ASSUME NEW e
      PROVE  e \in BeforeWhite(Cs, p) <=> e \in (p + 1)..q /\ (e <= L => Is(e, White))
  <2>1. e \in BeforeWhite(Cs, p) <=>
          e \in (p + 1)..(L + 1) /\ Within(Cs, p, e, White) /\ (e <= L => Kind[Cs[e]] \in White)
    BY Zenon DEF BeforeWhite, Ends, L
  <2>2. e \in (p + 1)..q => (e <= L => KindAt(e) = Kind[Cs[e]])
    <3>1. e \in (p + 1)..q => (e <= L => e \in 1..L)
      BY <1>1, <1>3
    <3>2. QED BY <1>4, <3>1
  <2>3. QED BY <1>5, <2>1, <2>2 DEF Is
<1>8. ASSUME NEW e
      PROVE  e \in ByWhite(Cs, p) <=> e \in (p + 1)..q
  <2>1. e \in ByWhite(Cs, p) <=> e \in (p + 1)..(L + 1) /\ Within(Cs, p, e, White)
    BY Zenon DEF ByWhite, Ends, L
  <2>2. QED BY <1>5, <2>1
<1> QED BY <1>2, <1>3, <1>6, <1>7, <1>8 DEF L

\* The scanner's account of a run of white space is that of the three alternatives.
LEMMA WhiteRunIs ==
  ASSUME Cs \in Seq(Codepoint), NEW p \in 1..Len(Cs)
  PROVE  \/ /\ WhiteRun(p) = {}
            /\ ByNewline(Cs, p) = {} /\ BeforeWhite(Cs, p) = {} /\ ByWhite(Cs, p) = {}
         \/ \E m \in ByNewline(Cs, p) :
              WhiteRun(p) = {m} /\ \A e \in ByNewline(Cs, p) : e <= m
         \/ /\ ByNewline(Cs, p) = {}
            /\ \E m \in BeforeWhite(Cs, p) :
                 WhiteRun(p) = {m} /\ \A e \in BeforeWhite(Cs, p) : e <= m
         \/ /\ ByNewline(Cs, p) = {} /\ BeforeWhite(Cs, p) = {}
            /\ \E m \in ByWhite(Cs, p) :
                 WhiteRun(p) = {m} /\ \A e \in ByWhite(Cs, p) : e <= m
<1> DEFINE L == Len(Cs)
<1>1. PICK q : q = Past(p, White)
  OBVIOUS
<1>2. L \in Nat /\ p \in 1..L
  OBVIOUS
<1>3. /\ q \in p..(L + 1) /\ "none" \notin White
      /\ \A i \in p..(q - 1) : Is(i, White)
      /\ ~Is(q, White)
      /\ \A e : e \in ByNewline(Cs, p) <=> e \in (p + 1)..q /\ Is(e - 1, {"newline"})
      /\ \A e : e \in BeforeWhite(Cs, p) <=> e \in (p + 1)..q /\ (e <= L => Is(e, White))
      /\ \A e : e \in ByWhite(Cs, p) <=> e \in (p + 1)..q
  BY <1>1, WhitesAre, Zenon
<1> DEFINE newlines == {i \in p..(q - 1) : Is(i, {"newline"})}
<1>4. WhiteRun(p) = IF q = p THEN {}
                    ELSE IF newlines # {} THEN {Max(newlines) + 1}
                    ELSE IF q > p + 1 /\ q <= L THEN {q - 1} ELSE {q}
  BY <1>1 DEF WhiteRun
<1> HIDE DEF L
<1>5. CASE q = p
  <2>1. \A e : ~(e \in (p + 1)..q)
    BY <1>2, <1>5
  <2>2. QED BY <1>3, <1>4, <1>5, <2>1
<1>6. CASE q # p /\ newlines # {}
  <2>1. newlines \in SUBSET Nat /\ \A i \in newlines : i <= q
    BY <1>2, <1>3
  <2>2. q \in Nat
    BY <1>2, <1>3
  <2>3. PICK m \in newlines : \A i \in newlines : i <= m
    <3> HIDE DEF newlines
    <3>1. QED BY <1>6, <2>1, <2>2, GreatestNat
  <2>4. Max(newlines) = m
    <3> HIDE DEF newlines
    <3>1. QED BY <2>1, <2>3, MaxIs
  <2>5. WhiteRun(p) = {m + 1}
    BY <1>4, <1>6, <2>4
  <2>6. m \in p..(q - 1) /\ Is(m, {"newline"})
    BY <2>3
  <2>7. m + 1 \in (p + 1)..q /\ m + 1 - 1 = m
    BY <1>2, <1>3, <2>6
  <2>8. m + 1 \in ByNewline(Cs, p)
    BY <1>3, <2>6, <2>7
  <2>9. ASSUME NEW e \in ByNewline(Cs, p) PROVE e <= m + 1
    <3>1. e \in (p + 1)..q /\ Is(e - 1, {"newline"})
      BY <1>3
    <3>2. e - 1 \in newlines
      BY <1>2, <1>3, <3>1
    <3>3. e - 1 <= m
      BY <2>3, <3>2
    <3>4. QED BY <1>2, <1>3, <2>6, <3>1, <3>3
  <2>10. QED BY <2>5, <2>8, <2>9
<1>7. CASE q # p /\ newlines = {}
  <2>1. ByNewline(Cs, p) = {}
    <3>1. SUFFICES ASSUME NEW e \in ByNewline(Cs, p) PROVE FALSE
      OBVIOUS
    <3>2. e \in (p + 1)..q /\ Is(e - 1, {"newline"})
      BY <1>3
    <3>3. e - 1 \in newlines
      BY <1>2, <1>3, <3>2
    <3>4. QED BY <1>7, <3>3
  <2>2. CASE q > p + 1 /\ q <= L
    <3>1. WhiteRun(p) = {q - 1}
      BY <1>4, <1>7, <2>2
    <3>2. q - 1 \in (p + 1)..q /\ q - 1 \in p..(q - 1)
      BY <1>2, <1>3, <2>2
    <3>3. q - 1 \in BeforeWhite(Cs, p)
      BY <1>3, <3>2
    <3>4. ASSUME NEW e \in BeforeWhite(Cs, p) PROVE e <= q - 1
      <4>1. e \in (p + 1)..q /\ (e <= L => Is(e, White))
        BY <1>3
      <4>2. e # q
        BY <1>3, <2>2, <4>1
      <4>3. QED BY <1>2, <1>3, <4>1, <4>2
    <3>5. QED BY <2>1, <3>1, <3>3, <3>4
  <2>3. CASE q = L + 1
    <3>1. WhiteRun(p) = {q}
      BY <1>2, <1>4, <1>7, <2>3
    <3>2. q \in (p + 1)..q /\ ~(q <= L)
      BY <1>2, <1>3, <2>3
    <3>3. q \in BeforeWhite(Cs, p)
      BY <1>3, <3>2
    <3>4. ASSUME NEW e \in BeforeWhite(Cs, p) PROVE e <= q
      <4>1. e \in (p + 1)..q
        BY <1>3
      <4>2. QED BY <1>2, <1>3, <4>1
    <3>5. QED BY <2>1, <3>1, <3>3, <3>4
  <2>4. CASE q = p + 1 /\ q <= L
    <3>1. WhiteRun(p) = {q}
      BY <1>2, <1>4, <1>7, <2>4
    <3>2. BeforeWhite(Cs, p) = {}
      <4>1. SUFFICES ASSUME NEW e \in BeforeWhite(Cs, p) PROVE FALSE
        OBVIOUS
      <4>2. e \in (p + 1)..q /\ (e <= L => Is(e, White))
        BY <1>3
      <4>3. e = q
        BY <1>2, <2>4, <4>2
      <4>4. QED BY <1>3, <2>4, <4>2, <4>3
    <3>3. q \in ByWhite(Cs, p)
      <4>1. q \in (p + 1)..q
        BY <1>2, <2>4
      <4>2. QED BY <1>3, <4>1
    <3>4. ASSUME NEW e \in ByWhite(Cs, p) PROVE e <= q
      <4>1. e \in (p + 1)..q
        BY <1>3
      <4>2. QED BY <1>2, <1>3, <4>1
    <3>5. QED BY <2>1, <3>1, <3>2, <3>3, <3>4
  <2>5. (q > p + 1 /\ q <= L) \/ q = L + 1 \/ (q = p + 1 /\ q <= L)
    BY <1>2, <1>3, <1>7
  <2>6. QED BY <2>2, <2>3, <2>4, <2>5
<1>8. QED BY <1>5, <1>6, <1>7

\* The whole scanner: a word ends where the expression's match ends, within the
\* fragment and at least one codepoint on.
LEMMA WordEndIs ==
  ASSUME Cs \in Seq(Codepoint), NEW p \in 1..Len(Cs)
  PROVE  /\ WordEnd(p) = Match(Cs, p, {"punct"})
         /\ WordEnd(p) \in (p + 1)..(Len(Cs) + 1)
<1> DEFINE L == Len(Cs)
           A == ByApostrophe(Cs, p)
           B == ByLetters(Cs, p)
           D == ByDigit(Cs, p)
           S == BySymbols(Cs, p, {"punct"})
           N == ByNewline(Cs, p)
           F == BeforeWhite(Cs, p)
           W == ByWhite(Cs, p)
           Both(m) == WordEnd(p) = m /\ Match(Cs, p, {"punct"}) = m /\ m \in (p + 1)..(L + 1)
           T1 == Contraction(p)
           T2 == LetterRun(p)
           T3 == Digit(p)
           T4 == PunctRun(p)
           T5 == WhiteRun(p)
           X == FirstOf(<<A, B, D, S, N, F, W, {p + 1}>>)
           Y == FirstOf(<<T1, T2, T3, T4, T5, {p + 1}>>)
<1>1. L \in Nat /\ p \in 1..L /\ p + 1 \in (p + 1)..(L + 1)
  OBVIOUS
<1>2. (p + 1)..(L + 1) \in SUBSET Nat
  BY <1>1
<1>3. \A e \in A \cup B \cup D \cup S \cup N \cup F \cup W : e \in (p + 1)..(L + 1)
  BY DEF ByApostrophe, ByLetters, ByDigit, BySymbols, ByNewline, BeforeWhite, ByWhite, Ends
<1>4. WordEnd(p) = (CHOOSE e \in Y : TRUE) /\ Match(Cs, p, {"punct"}) = Max(X)
  BY DEF WordEnd, Match, Alternatives
<1>5. T1 = A /\ D = T3
  BY ApostropheIs, DigitIs
<1>6. /\ T2 = {} => B = {}
      /\ T2 # {} => \E m \in B : T2 = {m} /\ \A e \in B : e <= m
  BY LettersAre
<1>7. \/ \E m \in S : T4 = {m} /\ \A e \in S : e <= m
      \/ S = {} /\ T4 = {}
      \/ S = {} /\ T4 = {p + 1} /\ KindAt(p) = "space" /\ KindAt(p + 1) = "none"
  BY SymbolsAre, PunctRunIs
<1>8. \/ T5 = {} /\ N = {} /\ F = {} /\ W = {}
      \/ \E m \in N : T5 = {m} /\ \A e \in N : e <= m
      \/ N = {} /\ \E m \in F : T5 = {m} /\ \A e \in F : e <= m
      \/ N = {} /\ F = {} /\ \E m \in W : T5 = {m} /\ \A e \in W : e <= m
  BY WhiteRunIs
<1>9. /\ T1 = {} \/ \E m \in T1 : T1 = {m}
      /\ T3 = {} \/ T3 = {p + 1}
  BY DEF Contraction, Digit
<1>10. KindAt(p) = "space" /\ KindAt(p + 1) = "none" =>
         N = {} /\ (F = {} \/ F = {p + 1}) /\ W = {p + 1}
  <2>1. SUFFICES ASSUME KindAt(p) = "space", KindAt(p + 1) = "none"
                 PROVE  N = {} /\ (F = {} \/ F = {p + 1}) /\ W = {p + 1}
    OBVIOUS
  <2>2. PICK q : q = Past(p, White)
    OBVIOUS
  <2>3. /\ q \in p..(L + 1) /\ "none" \notin White
        /\ \A i \in p..(q - 1) : Is(i, White)
        /\ ~Is(q, White)
        /\ \A e : e \in N <=> e \in (p + 1)..q /\ Is(e - 1, {"newline"})
        /\ \A e : e \in F <=> e \in (p + 1)..q /\ (e <= L => Is(e, White))
        /\ \A e : e \in W <=> e \in (p + 1)..q
    BY <2>2, WhitesAre, Zenon
  <2> HIDE DEF L, N, F, W
  <2>4. Is(p, White) /\ ~Is(p + 1, White) /\ ~Is(p, {"newline"})
    BY <2>1, <2>3 DEF Is, White
  <2>5. q # p
    BY <2>3, <2>4
  <2>6. ~(p + 1 \in p..(q - 1))
    BY <2>3, <2>4
  <2>7. q = p + 1
    BY <1>1, <2>3, <2>5, <2>6
  <2>8. \A e : e \in (p + 1)..q <=> e = p + 1
    BY <1>1, <2>7
  <2>9. p + 1 - 1 = p
    BY <1>1
  <2>10. \A e : ~(e \in N)
    BY <2>3, <2>4, <2>8, <2>9
  <2>11. QED BY <2>3, <2>8, <2>10
<1> HIDE DEF L, A, B, D, S, N, F, W, T1, T2, T3, T4, T5, X, Y
<1>11. /\ A # {} => X = A
       /\ A = {} /\ B # {} => X = B
       /\ A = {} /\ B = {} /\ D # {} => X = D
       /\ A = {} /\ B = {} /\ D = {} /\ S # {} => X = S
       /\ A = {} /\ B = {} /\ D = {} /\ S = {} /\ N # {} => X = N
       /\ A = {} /\ B = {} /\ D = {} /\ S = {} /\ N = {} /\ F # {} => X = F
       /\ A = {} /\ B = {} /\ D = {} /\ S = {} /\ N = {} /\ F = {} /\ W # {} => X = W
       /\ A = {} /\ B = {} /\ D = {} /\ S = {} /\ N = {} /\ F = {} /\ W = {} => X = {p + 1}
  <2>1. X = FirstOf(<<A, B, D, S, N, F, W, {p + 1}>>)
    BY DEF X
  <2>2. QED BY <2>1, FirstOfEight
<1>12. /\ T1 # {} => Y = T1
       /\ T1 = {} /\ T2 # {} => Y = T2
       /\ T1 = {} /\ T2 = {} /\ T3 # {} => Y = T3
       /\ T1 = {} /\ T2 = {} /\ T3 = {} /\ T4 # {} => Y = T4
       /\ T1 = {} /\ T2 = {} /\ T3 = {} /\ T4 = {} /\ T5 # {} => Y = T5
       /\ T1 = {} /\ T2 = {} /\ T3 = {} /\ T4 = {} /\ T5 = {} => Y = {p + 1}
  <2>1. Y = FirstOf(<<T1, T2, T3, T4, T5, {p + 1}>>)
    BY DEF Y
  <2>3. T1 # {} => Y = T1
    BY <2>1, FirstOfSix
  <2>4. T1 = {} /\ T2 # {} => Y = T2
    BY <2>1, FirstOfSix
  <2>5. T1 = {} /\ T2 = {} /\ T3 # {} => Y = T3
    BY <2>1, FirstOfSix
  <2>6. T1 = {} /\ T2 = {} /\ T3 = {} /\ T4 # {} => Y = T4
    BY <2>1, FirstOfSix
  <2>7. T1 = {} /\ T2 = {} /\ T3 = {} /\ T4 = {} /\ T5 # {} => Y = T5
    BY <2>1, FirstOfSix
  <2>8. T1 = {} /\ T2 = {} /\ T3 = {} /\ T4 = {} /\ T5 = {} => Y = {p + 1}
    <3>1. PICK z : z = {p + 1}
      OBVIOUS
    <3>2. z # {} /\ Y = FirstOf(<<T1, T2, T3, T4, T5, z>>)
      BY <2>1, <3>1
    <3>3. T1 = {} /\ T2 = {} /\ T3 = {} /\ T4 = {} /\ T5 = {} => Y = z
      BY <3>2, FirstOfSix
    <3>4. QED BY <3>1, <3>3
  <2>9. QED BY <2>3, <2>4, <2>5, <2>6, <2>7, <2>8
<1>13. ASSUME NEW m \in X, X \in SUBSET ((p + 1)..(L + 1)), Y = {m}, \A e \in X : e <= m
       PROVE  Both(m)
  <2>1. X \in SUBSET Nat /\ m \in (p + 1)..(L + 1)
    BY <1>2, <1>13
  <2>2. Max(X) = m
    BY <1>13, <2>1, MaxIs
  <2>3. QED BY <1>4, <1>13, <2>1, <2>2
<1>14. /\ A \in SUBSET ((p + 1)..(L + 1)) /\ B \in SUBSET ((p + 1)..(L + 1))
       /\ D \in SUBSET ((p + 1)..(L + 1)) /\ S \in SUBSET ((p + 1)..(L + 1))
       /\ N \in SUBSET ((p + 1)..(L + 1)) /\ F \in SUBSET ((p + 1)..(L + 1))
       /\ W \in SUBSET ((p + 1)..(L + 1)) /\ {p + 1} \in SUBSET ((p + 1)..(L + 1))
       /\ p + 1 <= p + 1
  BY <1>1, <1>3
<1>15. SUFFICES \E m : Both(m)
  BY DEF L
<1> HIDE DEF Both
<1>16. CASE A # {}
  <2>1. PICK m \in A : A = {m}
    BY <1>5, <1>9, <1>16
  <2>2. X = A /\ Y = A /\ m <= m
    BY <1>2, <1>5, <1>11, <1>12, <1>14, <1>16
  <2>3. QED BY <1>13, <1>14, <2>1, <2>2
<1>17. CASE A = {} /\ T2 # {}
  <2>1. PICK m \in B : T2 = {m} /\ \A e \in B : e <= m
    BY <1>6, <1>17
  <2>2. X = B /\ Y = T2
    BY <1>5, <1>11, <1>12, <1>17, <2>1
  <2>3. QED BY <1>13, <1>14, <2>1, <2>2
<1>18. CASE A = {} /\ T2 = {} /\ D # {}
  <2>1. X = D /\ Y = D /\ D = {p + 1}
    BY <1>5, <1>6, <1>9, <1>11, <1>12, <1>18
  <2>2. QED BY <1>13, <1>14, <2>1
<1>19. CASE A = {} /\ T2 = {} /\ D = {} /\ S # {}
  <2>1. PICK m \in S : T4 = {m} /\ \A e \in S : e <= m
    BY <1>7, <1>19
  <2>2. X = S /\ Y = T4
    BY <1>5, <1>6, <1>11, <1>12, <1>19, <2>1
  <2>3. QED BY <1>13, <1>14, <2>1, <2>2
<1>20. CASE A = {} /\ T2 = {} /\ D = {} /\ S = {} /\ T4 # {}
  <2>1. T4 = {p + 1} /\ N = {} /\ (F = {} \/ F = {p + 1}) /\ W = {p + 1}
    BY <1>7, <1>10, <1>20
  <2>2. Y = {p + 1} /\ X = {p + 1}
    BY <1>5, <1>6, <1>11, <1>12, <1>20, <2>1
  <2>3. QED BY <1>13, <1>14, <2>2
<1>21. CASE A = {} /\ T2 = {} /\ D = {} /\ S = {} /\ T4 = {} /\ T5 # {}
  <2>1. B = {} /\ Y = T5
    BY <1>5, <1>6, <1>12, <1>21
  <2>2. CASE \E m \in N : T5 = {m} /\ \A e \in N : e <= m
    <3>1. X = N
      BY <1>11, <1>21, <2>1, <2>2
    <3>2. QED BY <1>13, <1>14, <2>1, <2>2, <3>1
  <2>3. CASE N = {} /\ \E m \in F : T5 = {m} /\ \A e \in F : e <= m
    <3>1. X = F
      BY <1>11, <1>21, <2>1, <2>3
    <3>2. QED BY <1>13, <1>14, <2>1, <2>3, <3>1
  <2>4. CASE N = {} /\ F = {} /\ \E m \in W : T5 = {m} /\ \A e \in W : e <= m
    <3>1. X = W
      BY <1>11, <1>21, <2>1, <2>4
    <3>2. QED BY <1>13, <1>14, <2>1, <2>4, <3>1
  <2>5. QED BY <1>8, <1>21, <2>2, <2>3, <2>4
<1>22. CASE A = {} /\ T2 = {} /\ D = {} /\ S = {} /\ T4 = {} /\ T5 = {}
  <2>1. N = {} /\ F = {} /\ W = {} /\ B = {}
    BY <1>6, <1>8, <1>22
  <2>2. X = {p + 1} /\ Y = {p + 1}
    BY <1>5, <1>11, <1>12, <1>22, <2>1
  <2>3. QED BY <1>13, <1>14, <2>2
<1>23. QED BY <1>16, <1>17, <1>18, <1>19, <1>20, <1>21, <1>22

\* The symbols that the scanner takes, in terms of those of the expression.
LEMMA SymbolsWithFlags ==
  ASSUME NEW c \in Seq(Codepoint), NEW p \in 1..Len(c)
  PROVE  Match(c, p, {"punct"}) = IF Flagless(c, p) = {} THEN Match(c, p, Symbols)
                                  ELSE Max({p + 1, Min(Flagless(c, p))})
<1> DEFINE A == ByApostrophe(c, p)
           B == ByLetters(c, p)
           D == ByDigit(c, p)
           S == BySymbols(c, p, {"punct"})
           Z == BySymbols(c, p, Symbols)
           N == ByNewline(c, p)
           F == BeforeWhite(c, p)
           W == ByWhite(c, p)
           X == FirstOf(<<A, B, D, S, N, F, W, {p + 1}>>)
           Y == FirstOf(<<A, B, D, Z, N, F, W, {p + 1}>>)
           K(i) == Kind[c[i]]
<1>1. PICK L \in Nat \ {0} : L = Len(c)
  OBVIOUS
<1>2. \A i \in 1..L : K(i) \in Kinds
  <2>1. \A i \in 1..L : c[i] \in Codepoint
    BY <1>1
  <2>2. QED BY <2>1, TokenizerAssumption DEF Codepoint
<1>3. Match(c, p, {"punct"}) = Max(X) /\ Match(c, p, Symbols) = Max(Y)
  BY DEF Match, Alternatives
<1>4. Flagless(c, p) = {q \in p..(Max(Y) - 1) : K(q) = "none" /\ A = {} /\ B = {} /\ D = {}}
  <2>1. PICK s : s = Alternatives(c, p, Symbols)
    OBVIOUS
  <2>2. s[1] = A /\ s[2] = B /\ s[3] = D
    BY <2>1 DEF Alternatives
  <2>3. (\A k \in 1..3 : s[k] = {}) <=> A = {} /\ B = {} /\ D = {}
    <3>1. \A k \in 1..3 : k = 1 \/ k = 2 \/ k = 3
      OBVIOUS
    <3>2. QED BY <2>2, <3>1
  <2>4. QED BY <1>3, <2>1, <2>3 DEF Flagless
<1>5. \A e \in Z \cup S \cup N \cup F \cup W : e \in (p + 1)..(L + 1)
  BY <1>1 DEF BySymbols, ByNewline, BeforeWhite, ByWhite, Ends
<1>6. /\ \A e : e \in N => \A i \in p..(e - 1) : K(i) \in White
      /\ \A e : e \in N => K(e - 1) = "newline"
      /\ \A e : e \in F => e \in (p + 1)..(L + 1) /\ (\A i \in p..(e - 1) : K(i) \in White) /\ (e <= L => K(e) \in White)
      /\ \A e : e \in W <=> e \in (p + 1)..(L + 1) /\ \A i \in p..(e - 1) : K(i) \in White
  BY <1>1 DEF ByNewline, BeforeWhite, ByWhite, Within, Ends
<1>7. ASSUME NEW T, NEW e
      PROVE  e \in BySymbols(c, p, T) <=>
               /\ e \in (p + 1)..(L + 1)
               /\ \E s \in {p, p + 1}, m \in (p + 1)..(L + 1) :
                    /\ s < m /\ m <= e
                    /\ \A i \in p..(s - 1) : K(i) = "space"
                    /\ \A i \in s..(m - 1) : K(i) \in T
                    /\ \A i \in m..(e - 1) : K(i) = "newline"
  BY <1>1 DEF BySymbols, Within, Ends
<1>20. ASSUME NEW e
       PROVE  e \in S <=>
               /\ e \in (p + 1)..(L + 1)
               /\ \E s \in {p, p + 1}, m \in (p + 1)..(L + 1) :
                    /\ s < m /\ m <= e
                    /\ \A i \in p..(s - 1) : K(i) = "space"
                    /\ \A i \in s..(m - 1) : K(i) \in {"punct"}
                    /\ \A i \in m..(e - 1) : K(i) = "newline"
  BY <1>7
<1>21. ASSUME NEW e
       PROVE  e \in Z <=>
               /\ e \in (p + 1)..(L + 1)
               /\ \E s \in {p, p + 1}, m \in (p + 1)..(L + 1) :
                    /\ s < m /\ m <= e
                    /\ \A i \in p..(s - 1) : K(i) = "space"
                    /\ \A i \in s..(m - 1) : K(i) \in Symbols
                    /\ \A i \in m..(e - 1) : K(i) = "newline"
  BY <1>7
<1>8. Symbols = {"punct", "none"} /\ "none" \notin White /\ "punct" \notin White
  BY DEF Symbols, Kinds, Main, White
<1>9. p \in Nat \ {0} /\ p + 1 \in (p + 1)..(L + 1) /\ p \in 1..L
  BY <1>1
<1>10. /\ A # {} => X = A /\ Y = A
       /\ A = {} /\ B # {} => X = B /\ Y = B
       /\ A = {} /\ B = {} /\ D # {} => X = D /\ Y = D
       /\ A = {} /\ B = {} /\ D = {} /\ S # {} => X = S
       /\ A = {} /\ B = {} /\ D = {} /\ Z # {} => Y = Z
       /\ A = {} /\ B = {} /\ D = {} /\ S = {} /\ N = {} /\ F = {} /\ W # {} => X = W
       /\ A = {} /\ B = {} /\ D = {} /\ S = {} /\ N = {} /\ F = {} /\ W = {} => X = {p + 1}
       /\ A = {} /\ B = {} /\ D = {} /\ S = {} /\ Z = {} => X = Y
       /\ A = {} /\ B = {} /\ D = {} /\ Z = {} => Y = {p + 1} \/ (Y # {} /\ (Y = N \/ Y = F \/ Y = W))
  <2>0. {p + 1} # {}
    OBVIOUS
  <2>1. PICK z : z = {p + 1}
    OBVIOUS
  <2>2. X = FirstOf(<<A, B, D, S, N, F, W, z>>) /\ Y = FirstOf(<<A, B, D, Z, N, F, W, z>>) /\ z # {}
    BY <2>1
  <2> HIDE DEF A, B, D, S, Z, N, F, W, X, Y
  <2>3. /\ A # {} => X = A
        /\ A = {} /\ B # {} => X = B
        /\ A = {} /\ B = {} /\ D # {} => X = D
        /\ A = {} /\ B = {} /\ D = {} /\ S # {} => X = S
        /\ A = {} /\ B = {} /\ D = {} /\ S = {} /\ N # {} => X = N
        /\ A = {} /\ B = {} /\ D = {} /\ S = {} /\ N = {} /\ F # {} => X = F
        /\ A = {} /\ B = {} /\ D = {} /\ S = {} /\ N = {} /\ F = {} /\ W # {} => X = W
        /\ A = {} /\ B = {} /\ D = {} /\ S = {} /\ N = {} /\ F = {} /\ W = {} /\ z # {} => X = z
    BY <2>2, FirstOfEight
  <2>4. /\ A # {} => Y = A
        /\ A = {} /\ B # {} => Y = B
        /\ A = {} /\ B = {} /\ D # {} => Y = D
        /\ A = {} /\ B = {} /\ D = {} /\ Z # {} => Y = Z
        /\ A = {} /\ B = {} /\ D = {} /\ Z = {} /\ N # {} => Y = N
        /\ A = {} /\ B = {} /\ D = {} /\ Z = {} /\ N = {} /\ F # {} => Y = F
        /\ A = {} /\ B = {} /\ D = {} /\ Z = {} /\ N = {} /\ F = {} /\ W # {} => Y = W
        /\ A = {} /\ B = {} /\ D = {} /\ Z = {} /\ N = {} /\ F = {} /\ W = {} /\ z # {} => Y = z
    BY <2>2, FirstOfEight
  <2>5. A = {} /\ B = {} /\ D = {} /\ S = {} /\ Z = {} => X = Y
    <3>1. SUFFICES ASSUME A = {}, B = {}, D = {}, S = {}, Z = {} PROVE X = Y
      OBVIOUS
    <3>2. CASE N # {}
      BY <2>3, <2>4, <3>1, <3>2
    <3>3. CASE N = {} /\ F # {}
      BY <2>3, <2>4, <3>1, <3>3
    <3>4. CASE N = {} /\ F = {} /\ W # {}
      BY <2>3, <2>4, <3>1, <3>4
    <3>5. CASE N = {} /\ F = {} /\ W = {}
      BY <2>2, <2>3, <2>4, <3>1, <3>5
    <3>6. QED BY <3>2, <3>3, <3>4, <3>5
  <2>6. A = {} /\ B = {} /\ D = {} /\ Z = {} => Y = z \/ (Y # {} /\ (Y = N \/ Y = F \/ Y = W))
    BY <2>2, <2>4
  <2>7. QED BY <2>1, <2>2, <2>3, <2>4, <2>5, <2>6
<1>11. S \subseteq Z
  <2>1. SUFFICES ASSUME NEW e \in S PROVE e \in Z
    OBVIOUS
  <2>2. PICK s \in {p, p + 1}, m \in (p + 1)..(L + 1) :
          /\ s < m /\ m <= e
          /\ \A i \in p..(s - 1) : K(i) = "space"
          /\ \A i \in s..(m - 1) : K(i) \in {"punct"}
          /\ \A i \in m..(e - 1) : K(i) = "newline"
    BY <1>20, <2>1
  <2>3. \A i \in s..(m - 1) : K(i) \in Symbols
    BY <1>8, <2>2
  <2>4. e \in (p + 1)..(L + 1)
    BY <1>5, <2>1
  <2>5. QED BY <1>21, <2>2, <2>3, <2>4
<1>12. S \in SUBSET Nat /\ Z \in SUBSET Nat
  BY <1>5, <1>9
<1> HIDE DEF A, B, D, S, Z, N, F, W, X, Y, K
<1>13. CASE ~(A = {} /\ B = {} /\ D = {})
  <2>1. X = Y
    BY <1>10, <1>13
  <2>2. Flagless(c, p) = {}
    BY <1>4, <1>13
  <2>3. QED BY <1>3, <2>1, <2>2
<1>14. CASE A = {} /\ B = {} /\ D = {} /\ Z = {}
  <2>1. X = Y
    BY <1>10, <1>11, <1>14
  <2>2. Flagless(c, p) = {}
    <3>1. SUFFICES ASSUME NEW q \in p..(Max(Y) - 1), K(q) = "none" PROVE FALSE
      BY <1>4
    <3>2. K(p) # "none"
      <4>1. SUFFICES ASSUME K(p) = "none" PROVE FALSE
        OBVIOUS
      <4>2. /\ p < p + 1 /\ p + 1 <= p + 1
            /\ \A i \in p..(p - 1) : K(i) = "space"
            /\ \A i \in p..(p + 1 - 1) : K(i) \in Symbols
            /\ \A i \in (p + 1)..(p + 1 - 1) : K(i) = "newline"
        BY <1>8, <1>9, <4>1
      <4>3. p + 1 \in Z
        BY <1>21, <1>9, <4>2
      <4>4. QED BY <1>14, <4>3
    <3>3. PICK e : e = Max(Y)
      OBVIOUS
    <3>4. e = p + 1 \/ \A i \in p..(e - 1) : K(i) \in White
      <4>1. CASE Y = {p + 1}
        <5>1. Max(Y) = p + 1
          <6>1. Y \in SUBSET Nat /\ p + 1 \in Y /\ \A i \in Y : i <= p + 1
            BY <1>9, <4>1
          <6>2. QED BY <6>1, MaxIs
        <5>2. QED BY <3>3, <5>1
      <4>2. CASE Y # {} /\ (Y = N \/ Y = F \/ Y = W)
        <5>1. e \in Y
          <6>1. Y \in SUBSET Nat /\ \A i \in Y : i <= L + 1
            BY <1>5, <1>9, <4>2
          <6>2. PICK m \in Y : \A i \in Y : i <= m
            <7>1. PICK b : b = L + 1
              OBVIOUS
            <7>2. b \in Nat /\ Y \in SUBSET Nat /\ Y # {} /\ \A i \in Y : i <= b
              BY <1>1, <4>2, <6>1, <7>1
            <7>3. QED BY <7>2, GreatestNat, Zenon
          <6>3. Max(Y) = m
            BY <6>1, <6>2, MaxIs
          <6>4. QED BY <3>3, <6>2, <6>3
        <5>2. QED BY <1>6, <4>2, <5>1
      <4>3. QED BY <1>10, <1>14, <4>1, <4>2
    <3>5. QED BY <1>8, <1>9, <3>1, <3>2, <3>3, <3>4
  <2>3. QED BY <1>3, <2>1, <2>2
<1>15. CASE A = {} /\ B = {} /\ D = {} /\ Z # {}
  <2>1. Y = Z
    BY <1>10, <1>15
  <2>2. PICK top \in Z : \A e \in Z : e <= top
    <3>1. \A e \in Z : e <= L + 1
      BY <1>5, <1>9
    <3>2. PICK b : b = L + 1
      OBVIOUS
    <3>3. b \in Nat /\ Z \in SUBSET Nat /\ Z # {} /\ \A e \in Z : e <= b
      BY <1>1, <1>12, <1>15, <3>1, <3>2
    <3>4. QED BY <3>3, GreatestNat, Zenon
  <2>3. Max(Y) = top
    BY <1>12, <2>1, <2>2, MaxIs
  <2>4. PICK s \in {p, p + 1}, m \in (p + 1)..(L + 1) :
          /\ s < m /\ m <= top
          /\ \A i \in p..(s - 1) : K(i) = "space"
          /\ \A i \in s..(m - 1) : K(i) \in Symbols
          /\ \A i \in m..(top - 1) : K(i) = "newline"
    BY <1>21, <2>2
  <2>5. top \in (p + 1)..(L + 1) /\ top \in Nat
    BY <1>5, <1>9, <2>2
  <2>6. CASE Flagless(c, p) = {}
    <3>1. \A i \in p..(top - 1) : K(i) # "none"
      BY <1>4, <1>15, <2>3, <2>6
    <3>2. \A i \in s..(m - 1) : K(i) \in {"punct"}
      BY <1>8, <1>9, <2>4, <2>5, <3>1
    <3>3. top \in S
      BY <1>20, <2>4, <2>5, <3>2
    <3>4. Max(S) = top
      BY <1>11, <1>12, <2>2, <3>3, MaxIs
    <3>5. X = S
      BY <1>10, <1>15, <3>3
    <3>6. QED BY <1>3, <2>3, <2>6, <3>4, <3>5
  <2>7. CASE Flagless(c, p) # {}
    <3>1. PICK q : q = Min(Flagless(c, p))
      OBVIOUS
    <3>2. Flagless(c, p) \in SUBSET Nat
      BY <1>4, <1>9, <2>3, <2>5
    <3>3. q \in Flagless(c, p) /\ \A i \in Flagless(c, p) : q <= i
      BY <2>7, <3>1, <3>2, MinIs
    <3>4. q \in p..(top - 1) /\ K(q) = "none" /\ q \in Nat
      BY <1>4, <1>9, <2>3, <2>5, <3>3
    <3>5. \A i \in p..(q - 1) : K(i) # "none"
      <4>1. SUFFICES ASSUME NEW i \in p..(q - 1), K(i) = "none" PROVE FALSE
        OBVIOUS
      <4>2. i \in p..(top - 1)
        BY <1>9, <2>5, <3>4
      <4>3. i \in Flagless(c, p)
        BY <1>4, <1>15, <2>3, <4>1, <4>2
      <4>4. QED BY <1>9, <3>3, <3>4, <4>3
    <3>6. q < m
      BY <1>9, <2>4, <2>5, <3>4
    <3>7. s <= q
      BY <1>8, <1>9, <2>4, <3>4
    <3>8. \A e \in S : e <= q
      <4>1. SUFFICES ASSUME NEW e \in S, q < e PROVE FALSE
        BY <1>12, <3>4
      <4>2. PICK a \in {p, p + 1}, b \in (p + 1)..(L + 1) :
              /\ a < b /\ b <= e
              /\ \A i \in p..(a - 1) : K(i) = "space"
              /\ \A i \in a..(b - 1) : K(i) \in {"punct"}
              /\ \A i \in b..(e - 1) : K(i) = "newline"
        BY <1>20, <4>1
      <4>3. e \in Nat
        BY <1>12, <4>1
      <4>4. q \in p..(a - 1) \/ q \in a..(b - 1) \/ q \in b..(e - 1)
        BY <1>9, <3>4, <4>1, <4>2, <4>3
      <4>5. QED BY <3>4, <4>2, <4>4
    <3>9. CASE s < q
      <4>1. \A i \in s..(q - 1) : K(i) \in {"punct"}
        BY <1>8, <1>9, <2>4, <3>4, <3>5, <3>6
      <4>2. /\ q \in (p + 1)..(L + 1) /\ s < q /\ q <= q
            /\ \A i \in q..(q - 1) : K(i) = "newline"
        BY <1>9, <2>4, <2>5, <3>4, <3>9
      <4>3. q \in S
        BY <1>20, <2>4, <4>1, <4>2
      <4>4. X = S
        BY <1>10, <1>15, <4>3
      <4>5. Max(S) = q
        BY <1>12, <3>8, <4>3, MaxIs
      <4>6. Max({p + 1, q}) = q
        <5>1. {p + 1, q} \in SUBSET Nat /\ q \in {p + 1, q} /\ \A k \in {p + 1, q} : k <= q
          BY <1>9, <3>4, <4>2
        <5>2. QED BY <5>1, MaxIs
      <4>7. QED BY <1>3, <2>7, <3>1, <4>4, <4>5, <4>6
    <3>10. CASE s = q
      <4>1. S = {}
        <5>1. SUFFICES ASSUME NEW e \in S PROVE FALSE
          OBVIOUS
        <5>2. e <= q /\ e \in (p + 1)..(L + 1)
          BY <1>5, <3>8, <5>1
        <5>3. q = p + 1 /\ e = p + 1 /\ K(p) = "space"
          BY <1>9, <2>4, <3>4, <3>10, <5>2
        <5>4. PICK a \in {p, p + 1}, b \in (p + 1)..(L + 1) :
                /\ a < b /\ b <= e
                /\ \A i \in p..(a - 1) : K(i) = "space"
                /\ \A i \in a..(b - 1) : K(i) \in {"punct"}
          BY <1>20, <5>1
        <5>5. K(p) \in {"punct"}
          BY <1>9, <5>3, <5>4
        <5>6. QED BY <5>3, <5>5
      <4>2. \A e \in (p + 1)..(L + 1) : (\A i \in p..(e - 1) : K(i) \in White) => e <= q
        <5>1. SUFFICES ASSUME NEW e \in (p + 1)..(L + 1), \A i \in p..(e - 1) : K(i) \in White
                       PROVE  e <= q
          OBVIOUS
        <5>2. q \notin p..(e - 1)
          BY <1>8, <3>4, <5>1
        <5>3. QED BY <1>9, <3>4, <5>2
      <4>3. q <= p + 1
        BY <1>9, <2>4, <3>10
      <4>4. N = {}
        <5>1. SUFFICES ASSUME NEW e \in N PROVE FALSE
          OBVIOUS
        <5>2. e \in (p + 1)..(L + 1) /\ (\A i \in p..(e - 1) : K(i) \in White) /\ K(e - 1) = "newline"
          BY <1>5, <1>6, <5>1
        <5>3. e <= q
          BY <4>2, <5>2
        <5>4. q = p + 1 /\ e = p + 1
          BY <1>9, <3>4, <4>3, <5>2, <5>3
        <5>5. K(p) = "space" /\ e - 1 = p
          BY <1>9, <2>4, <3>10, <5>4
        <5>6. QED BY <5>2, <5>5
      <4>5. F = {}
        <5>1. SUFFICES ASSUME NEW e \in F PROVE FALSE
          OBVIOUS
        <5>2. e \in (p + 1)..(L + 1) /\ (\A i \in p..(e - 1) : K(i) \in White) /\ (e <= L => K(e) \in White)
          BY <1>6, <5>1
        <5>3. e <= q
          BY <4>2, <5>2
        <5>4. e = q /\ q <= L
          BY <1>9, <2>5, <3>4, <4>3, <5>2, <5>3
        <5>5. QED BY <1>8, <3>4, <5>2, <5>4
      <4>6. X = {p + 1}
        <5>1. CASE W = {}
          BY <1>10, <1>15, <4>1, <4>4, <4>5, <5>1
        <5>2. CASE W # {}
          <6>1. \A e \in W : e = p + 1
            <7>1. SUFFICES ASSUME NEW e \in W PROVE e = p + 1
              OBVIOUS
            <7>2. e \in (p + 1)..(L + 1) /\ e <= q
              BY <1>6, <4>2, <7>1
            <7>3. QED BY <1>9, <3>4, <4>3, <7>2
          <6>2. W = {p + 1}
            BY <5>2, <6>1
          <6>3. QED BY <1>10, <1>15, <4>1, <4>4, <4>5, <5>2, <6>2
        <5>3. QED BY <5>1, <5>2
      <4>7. Max({p + 1, q}) = p + 1 /\ Max({p + 1}) = p + 1
        <5>1. /\ {p + 1, q} \in SUBSET Nat /\ p + 1 \in {p + 1, q} /\ \A k \in {p + 1, q} : k <= p + 1
              /\ {p + 1} \in SUBSET Nat /\ p + 1 \in {p + 1} /\ \A k \in {p + 1} : k <= p + 1
          BY <1>9, <3>4, <4>3
        <5>2. Max({p + 1, q}) = p + 1
          BY <5>1, MaxIs
        <5>3. Max({p + 1}) = p + 1
          BY <5>1, MaxIs
        <5>4. QED BY <5>2, <5>3
      <4>8. QED BY <1>3, <2>7, <3>1, <4>6, <4>7
    <3>11. QED BY <1>9, <2>4, <3>4, <3>7, <3>9, <3>10
  <2>8. QED BY <2>6, <2>7
<1>16. QED BY <1>13, <1>14, <1>15

-----------------------------------------------------------------------------
\* Fragments and words, which tile the text.

\* A part of a part.
LEMMA PartOfPart ==
  ASSUME NEW S, NEW s \in Seq(S), NEW x \in Nat \ {0}, NEW y \in 0..Len(s),
         NEW a \in Nat \ {0}, NEW b \in Nat, x + b - 1 <= y
  PROVE  SubSeq(SubSeq(s, x, y), a, b) = SubSeq(s, x + a - 1, x + b - 1)
<1> DEFINE r == SubSeq(s, x, y)
<1>1. Len(s) \in Nat
  OBVIOUS
<1>2. CASE y < x
  <2>1. r = <<>> /\ b = 0
    BY <1>1, <1>2
  <2>2. SubSeq(r, a, b) = <<>>
    BY <2>1
  <2>3. SubSeq(s, x + a - 1, x + b - 1) = <<>>
    BY <1>1, <2>1
  <2>4. QED BY <2>2, <2>3
<1>3. CASE x <= y
  <2>1. r \in Seq(S) /\ Len(r) = y - x + 1 /\ \A i \in 1..(y - x + 1) : r[i] = s[x + i - 1]
    BY <1>1, <1>3
  <2> HIDE DEF r
  <2>2. CASE b < a
    <3>1. SubSeq(r, a, b) = <<>>
      BY <2>1, <2>2
    <3>2. SubSeq(s, x + a - 1, x + b - 1) = <<>>
      BY <1>1, <2>2
    <3>3. QED BY <3>1, <3>2 DEF r
  <2>3. CASE a <= b
    <3>1. b <= Len(r)
      BY <1>1, <1>3, <2>1
    <3>2. SubSeq(r, a, b) = [i \in 1..(b - a + 1) |-> r[a + i - 1]]
      BY <2>1, <2>3, <3>1
    <3>3. SubSeq(s, x + a - 1, x + b - 1)
            = [i \in 1..((x + b - 1) - (x + a - 1) + 1) |-> s[(x + a - 1) + i - 1]]
      BY <1>1, <2>3
    <3>4. (x + b - 1) - (x + a - 1) + 1 = b - a + 1
      OBVIOUS
    <3>5. \A i \in 1..(b - a + 1) : r[a + i - 1] = s[(x + a - 1) + i - 1]
      <4>1. SUFFICES ASSUME NEW i \in 1..(b - a + 1)
                     PROVE  r[a + i - 1] = s[(x + a - 1) + i - 1]
        OBVIOUS
      <4>2. a + i - 1 \in 1..(y - x + 1) /\ x + (a + i - 1) - 1 = (x + a - 1) + i - 1
        BY <1>1, <1>3, <2>1, <2>3, <3>1
      <4>3. QED BY <2>1, <4>2
    <3>6. QED BY <3>2, <3>3, <3>4, <3>5 DEF r
  <2>4. QED BY <2>2, <2>3
<1>4. QED BY <1>1, <1>2, <1>3

\* One sequence behind another.
LEMMA BothIs ==
  ASSUME NEW S, NEW a \in Seq(S), NEW e \in Seq(S), NEW r, r = a \o e
  PROVE  /\ r \in Seq(S) /\ Len(r) = Len(a) + Len(e)
         /\ \A j \in 1..Len(a) : r[j] = a[j]
         /\ \A j \in 1..Len(e) : r[Len(a) + j] = e[j]
<1>1. r \in Seq(S)
  OBVIOUS
<1>2. Len(r) = Len(a) + Len(e)
  OBVIOUS
<1>3. \A j \in 1..Len(a) : r[j] = a[j]
  OBVIOUS
<1>4. \A j \in 1..Len(e) : r[Len(a) + j] = e[j]
  OBVIOUS
<1>5. QED BY <1>1, <1>2, <1>3, <1>4

\* Pieces of the text.
Piece == [id : Nat, at : Nat \ {0}, len : Nat]

\* Of two pieces the earlier ends before the later begins.
LEMMA InOrder ==
  ASSUME NEW k \in Nat, NEW fs, \A i \in 1..k : fs[i].at \in Nat /\ fs[i].len \in Nat,
         \A i \in 1..(k - 1) : fs[i + 1].at = EndOf(fs[i])
  PROVE  \A j \in 1..k : \A i \in 1..(j - 1) : EndOf(fs[i]) <= fs[j].at
<1> DEFINE B == {j \in 1..k : \E i \in 1..(j - 1) : ~(EndOf(fs[i]) <= fs[j].at)}
<1>1. SUFFICES ASSUME B # {} PROVE FALSE
  OBVIOUS
<1>2. B \in SUBSET Nat
  OBVIOUS
<1>3. PICK j \in B : \A x \in B : j <= x
  <2> HIDE DEF B
  <2>1. QED BY <1>1, <1>2, LeastNat
<1>4. PICK i \in 1..(j - 1) : ~(EndOf(fs[i]) <= fs[j].at)
  OBVIOUS
<1>5. j \in 1..k /\ j - 1 \in 1..(k - 1) /\ j - 1 \in 1..k /\ i \in 1..k /\ j - 1 + 1 = j
  OBVIOUS
<1>6. fs[j].at = EndOf(fs[j - 1])
  <2>1. fs[(j - 1) + 1].at = EndOf(fs[j - 1])
    BY <1>5
  <2>2. QED BY <1>5, <2>1
<1>7. EndOf(fs[i]) \in Nat /\ fs[j - 1].at <= EndOf(fs[j - 1]) /\ fs[j - 1].at \in Nat
      /\ EndOf(fs[j - 1]) \in Nat
  BY <1>5 DEF EndOf
<1>8. i # j - 1
  BY <1>4, <1>6, <1>7
<1>9. i \in 1..(j - 1 - 1)
  BY <1>5, <1>8
<1>10. j - 1 \notin B
  BY <1>3, <1>5
<1>11. EndOf(fs[i]) <= fs[j - 1].at
  BY <1>5, <1>9, <1>10
<1>12. QED BY <1>4, <1>6, <1>7, <1>11

\* Fragments that tile the text lie in it, in their order.
LEMMA TilesBound ==
  ASSUME NEW fs \in Seq(Piece), Tiles(fs), fs # <<>>, text \in Seq(Codepoint)
  PROVE  /\ \A i \in 1..Len(fs) : /\ fs[i].at \in Nat \ {0} /\ fs[i].len \in Nat
                                  /\ fs[i].at <= EndOf(fs[i]) /\ EndOf(fs[i]) <= Len(text) + 1
         /\ \A j \in 1..Len(fs) : \A i \in 1..(j - 1) : EndOf(fs[i]) <= fs[j].at
         /\ fs[1].at = 1 /\ EndOf(fs[Len(fs)]) = Len(text) + 1
<1>1. Len(fs) \in Nat \ {0} /\ Len(text) \in Nat
  OBVIOUS
<1>2. \A i \in 1..Len(fs) : fs[i].at \in Nat \ {0} /\ fs[i].len \in Nat /\ fs[i].id \in Nat
  <2>1. \A i \in 1..Len(fs) : fs[i] \in Piece
    OBVIOUS
  <2>2. QED BY <2>1 DEF Piece
<1>3. /\ fs[1].at = 1 /\ EndOf(fs[Len(fs)]) = Len(text) + 1
      /\ \A i \in 1..(Len(fs) - 1) : fs[i + 1].at = EndOf(fs[i])
  BY DEF Tiles
<1>4. \A i \in 1..Len(fs) : fs[i].at <= EndOf(fs[i]) /\ EndOf(fs[i]) \in Nat
  BY <1>2 DEF EndOf
<1>5. \A j \in 1..Len(fs) : \A i \in 1..(j - 1) : EndOf(fs[i]) <= fs[j].at
  BY <1>1, <1>2, <1>3, InOrder
<1>6. ASSUME NEW i \in 1..Len(fs) PROVE EndOf(fs[i]) <= Len(text) + 1
  <2>1. CASE i = Len(fs)
    BY <1>1, <1>3, <2>1
  <2>2. CASE i # Len(fs)
    <3>1. Len(fs) \in 1..Len(fs) /\ i \in 1..(Len(fs) - 1)
      BY <1>1, <2>2
    <3>2. EndOf(fs[i]) <= fs[Len(fs)].at
      BY <1>5, <3>1
    <3>3. QED BY <1>1, <1>2, <1>3, <1>4, <3>1, <3>2
  <2>3. QED BY <2>1, <2>2
<1>7. QED BY <1>2, <1>3, <1>4, <1>5, <1>6

\* What a piece of the text is.
LEMMA PartIs ==
  ASSUME text \in Seq(Codepoint), NEW f, f.at \in Nat \ {0}, f.len \in Nat,
         EndOf(f) <= Len(text) + 1
  PROVE  Part(f) \in Seq(Codepoint) /\ Len(Part(f)) = f.len
<1>1. PICK x : x = f.at
  OBVIOUS
<1>2. PICK y : y = f.len
  OBVIOUS
<1>3. Part(f) = SubSeq(text, x, x + y - 1)
  BY <1>1, <1>2 DEF Part
<1>4. x \in Nat \ {0} /\ y \in Nat /\ x + y <= Len(text) + 1 /\ Len(text) \in Nat
  BY <1>1, <1>2 DEF EndOf
<1>5. CASE y = 0
  BY <1>2, <1>3, <1>4, <1>5
<1>6. CASE y > 0
  BY <1>2, <1>3, <1>4, <1>6
<1>7. QED BY <1>4, <1>5, <1>6

\* An element of a sequence.
LEMMA ElementOf ==
  ASSUME NEW S, NEW s \in Seq(S), NEW i \in DOMAIN s
  PROVE  s[i] \in S
OBVIOUS

\* No two bytes have the same character, so that each is found again.
LEMMA ByteMapInjective ==
  ASSUME NEW b \in 0..255
  PROVE  /\ ByteToChar[b] \in Nat
         /\ ByteOfChar(ByteToChar[b]) = b
<1> DEFINE U(x) == {y \in 0..(x - 1) : ~Exempt(y)}
<1>1. \A x \in 0..255 : IsFiniteSet(U(x)) /\ Cardinality(U(x)) \in Nat
  <2>1. SUFFICES ASSUME NEW x \in 0..255
                 PROVE  IsFiniteSet(U(x)) /\ Cardinality(U(x)) \in Nat
    OBVIOUS
  <2>2. IsFiniteSet(0..(x - 1)) /\ U(x) \subseteq 0..(x - 1)
    BY FS_Interval
  <2>3. IsFiniteSet(U(x))
    BY <2>2, FS_Subset
  <2>4. QED BY <2>3, FS_CardinalityType
<1>2. \A x, y \in 0..255 : x < y /\ ~Exempt(x) => Cardinality(U(x)) # Cardinality(U(y))
  <2>1. SUFFICES ASSUME NEW x \in 0..255, NEW y \in 0..255, x < y, ~Exempt(x)
                 PROVE  Cardinality(U(x)) # Cardinality(U(y))
    OBVIOUS
  <2>2. U(x) \subseteq U(y) /\ x \in U(y) /\ x \notin U(x)
    BY <2>1
  <2>3. U(x) # U(y)
    BY <2>2
  <2> HIDE DEF U
  <2>4. IsFiniteSet(U(y)) /\ U(x) \in SUBSET U(y)
    BY <1>1, <2>2
  <2>5. Cardinality(U(x)) = Cardinality(U(y)) => U(x) = U(y)
    BY <2>4, FS_Subset
  <2>6. QED BY <2>3, <2>5
<1>3. \A x \in 0..255 :
        /\ Exempt(x) => ByteToChar[x] = x
        /\ ~Exempt(x) => ByteToChar[x] = 256 + Cardinality(U(x))
  BY DEF ByteToChar
<1> HIDE DEF U
<1>4. ByteToChar[b] \in Nat
  <2>1. CASE Exempt(b)
    BY <1>3, <2>1
  <2>2. CASE ~Exempt(b)
    <3>1. PICK q \in Nat : q = Cardinality(U(b))
      BY <1>1
    <3>2. ByteToChar[b] = 256 + q
      BY <1>3, <2>2, <3>1
    <3>3. QED BY <3>2
  <2>3. QED BY <2>1, <2>2
<1>5. ASSUME NEW x \in 0..255, ByteToChar[x] = ByteToChar[b] PROVE x = b
  <2>1. CASE Exempt(x) /\ Exempt(b)
    BY <1>3, <1>5, <2>1
  <2>2. CASE Exempt(x) /\ ~Exempt(b)
    <3>1. x = 256 + Cardinality(U(b)) /\ Cardinality(U(b)) \in Nat
      BY <1>1, <1>3, <1>5, <2>2
    <3>2. QED BY <3>1
  <2>3. CASE ~Exempt(x) /\ Exempt(b)
    <3>1. b = 256 + Cardinality(U(x)) /\ Cardinality(U(x)) \in Nat
      BY <1>1, <1>3, <1>5, <2>3
    <3>2. QED BY <3>1
  <2>4. CASE ~Exempt(x) /\ ~Exempt(b)
    <3>1. 256 + Cardinality(U(x)) = 256 + Cardinality(U(b))
      BY <1>3, <1>5, <2>4
    <3>2. Cardinality(U(x)) = Cardinality(U(b))
      <4>1. PICK q \in Nat : q = Cardinality(U(x))
        BY <1>1
      <4>2. PICK o \in Nat : o = Cardinality(U(b))
        BY <1>1
      <4>3. 256 + q = 256 + o
        BY <3>1, <4>1, <4>2, Zenon
      <4>4. QED BY <4>1, <4>2, <4>3
    <3>3. ~(x < b) /\ ~(b < x)
      BY <1>2, <2>4, <3>2
    <3>4. QED BY <3>3
  <2>5. QED BY <2>1, <2>2, <2>3, <2>4
<1>6. ByteOfChar(ByteToChar[b]) = b
  <2>1. ByteOfChar(ByteToChar[b]) \in 0..255
        /\ ByteToChar[ByteOfChar(ByteToChar[b])] = ByteToChar[b]
    BY DEF ByteOfChar
  <2>2. QED BY <1>5, <2>1
<1>7. QED BY <1>4, <1>6

\* What is encoded decodes to what it was.
LEMMA DecodesAsEncoded ==
  ASSUME NEW t \in Seq(Codepoint)
  PROVE  /\ ByteEncodeWord(t) \in Seq(Seq(Nat))
         /\ DecodeBytes(ByteEncodeWord(t)) = Bytes(t)
<1> DEFINE cs == ByteEncodeWord(t)
           d == DecodeBytes(cs)
<1>1. \A i \in DOMAIN t : Utf8[t[i]] \in Seq(0..255)
  <2>1. \A i \in DOMAIN t : t[i] \in Codepoint
    OBVIOUS
  <2>2. QED BY <2>1, TokenizerAssumption DEF Codepoint
<1>2. \A i \in DOMAIN t : \A j \in DOMAIN Utf8[t[i]] : Utf8[t[i]][j] \in 0..255
  <2>1. SUFFICES ASSUME NEW i \in DOMAIN t, NEW j \in DOMAIN Utf8[t[i]]
                 PROVE  Utf8[t[i]][j] \in 0..255
    OBVIOUS
  <2>2. PICK u \in Seq(0..255) : u = Utf8[t[i]]
    BY <1>1
  <2>3. j \in DOMAIN u
    BY <2>2, Zenon
  <2>4. u[j] \in 0..255
    BY <2>2, <2>3, ElementOf, Zenon
  <2>5. QED BY <2>2, <2>4, Zenon
<1>3. /\ DOMAIN cs = DOMAIN t
      /\ \A i \in DOMAIN t : /\ cs[i] = [j \in DOMAIN Utf8[t[i]] |-> ByteToChar[Utf8[t[i]][j]]]
                             /\ DOMAIN cs[i] = DOMAIN Utf8[t[i]]
  BY DEF ByteEncodeWord
<1>4. \A i \in DOMAIN t : \A j \in DOMAIN Utf8[t[i]] :
        cs[i][j] = ByteToChar[Utf8[t[i]][j]] /\ ByteOfChar(cs[i][j]) = Utf8[t[i]][j] /\ cs[i][j] \in Nat
  <2>1. SUFFICES ASSUME NEW i \in DOMAIN t, NEW j \in DOMAIN Utf8[t[i]]
                 PROVE  /\ cs[i][j] = ByteToChar[Utf8[t[i]][j]]
                        /\ ByteOfChar(cs[i][j]) = Utf8[t[i]][j] /\ cs[i][j] \in Nat
    OBVIOUS
  <2>2. PICK b \in 0..255 : b = Utf8[t[i]][j]
    BY <1>2
  <2>3. cs[i][j] = ByteToChar[b]
    BY <1>3, <2>2
  <2>4. ByteToChar[b] \in Nat /\ ByteOfChar(ByteToChar[b]) = b
    BY ByteMapInjective
  <2> HIDE DEF cs
  <2>5. QED BY <2>2, <2>3, <2>4, Zenon
<1>5. cs \in Seq(Seq(Nat))
  <2>1. \A i \in DOMAIN t : cs[i] \in Seq(Nat)
    <3>1. SUFFICES ASSUME NEW i \in DOMAIN t PROVE cs[i] \in Seq(Nat)
      OBVIOUS
    <3>2. PICK k \in Nat : DOMAIN Utf8[t[i]] = 1..k
      BY <1>1
    <3>3. cs[i] = [j \in 1..k |-> cs[i][j]] /\ \A j \in 1..k : cs[i][j] \in Nat
      BY <1>3, <1>4, <3>2
    <3> HIDE DEF cs
    <3>4. QED BY <3>3
  <2>2. PICK k \in Nat : DOMAIN t = 1..k
    OBVIOUS
  <2>3. cs = [i \in 1..k |-> cs[i]]
    BY <1>3, <2>2 DEF ByteEncodeWord
  <2> HIDE DEF cs
  <2>4. QED BY <2>1, <2>2, <2>3
<1>6. d = [i \in DOMAIN t |-> [j \in DOMAIN Utf8[t[i]] |-> ByteOfChar(cs[i][j])]]
  <2> HIDE DEF cs
  <2>1. d = [i \in DOMAIN cs |-> [j \in DOMAIN cs[i] |-> ByteOfChar(cs[i][j])]]
    BY DEF DecodeBytes
  <2>2. QED BY <1>3, <2>1
<1>7. \A i \in DOMAIN t : [j \in DOMAIN Utf8[t[i]] |-> ByteOfChar(cs[i][j])] = Utf8[t[i]]
  <2>1. SUFFICES ASSUME NEW i \in DOMAIN t
                 PROVE  [j \in DOMAIN Utf8[t[i]] |-> ByteOfChar(cs[i][j])] = Utf8[t[i]]
    OBVIOUS
  <2>2. Utf8[t[i]] = [j \in DOMAIN Utf8[t[i]] |-> Utf8[t[i]][j]]
    BY <1>1
  <2>3. \A j \in DOMAIN Utf8[t[i]] : ByteOfChar(cs[i][j]) = Utf8[t[i]][j]
    BY <1>4
  <2> HIDE DEF cs
  <2>4. QED BY <2>2, <2>3
<1>8. d = [i \in DOMAIN t |-> Utf8[t[i]]]
  <2> HIDE DEF cs, d
  <2>1. QED BY <1>6, <1>7
<1>9. QED BY <1>5, <1>8 DEF Bytes

-----------------------------------------------------------------------------
\* The invariant.
Word == [id : Nat, at : Nat \ {0}, len : Nat, cs : Seq(Seq(Nat))]

TkTypes ==
  /\ tkAt \in {"partition", "scan", "done"}
  /\ text \in Seq(Codepoint)
  /\ vocab \in Seq([text : Seq(Codepoint), type : Nat])
  /\ parse \in BOOLEAN
  /\ special \in 1..(Len(vocab) + 1)
  /\ frags \in Seq(Piece) /\ frags # <<>> /\ nextFrags \in Seq(Piece)
  /\ frag \in 1..(Len(frags) + 1)
  /\ cursor \in Nat
  /\ words \in Seq(Word)

\* A fragment holds the special token it was cut out for, or none of those before
\* the s-th.
Counts(v) == vocab[v].text # <<>> /\ (vocab[v].type = 4 \/ (parse /\ vocab[v].type = 3))
Absent(f, v) ==
  \A a \in f.at..(EndOf(f) - Len(vocab[v].text)) :
    SubSeq(text, a, a + Len(vocab[v].text) - 1) # vocab[v].text
Good(f, s) ==
  /\ f.id # 0 =>
       /\ f.id \in 1..Len(vocab)
       /\ Part(f) = vocab[f.id].text
       /\ parse \/ vocab[f.id].type = 4
  /\ f.id = 0 => \A v \in 1..Len(vocab) : Counts(v) /\ v < s => Absent(f, v)
Cut == \A i \in 1..Len(frags) : Good(frags[i], special)

\* A word of text is a match in a fragment.
WordSound(w) ==
  w.id = 0 =>
    /\ w.len > 0
    /\ w.cs = ByteEncodeWord(Part(w))
    /\ \E f \in 1..Len(frags) :
         /\ frags[f].id = 0 /\ frags[f].at <= w.at /\ EndOf(w) <= EndOf(frags[f])
         /\ Match(Part(frags[f]), w.at - frags[f].at + 1, {"punct"}) = w.at - frags[f].at + 1 + w.len

\* The words tile the text as far as it was scanned, Pos.
Pos == IF frag <= Len(frags) THEN frags[frag].at + cursor ELSE Len(text) + 1
TilesTo(ws, p) ==
  /\ IF ws = <<>> THEN p = 1 ELSE ws[1].at = 1 /\ EndOf(ws[Len(ws)]) = p
  /\ \A i \in 1..(Len(ws) - 1) : ws[i + 1].at = EndOf(ws[i])
\* The next list tiles it as far as it was searched for the current token.
Fresh == frag = 1 /\ cursor = 0 /\ nextFrags = <<>>
Searched ==
  tkAt = "partition" =>
    /\ words = <<>>
    /\ cursor > 0 => frag <= Len(frags) /\ frags[frag].id = 0 /\ cursor <= frags[frag].len
    /\ TilesTo(nextFrags, Pos)
    /\ \A i \in 1..Len(nextFrags) : Good(nextFrags[i], special + 1)
    /\ Fresh \/ (special <= Len(vocab) /\ ~Skipped /\ nextFrags # <<>>)
Scanned ==
  /\ tkAt # "partition" =>
       /\ special = Len(vocab) + 1
       /\ frag <= Len(frags) => cursor <= frags[frag].len
       /\ TilesTo(words, Pos)
  /\ tkAt = "done" => frag > Len(frags)
  /\ \A i \in 1..Len(words) : WordSound(words[i])

TkInv == TkTypes /\ Tiles(frags) /\ Cut /\ Searched /\ Scanned

\* At first one fragment is the whole text.
LEMMA TkInitially == TkInit => TkInv
<1> SUFFICES ASSUME TkInit PROVE TkInv
  OBVIOUS
<1>1. PICK e \in Encodings : text = e.text /\ vocab = e.vocab /\ parse = e.parse
  BY DEF TkInit
<1>2. /\ text \in Seq(Codepoint)
      /\ vocab \in Seq([text : Seq(Codepoint), type : Nat])
      /\ parse \in BOOLEAN
  BY <1>1, TokenizerAssumption DEF Codepoint
<1>3. PICK q \in Nat : q = Len(text)
  BY <1>2
<1>4. PICK f : f = [id |-> 0, at |-> 1, len |-> q]
  OBVIOUS
<1>5. /\ frags = <<f>> /\ nextFrags = <<>> /\ special = 1 /\ frag = 1 /\ cursor = 0 /\ words = <<>>
      /\ tkAt = "partition"
  BY <1>3, <1>4 DEF TkInit
<1>15. f \in Piece
  BY <1>3, <1>4 DEF Piece
<1>6. frags \in Seq(Piece) /\ Len(frags) = 1 /\ frags[1] = f /\ frags # <<>>
  BY <1>5, <1>15
<1>7. Len(vocab) \in Nat
  BY <1>2
<1>8. TkTypes
  BY <1>2, <1>5, <1>6, <1>7 DEF TkTypes
<1>9. EndOf(f) = q + 1 /\ f.at = 1 /\ f.len = q /\ f.id = 0
  BY <1>3, <1>4 DEF EndOf
<1>10. Tiles(frags)
  BY <1>3, <1>6, <1>9 DEF Tiles
<1>11. Cut
  BY <1>5, <1>6, <1>7, <1>9 DEF Cut, Good
<1>12. Scanned
  BY <1>5 DEF Scanned
<1>13. Searched
  <2>1. Pos = 1
    BY <1>5, <1>6, <1>9 DEF Pos
  <2>2. TilesTo(nextFrags, Pos)
    BY <1>5, <2>1 DEF TilesTo
  <2>3. QED BY <1>5, <2>2 DEF Searched, Fresh
<1>14. QED BY <1>8, <1>10, <1>11, <1>12, <1>13 DEF TkInv

\* Where the fragments, the text and what is looked for stay, so does what holds of them.
LEMMA StaysCut ==
  ASSUME UNCHANGED <<text, vocab, parse, frags>>
  PROVE  /\ Tiles(frags) => Tiles(frags)'
         /\ \A w : WordSound(w)' = WordSound(w)
         /\ \A f, v : Absent(f, v)' = Absent(f, v)
         /\ \A v : Counts(v)' = Counts(v)
         /\ \A f : Part(f)' = Part(f)
         /\ \A f, s : Good(f, s)' = Good(f, s)
<1>1. Tiles(frags) => Tiles(frags)'
  BY DEF Tiles, EndOf
<1>2. \A f : Part(f)' = Part(f)
  BY DEF Part
<1>3. \A w : WordSound(w)' = WordSound(w)
  BY DEF WordSound, Part, EndOf
<1>4. \A f, v : Absent(f, v)' = Absent(f, v)
  BY DEF Absent, EndOf
<1>5. \A v : Counts(v)' = Counts(v)
  BY DEF Counts
<1>6. \A f, s : Good(f, s)' = Good(f, s)
  BY DEF Good, Part, Counts, Absent, EndOf
<1>7. QED BY <1>1, <1>2, <1>3, <1>4, <1>5, <1>6

\* What is looked for, and the order of the numbers.
LEMMA Listing ==
  ASSUME TkTypes
  PROVE  /\ Len(vocab) \in Nat /\ special \in Nat \ {0} /\ frag \in Nat \ {0} /\ Len(frags) \in Nat \ {0}
         /\ \A v \in 1..Len(vocab) :
              vocab[v].text \in Seq(Codepoint) /\ vocab[v].type \in Nat /\ Len(vocab[v].text) \in Nat
         /\ \A i \in 1..Len(frags) :
              /\ frags[i] \in Piece
              /\ frags[i].id \in Nat /\ frags[i].at \in Nat \ {0} /\ frags[i].len \in Nat
<1>1. Len(vocab) \in Nat /\ special \in Nat \ {0} /\ frag \in Nat \ {0} /\ Len(frags) \in Nat \ {0}
  BY DEF TkTypes
<1>2. \A v \in 1..Len(vocab) : vocab[v] \in [text : Seq(Codepoint), type : Nat]
  <2>1. PICK R : R = [text : Seq(Codepoint), type : Nat]
    OBVIOUS
  <2>2. vocab \in Seq(R)
    BY <2>1 DEF TkTypes
  <2>3. \A v \in 1..Len(vocab) : vocab[v] \in R
    BY <2>2
  <2>4. QED BY <2>1, <2>3
<1>3. \A v \in 1..Len(vocab) : vocab[v].text \in Seq(Codepoint) /\ vocab[v].type \in Nat
  BY <1>2
<1>4. \A v \in 1..Len(vocab) : Len(vocab[v].text) \in Nat
  BY <1>3
<1>5. \A i \in 1..Len(frags) : frags[i] \in Piece
  BY DEF TkTypes
<1>6. \A i \in 1..Len(frags) : frags[i].id \in Nat /\ frags[i].at \in Nat \ {0} /\ frags[i].len \in Nat
  BY <1>5 DEF Piece
<1>7. QED BY <1>1, <1>3, <1>4, <1>5, <1>6

\* The same fragments, and what is said of what was looked for.
LEMMA CutStays ==
  ASSUME UNCHANGED <<text, vocab, parse, special, frags>>, Cut
  PROVE  Cut' /\ (Tiles(frags) => Tiles(frags)')
<1>1. Cut'
  BY DEF Cut, Good, Absent, Counts, Part, EndOf
<1>2. QED BY <1>1, StaysCut

\* The same words, and what is said of them.
LEMMA WordsStay ==
  ASSUME UNCHANGED <<text, vocab, parse, frags, words>>,
         \A i \in 1..Len(words) : WordSound(words[i])
  PROVE  (\A i \in 1..Len(words) : WordSound(words[i]))'
BY DEF WordSound, Part, EndOf

\* A token that is skipped does not count.
LEMMA KeepsSkipSpecial == TkInv /\ SkipSpecial => TkInv'
<1> SUFFICES ASSUME TkInv, SkipSpecial PROVE TkInv'
  OBVIOUS
<1>1. /\ TkTypes /\ Tiles(frags) /\ Cut /\ Searched /\ Scanned
      /\ special' = special + 1 /\ special <= Len(vocab) /\ Skipped /\ tkAt = "partition"
      /\ UNCHANGED <<tkAt, text, vocab, parse, frags, nextFrags, frag, cursor, words>>
  BY DEF TkInv, SkipSpecial
<1>2. Len(vocab) \in Nat /\ special \in Nat \ {0}
  BY <1>1, Listing
<1>3. TkTypes'
  BY <1>1, <1>2 DEF TkTypes
<1>4. ~Counts(special)
  BY <1>1 DEF Counts, Skipped, Listed, Current
<1>5. \A f : Good(f, special) => Good(f, special + 1)
  <2>1. ASSUME NEW v \in 1..Len(vocab), Counts(v), v < special + 1 PROVE v < special
    <3>1. v # special
      BY <1>4, <2>1
    <3>2. QED BY <1>2, <2>1, <3>1
  <2>2. QED BY <2>1 DEF Good
<1>6. Cut' /\ Tiles(frags)'
  <2>1. \A i \in 1..Len(frags) : Good(frags[i], special + 1)
    BY <1>1, <1>5 DEF Cut
  <2>4. Cut'
    BY <1>1, <2>1 DEF Cut, Good, Part, Counts, Absent, EndOf
  <2>5. QED BY <1>1, <2>4, StaysCut
<1>7. Scanned'
  BY <1>1, WordsStay DEF Scanned
<1>8. Searched'
  <2>1. Fresh
    BY <1>1 DEF Searched
  <2>2. Len(nextFrags) = 0
    BY <2>1 DEF Fresh
  <2>3. Fresh' /\ Len(nextFrags') = 0
    BY <1>1, <2>1, <2>2 DEF Fresh
  <2>4. TilesTo(nextFrags, Pos)'
    BY <1>1 DEF Searched, TilesTo, Pos, EndOf
  <2>5. words' = <<>> /\ ~(cursor' > 0)
    BY <1>1, <2>1 DEF Searched, Fresh
  <2>6. QED BY <2>3, <2>4, <2>5 DEF Searched
<1>9. QED BY <1>3, <1>6, <1>7, <1>8 DEF TkInv

\* Every fragment was searched for the token: the next list takes their place.
LEMMA KeepsNextSpecial == TkInv /\ NextSpecial => TkInv'
<1> SUFFICES ASSUME TkInv, NextSpecial PROVE TkInv'
  OBVIOUS
<1>1. /\ TkTypes /\ Tiles(frags) /\ Cut /\ Searched /\ Scanned
      /\ special' = special + 1 /\ special <= Len(vocab) /\ frag > Len(frags) /\ frag' = 1 /\ tkAt = "partition"
      /\ frags' = nextFrags /\ nextFrags' = <<>>
      /\ UNCHANGED <<tkAt, text, vocab, parse, cursor, words>>
  BY DEF TkInv, NextSpecial
<1>2. Len(vocab) \in Nat /\ special \in Nat \ {0} /\ frag \in Nat \ {0} /\ Len(frags) \in Nat \ {0}
  BY <1>1, Listing
<1>3. /\ words = <<>> /\ cursor = 0 /\ nextFrags # <<>> /\ nextFrags \in Seq(Piece)
      /\ TilesTo(nextFrags, Pos)
      /\ \A i \in 1..Len(nextFrags) : Good(nextFrags[i], special + 1)
  <2>1. ~Fresh /\ ~(frag <= Len(frags)) /\ cursor \in Nat /\ nextFrags \in Seq(Piece)
    BY <1>1, <1>2 DEF Fresh, TkTypes
  <2>2. /\ words = <<>> /\ TilesTo(nextFrags, Pos)
        /\ \A i \in 1..Len(nextFrags) : Good(nextFrags[i], special + 1)
    BY <1>1 DEF Searched
  <2>3. nextFrags # <<>> /\ ~(cursor > 0)
    BY <1>1, <2>1 DEF Searched
  <2>4. QED BY <2>1, <2>2, <2>3
<1>4. PICK g \in Seq(Piece) : g = nextFrags
  BY <1>3
<1>5. TkTypes'
  <2>1. Len(g) \in Nat
    BY <1>4
  <2>2. frags' = g /\ frag' \in 1..(Len(frags') + 1) /\ frags' # <<>> /\ nextFrags' \in Seq(Piece)
    BY <1>1, <1>3, <1>4, <2>1
  <2>3. special' \in 1..(Len(vocab) + 1)
    BY <1>1, <1>2
  <2>4. QED BY <1>1, <1>4, <2>2, <2>3 DEF TkTypes
<1>6. Tiles(g)
  <2>1. Pos = Len(text) + 1
    BY <1>1, <1>2 DEF Pos
  <2>2. g # <<>> /\ g[1].at = 1 /\ EndOf(g[Len(g)]) = Len(text) + 1
        /\ \A i \in 1..(Len(g) - 1) : g[i + 1].at = EndOf(g[i])
    BY <1>3, <1>4, <2>1 DEF TilesTo
  <2>3. \A i \in DOMAIN g : g[i] \in Piece
    BY <1>4
  <2>4. \A i \in DOMAIN g : g[i].len >= 0
    BY <2>3 DEF Piece
  <2>5. QED BY <2>2, <2>4 DEF Tiles
<1>7. Tiles(frags)'
  BY <1>1, <1>4, <1>6 DEF Tiles, EndOf
<1>8. Cut'
  <2>1. \A i \in 1..Len(frags') : Good(frags'[i], special')
    BY <1>1, <1>3
  <2>2. QED BY <1>1, <2>1 DEF Cut, Good, Part, Counts, Absent, EndOf
<1>9. Scanned'
  <2>1. words' = <<>> /\ Len(words') = 0 /\ tkAt' = "partition"
    BY <1>1, <1>3
  <2>2. QED BY <2>1 DEF Scanned
<1>10. Searched'
  <2>1. frag' <= Len(frags') /\ frags'[frag'].at = 1 /\ cursor' = 0
    <3>1. Len(g) \in Nat \ {0} /\ g[1].at = 1
      BY <1>3, <1>4, <1>6 DEF Tiles
    <3>2. QED BY <1>1, <1>3, <1>4, <3>1
  <2>2. Pos' = 1
    BY <2>1 DEF Pos
  <2>3. TilesTo(nextFrags, Pos)'
    BY <1>1, <2>2 DEF TilesTo
  <2>4. Fresh' /\ words' = <<>> /\ Len(nextFrags') = 0
    BY <1>1, <1>3 DEF Fresh
  <2>5. QED BY <2>1, <2>3, <2>4 DEF Searched
<1>11. QED BY <1>5, <1>7, <1>8, <1>9, <1>10 DEF TkInv

\* The partition done, the first fragment begins where the text does.
LEMMA KeepsPartitioned == TkInv /\ Partitioned => TkInv'
<1> SUFFICES ASSUME TkInv, Partitioned PROVE TkInv'
  OBVIOUS
<1>1. /\ TkTypes /\ Tiles(frags) /\ Cut /\ Searched /\ Scanned
      /\ special > Len(vocab) /\ tkAt = "partition" /\ tkAt' = "scan" /\ frag' = 1 /\ cursor' = 0
      /\ UNCHANGED <<text, vocab, parse, special, frags, nextFrags, words>>
  BY DEF TkInv, Partitioned
<1>2. Len(vocab) \in Nat /\ special \in Nat \ {0} /\ frag \in Nat \ {0} /\ Len(frags) \in Nat \ {0}
  BY <1>1, Listing
<1>3. special = Len(vocab) + 1
  <2>1. special \in 1..(Len(vocab) + 1) /\ special > Len(vocab)
    BY <1>1 DEF TkTypes
  <2>2. QED BY ONLY <1>2, <2>1
<1>4. TkTypes'
  <2>1. frag' \in 1..(Len(frags') + 1) /\ cursor' \in Nat /\ tkAt' \in {"partition", "scan", "done"}
    BY <1>1, <1>2
  <2>2. QED BY <1>1, <2>1 DEF TkTypes
<1>5. Searched'
  <2>1. tkAt' = "scan"
    BY <1>1
  <2>2. QED BY ONLY <2>1 DEF Searched
<1>6. Cut' /\ Tiles(frags)'
  BY <1>1, CutStays
<1>7. Scanned'
  <2>1. words' = <<>> /\ special' = Len(vocab') + 1 /\ tkAt' = "scan" /\ Len(words') = 0
    BY <1>1, <1>3 DEF Searched
  <2>2. 1 \in 1..Len(frags) /\ frags[1].at = 1 /\ frags[1].len \in Nat
    <3>1. 1 \in 1..Len(frags) /\ frags # <<>>
      BY <1>1, <1>2 DEF TkTypes
    <3>2. frags[1].at = 1
      BY <1>1, <3>1 DEF Tiles
    <3>3. QED BY <1>1, <3>1, <3>2, Listing
  <2>3. Pos' = 1 /\ frag' <= Len(frags') /\ cursor' <= frags'[frag'].len
    BY <1>1, <1>2, <2>2 DEF Pos
  <2>4. TilesTo(words, Pos)'
    BY <2>1, <2>3 DEF TilesTo
  <2>5. QED BY <2>1, <2>3, <2>4 DEF Scanned
<1>8. QED BY <1>4, <1>5, <1>6, <1>7 DEF TkInv

\* The end changes nothing.
LEMMA KeepsEndEncode == TkInv /\ EndEncode => TkInv'
<1> SUFFICES ASSUME TkInv, EndEncode PROVE TkInv'
  OBVIOUS
<1>1. /\ TkTypes /\ Tiles(frags) /\ Cut /\ Searched /\ Scanned
      /\ frag > Len(frags) /\ tkAt = "scan" /\ tkAt' = "done"
      /\ UNCHANGED <<text, vocab, parse, special, frags, nextFrags, frag, cursor, words>>
  BY DEF TkInv, EndEncode
<1>2. TkTypes'
  BY <1>1 DEF TkTypes
<1>3. Cut' /\ Tiles(frags)' /\ Searched'
  BY <1>1, CutStays DEF Searched
<1>4. (\A i \in 1..Len(words) : WordSound(words[i]))'
  BY <1>1, WordsStay DEF Scanned
<1>5. TilesTo(words, Pos)'
  BY <1>1 DEF Scanned, TilesTo, Pos, EndOf
<1>6. Scanned'
  BY <1>1, <1>4, <1>5 DEF Scanned
<1>7. QED BY <1>2, <1>3, <1>6 DEF TkInv

\* The next fragment begins where this one ends.
LEMMA NextPos ==
  ASSUME TkTypes, Tiles(frags), frag <= Len(frags)
  PROVE  (IF frag + 1 <= Len(frags) THEN frags[frag + 1].at + 0 ELSE Len(text) + 1) = EndOf(frags[frag])
<1>1. PICK k \in Nat \ {0} : k = Len(frags)
  BY Listing
<1>2. frag \in 1..k /\ text \in Seq(Codepoint) /\ frags \in Seq(Piece) /\ frags # <<>>
  BY <1>1, Listing DEF TkTypes
<1>3. CASE frag = k
  <2>1. EndOf(frags[k]) = Len(text) + 1
    BY <1>1, <1>2, TilesBound
  <2>2. ~(frag + 1 <= Len(frags))
    BY <1>1, <1>3
  <2>3. QED BY <1>3, <2>1, <2>2
<1>4. CASE frag # k
  <2>1. frag \in 1..(k - 1) /\ frag + 1 \in 1..k
    BY <1>2, <1>4
  <2>2. frags[frag + 1].at = EndOf(frags[frag])
    BY <1>1, <2>1 DEF Tiles
  <2>3. frags[frag + 1].at \in Nat
    BY <1>1, <1>2, <2>1, TilesBound
  <2>4. QED BY <1>1, <2>1, <2>2, <2>3
<1>5. QED BY <1>3, <1>4

\* One more behind the others.
LEMMA OneMore ==
  ASSUME NEW S, NEW ws \in Seq(S), NEW w \in S, NEW r, r = Append(ws, w)
  PROVE  /\ r \in Seq(S) /\ r # <<>> /\ Len(r) = Len(ws) + 1 /\ r[Len(ws) + 1] = w
         /\ \A i \in 1..Len(ws) : r[i] = ws[i]
<1>1. r \in Seq(S) /\ Len(r) = Len(ws) + 1 /\ r[Len(ws) + 1] = w
  OBVIOUS
<1>2. \A i \in 1..Len(ws) : r[i] = ws[i]
  OBVIOUS
<1>3. r # <<>>
  OBVIOUS
<1>4. QED BY <1>1, <1>2, <1>3

\* The piece that begins where the others end goes on with them.
LEMMA TilesOneMore ==
  ASSUME NEW S, NEW ws \in Seq(S), NEW w \in S, NEW p, TilesTo(ws, p), w.at = p,
         NEW r, r = Append(ws, w)
  PROVE  TilesTo(r, EndOf(w))
<1>1. PICK q \in Nat : q = Len(ws)
  OBVIOUS
<1>2. /\ r # <<>> /\ Len(r) = q + 1 /\ r[q + 1] = w
      /\ \A i \in 1..q : r[i] = ws[i]
  BY <1>1, OneMore
<1>3. CASE q = 0
  <2>1. ws = <<>>
    BY <1>1, <1>3, EmptySeq, Zenon
  <2>2. p = 1
    BY <2>1 DEF TilesTo
  <2>3. r[1] = w /\ Len(r) = 1
    BY <1>2, <1>3
  <2>4. QED BY <1>2, <2>2, <2>3 DEF TilesTo
<1>4. CASE q > 0
  <2>1. ws # <<>>
    BY <1>1, <1>4
  <2>2. ws[1].at = 1 /\ EndOf(ws[q]) = p /\ \A i \in 1..(q - 1) : ws[i + 1].at = EndOf(ws[i])
    BY <1>1, <2>1 DEF TilesTo
  <2>3. r[1] = ws[1] /\ r[q] = ws[q]
    BY <1>2, <1>4
  <2>4. ASSUME NEW i \in 1..(Len(r) - 1) PROVE r[i + 1].at = EndOf(r[i])
    <3>1. i \in 1..q
      BY <1>2
    <3>2. CASE i = q
      BY <1>2, <2>2, <2>3, <3>2
    <3>3. CASE i # q
      <4>1. i \in 1..(q - 1) /\ i + 1 \in 1..q
        BY <3>1, <3>3
      <4>2. QED BY <1>2, <2>2, <3>1, <4>1
    <3>4. QED BY <3>2, <3>3
  <2>5. QED BY <1>2, <2>2, <2>3, <2>4 DEF TilesTo
<1>5. QED BY <1>3, <1>4

\* One more word that is a match, too.
LEMMA WordsGrow ==
  ASSUME UNCHANGED <<text, frags>>, words \in Seq(Word), NEW w \in Word, words' = Append(words, w),
         \A i \in 1..Len(words) : WordSound(words[i]), WordSound(w)
  PROVE  (\A i \in 1..Len(words) : WordSound(words[i]))'
<1>1. PICK q \in Nat : q = Len(words)
  OBVIOUS
<1>2. Len(words') = q + 1 /\ words'[q + 1] = w /\ \A i \in 1..q : words'[i] = words[i]
  BY <1>1, OneMore
<1>3. \A i \in 1..Len(words') : WordSound(words'[i])
  <2>1. SUFFICES ASSUME NEW i \in 1..Len(words') PROVE WordSound(words'[i])
    OBVIOUS
  <2>2. CASE i = q + 1
    BY <1>2, <2>2
  <2>3. CASE i # q + 1
    <3>1. i \in 1..q
      BY <1>2, <2>3
    <3>2. QED BY <1>1, <1>2, <3>1
  <2>4. QED BY <2>2, <2>3
<1>4. QED BY <1>3 DEF WordSound, Part, EndOf

\* The step of a fragment done: the next begins where it ends.
LEMMA KeepsNextFrag == TkInv /\ NextFrag => TkInv'
<1> SUFFICES ASSUME TkInv, NextFrag PROVE TkInv'
  OBVIOUS
<1>1. /\ TkTypes /\ Tiles(frags) /\ Cut /\ Searched /\ Scanned
      /\ tkAt = "scan" /\ frag <= Len(frags) /\ cursor >= Len(Cs)
      /\ frag' = frag + 1 /\ cursor' = 0
      /\ UNCHANGED <<tkAt, text, vocab, parse, special, frags, nextFrags, words>>
  BY DEF TkInv, NextFrag
<1>2. PICK k \in Nat \ {0} : k = Len(frags)
  BY <1>1, Listing
<1>3. frag \in 1..k /\ cursor \in Nat /\ text \in Seq(Codepoint) /\ frags \in Seq(Piece) /\ frags # <<>>
  BY <1>1, <1>2, Listing DEF TkTypes
<1>4. /\ \A i \in 1..k : frags[i].at \in Nat \ {0} /\ frags[i].len \in Nat /\ EndOf(frags[i]) <= Len(text) + 1
      /\ EndOf(frags[k]) = Len(text) + 1
  BY <1>1, <1>2, <1>3, TilesBound
<1>5. Len(Cs) = frags[frag].len
  BY <1>3, <1>4, PartIs DEF Cs
<1>6. cursor = frags[frag].len
  <2>1. cursor <= frags[frag].len
    BY <1>1 DEF Scanned
  <2>2. QED BY <1>1, <1>3, <1>4, <1>5, <2>1
<1>7. TkTypes'
  BY <1>1, <1>2, <1>3 DEF TkTypes
<1>8. Cut' /\ Tiles(frags)' /\ Searched'
  BY <1>1, CutStays DEF Searched
<1>9. (\A i \in 1..Len(words) : WordSound(words[i]))'
  BY <1>1, WordsStay DEF Scanned
<1>10. Pos' = Pos
  <2>1. Pos = EndOf(frags[frag])
    BY <1>1, <1>6 DEF Pos, EndOf
  <2>2. Pos' = EndOf(frags[frag])
    BY <1>1, <1>3, NextPos DEF Pos
  <2>3. QED BY <2>1, <2>2
<1>11. TilesTo(words, Pos)'
  <2>1. TilesTo(words, Pos)
    BY <1>1 DEF Scanned
  <2>2. QED BY <1>1, <1>10, <2>1 DEF TilesTo, EndOf
<1>12. Scanned'
  <2>1. frag' <= Len(frags') => cursor' <= frags'[frag'].len
    <3>1. SUFFICES ASSUME frag' <= Len(frags') PROVE cursor' <= frags'[frag'].len
      OBVIOUS
    <3>2. frag + 1 \in 1..k
      BY <1>1, <1>2, <1>3, <3>1
    <3>3. frags[frag + 1].len \in Nat
      BY <1>4, <3>2
    <3>4. QED BY <1>1, <3>3
  <2>2. special' = Len(vocab') + 1
    BY <1>1 DEF Scanned
  <2>3. QED BY <1>1, <1>9, <1>11, <2>1, <2>2 DEF Scanned
<1>13. QED BY <1>7, <1>8, <1>12 DEF TkInv

\* A special token is a word by itself.
LEMMA KeepsEmitSpecial == TkInv /\ EmitSpecial => TkInv'
<1> SUFFICES ASSUME TkInv, EmitSpecial PROVE TkInv'
  OBVIOUS
<1>1. /\ TkTypes /\ Tiles(frags) /\ Cut /\ Searched /\ Scanned
      /\ tkAt = "scan" /\ frag <= Len(frags) /\ frags[frag].id # 0 /\ cursor = 0
      /\ cursor' = frags[frag].len
      /\ words' = Append(words, [id |-> frags[frag].id, at |-> frags[frag].at, len |-> frags[frag].len, cs |-> <<>>])
      /\ UNCHANGED <<tkAt, text, vocab, parse, special, frags, nextFrags, frag>>
  BY DEF TkInv, EmitSpecial, EmitPiece
<1>2. PICK f \in Piece : f = frags[frag]
  BY <1>1, Listing
<1>3. f.id \in Nat /\ f.at \in Nat \ {0} /\ f.len \in Nat /\ f.id # 0
  BY <1>1, <1>2 DEF Piece
<1>4. PICK w : w = [id |-> f.id, at |-> f.at, len |-> f.len, cs |-> <<>>]
  OBVIOUS
<1>5. w \in Word /\ EndOf(w) = f.at + f.len /\ w.at = f.at /\ w.id = f.id
  BY <1>3, <1>4 DEF Word, EndOf
<1>6. words \in Seq(Word) /\ words' = Append(words, w) /\ cursor' = f.len
  BY <1>1, <1>2, <1>4 DEF TkTypes
<1>7. words' \in Seq(Word)
  BY <1>5, <1>6
<1>8. TkTypes'
  BY <1>1, <1>3, <1>6, <1>7 DEF TkTypes
<1>9. Cut' /\ Tiles(frags)' /\ Searched'
  BY <1>1, CutStays DEF Searched
<1>10. (\A i \in 1..Len(words) : WordSound(words[i]))'
  <2>1. WordSound(w)
    BY <1>3, <1>5 DEF WordSound
  <2>2. \A i \in 1..Len(words) : WordSound(words[i])
    BY <1>1 DEF Scanned
  <2>3. QED BY <1>1, <1>5, <1>6, <2>1, <2>2, WordsGrow
<1>11. Pos = f.at /\ Pos' = f.at + f.len
  BY <1>1, <1>2, <1>3 DEF Pos
<1>12. TilesTo(words, Pos)'
  <2>1. TilesTo(words, f.at)
    BY <1>1, <1>11 DEF Scanned
  <2>2. TilesTo(words', f.at + f.len)
    BY <1>5, <1>6, <2>1, TilesOneMore
  <2>3. QED BY <1>11, <2>2 DEF TilesTo, EndOf
<1>13. Scanned'
  <2>1. cursor' <= frags'[frag'].len
    BY <1>1, <1>2, <1>3
  <2>2. special' = Len(vocab') + 1
    BY <1>1 DEF Scanned
  <2>3. QED BY <1>1, <1>10, <1>12, <2>1, <2>2 DEF Scanned
<1>14. QED BY <1>8, <1>9, <1>13 DEF TkInv

\* The word that is emitted is a match, and its bytes are those of the text.
LEMMA KeepsScanWord == TkInv /\ ScanWord => TkInv'
<1> SUFFICES ASSUME TkInv, ScanWord PROVE TkInv'
  OBVIOUS
<1>1. PICK e : e = WordEnd(cursor + 1) - 1
  OBVIOUS
<1>2. /\ TkTypes /\ Tiles(frags) /\ Cut /\ Searched /\ Scanned
      /\ tkAt = "scan" /\ frag <= Len(frags) /\ frags[frag].id = 0 /\ cursor < Len(Cs)
      /\ cursor' = e
      /\ words' = Append(words, [id |-> 0, at |-> frags[frag].at + cursor, len |-> e - cursor,
                                 cs |-> ByteEncodeWord(SubSeq(Cs, cursor + 1, e))])
      /\ UNCHANGED <<tkAt, text, vocab, parse, special, frags, nextFrags, frag>>
  BY <1>1 DEF TkInv, ScanWord, EmitPiece
<1>3. PICK k \in Nat \ {0} : k = Len(frags)
  BY <1>2, Listing
<1>4. frag \in 1..k /\ cursor \in Nat /\ text \in Seq(Codepoint) /\ frags \in Seq(Piece) /\ frags # <<>>
  BY <1>2, <1>3, Listing DEF TkTypes
<1>5. PICK f : f = frags[frag]
  OBVIOUS
<1>6. f.at \in Nat \ {0} /\ f.len \in Nat /\ EndOf(f) <= Len(text) + 1 /\ f.id = 0
  BY <1>2, <1>3, <1>4, <1>5, TilesBound
<1>7. PICK c : c = Part(f)
  OBVIOUS
<1>8. c = Cs /\ c \in Seq(Codepoint) /\ Len(c) = f.len
  BY <1>4, <1>5, <1>6, <1>7, PartIs DEF Cs
<1>9. PICK p \in Nat \ {0} : p = cursor + 1
  BY <1>4
<1>10. p \in 1..Len(c)
  BY <1>2, <1>4, <1>6, <1>8, <1>9
<1>11. WordEnd(p) = Match(c, p, {"punct"}) /\ WordEnd(p) \in (p + 1)..(Len(c) + 1)
  BY <1>8, <1>10, WordEndIs
<1>12. WordEnd(p) = e + 1 /\ e \in p..f.len /\ e \in Nat /\ p = cursor + 1 /\ cursor = p - 1
  <2>1. PICK x \in (p + 1)..(Len(c) + 1) : x = WordEnd(p)
    BY <1>11
  <2>2. e = x - 1
    BY <1>1, <1>9, <2>1, Zenon
  <2>3. cursor \in Nat /\ p = cursor + 1 /\ Len(c) = f.len /\ f.len \in Nat
    BY <1>4, <1>6, <1>8, <1>9
  <2>4. x \in (p + 1)..(f.len + 1) /\ p \in Nat \ {0}
    BY <2>1, <2>3
  <2>5. x = e + 1 /\ e \in p..f.len /\ e \in Nat /\ cursor = p - 1
    BY ONLY <2>2, <2>3, <2>4
  <2>6. QED BY ONLY <2>1, <2>3, <2>5
<1>13. PICK t : t = SubSeq(c, p, e)
  OBVIOUS
<1>14. t \in Seq(Codepoint)
  BY <1>8, <1>12, <1>13
<1>15. PICK w : w = [id |-> 0, at |-> f.at + cursor, len |-> e - cursor, cs |-> ByteEncodeWord(t)]
  OBVIOUS
<1>16. words' = Append(words, w)
  BY <1>2, <1>5, <1>8, <1>9, <1>13, <1>15, Zenon
<1>17. /\ w.id = 0 /\ w.at = f.at + p - 1 /\ w.len = e - p + 1 /\ w.cs = ByteEncodeWord(t)
       /\ EndOf(w) = f.at + e
  <2>1. w.id = 0 /\ w.at = f.at + cursor /\ w.len = e - cursor /\ w.cs = ByteEncodeWord(t)
    BY <1>15
  <2>2. PICK x \in Nat \ {0} : x = f.at
    BY <1>6
  <2>3. x + cursor = x + p - 1 /\ e - cursor = e - p + 1 /\ (x + cursor) + (e - cursor) = x + e
    BY <1>4, <1>12
  <2>4. EndOf(w) = (x + cursor) + (e - cursor)
    BY <2>1, <2>2, Zenon DEF EndOf
  <2>5. QED BY <2>1, <2>2, <2>3, <2>4, Zenon
<1>18. w \in Word
  <2>1. PICK x : x = ByteEncodeWord(t)
    OBVIOUS
  <2>2. x \in Seq(Seq(Nat))
    BY <1>14, <2>1, DecodesAsEncoded
  <2>3. PICK S : S = Seq(Seq(Nat))
    OBVIOUS
  <2>4. x \in S /\ f.at + cursor \in Nat \ {0} /\ e - cursor \in Nat
    BY <1>4, <1>6, <1>12, <2>2, <2>3
  <2>5. w = [id |-> 0, at |-> f.at + cursor, len |-> e - cursor, cs |-> x]
    BY <1>15, <2>1
  <2>6. w \in [id : Nat, at : Nat \ {0}, len : Nat, cs : S]
    BY <2>4, <2>5
  <2>7. QED BY <2>3, <2>6 DEF Word
<1>19. Part(w) = t
  <2>1. PICK y : y = f.at + f.len - 1
    OBVIOUS
  <2>2. Len(text) \in Nat
    BY <1>4
  <2>3. y \in 0..Len(text) /\ f.at + e - 1 <= y /\ y \in Nat
    BY <1>6, <1>12, <2>1, <2>2 DEF EndOf
  <2>4. SubSeq(SubSeq(text, f.at, y), p, e) = SubSeq(text, f.at + p - 1, f.at + e - 1)
    <3>1. PICK x \in Nat \ {0} : x = f.at
      BY <1>6
    <3>2. x + e - 1 <= y
      BY <2>3, <3>1
    <3>3. SubSeq(SubSeq(text, x, y), p, e) = SubSeq(text, x + p - 1, x + e - 1)
      BY <1>4, <1>12, <2>3, <3>2, PartOfPart
    <3>4. QED BY <3>1, <3>3, Zenon
  <2>5. c = SubSeq(text, f.at, y)
    BY <1>7, <2>1 DEF Part
  <2>6. w.at + w.len - 1 = f.at + e - 1
    <3>1. PICK x \in Nat \ {0} : x = f.at
      BY <1>6
    <3>2. w.at = x + p - 1 /\ w.len = e - p + 1
      BY ONLY <1>17, <3>1
    <3>3. (x + p - 1) + (e - p + 1) - 1 = x + e - 1
      BY ONLY <1>12, <3>1, p \in Nat \ {0}
    <3>4. QED BY ONLY <3>1, <3>2, <3>3
  <2>7. Part(w) = SubSeq(text, f.at + p - 1, f.at + e - 1)
    BY <1>17, <2>6 DEF Part
  <2>8. QED BY <1>13, <2>4, <2>5, <2>7
<1>20. WordSound(w)
  <2>1. w.len > 0
    BY <1>12, <1>17
  <2>2. frags[frag].at <= w.at /\ EndOf(w) <= EndOf(frags[frag])
    <3>1. PICK x \in Nat \ {0} : x = f.at
      BY <1>6
    <3>2. PICK y \in Nat : y = f.len
      BY <1>6
    <3>3. w.at = x + p - 1 /\ EndOf(w) = x + e /\ EndOf(f) = x + y
      BY ONLY <1>17, <3>1, <3>2 DEF EndOf
    <3>4. e \in p..y
      BY ONLY <1>12, <3>2
    <3>5. x <= x + p - 1 /\ x + e <= x + y
      BY ONLY <3>1, <3>2, <3>4, p \in Nat \ {0}
    <3>6. QED BY ONLY <1>5, <3>1, <3>3, <3>5
  <2>3. w.at - f.at + 1 = p /\ w.at - f.at + 1 + w.len = e + 1
    <3>1. PICK x \in Nat \ {0} : x = f.at
      BY <1>6
    <3>2. (x + p - 1) - x + 1 = p /\ (x + p - 1) - x + 1 + (e - p + 1) = e + 1
      BY <1>12
    <3>3. QED BY <1>17, <3>1, <3>2, Zenon
  <2>4. Match(Part(f), w.at - f.at + 1, {"punct"}) = w.at - f.at + 1 + w.len
    BY <1>7, <1>11, <1>12, <2>3
  <2>5. frag \in 1..Len(frags) /\ frags[frag].id = 0
    BY <1>2, <1>3, <1>4
  <2>6. QED BY <1>5, <1>17, <1>19, <2>1, <2>2, <2>4, <2>5 DEF WordSound
<1>21. words \in Seq(Word)
  BY <1>2 DEF TkTypes
<1>22. words' \in Seq(Word)
  BY <1>16, <1>18, <1>21, OneMore
<1>23. TkTypes'
  BY <1>2, <1>12, <1>22 DEF TkTypes
<1>24. Cut' /\ Tiles(frags)' /\ Searched'
  BY <1>2, CutStays DEF Searched
<1>25. (\A i \in 1..Len(words) : WordSound(words[i]))'
  <2>1. \A i \in 1..Len(words) : WordSound(words[i])
    BY <1>2 DEF Scanned
  <2>2. QED BY <1>2, <1>16, <1>18, <1>20, <1>21, <2>1, WordsGrow
<1>26. Pos = w.at /\ Pos' = EndOf(w)
  <2>1. Pos = f.at + cursor
    BY <1>2, <1>5 DEF Pos
  <2>2. Pos' = f.at + e
    BY <1>2, <1>5 DEF Pos
  <2>3. QED BY <1>6, <1>12, <1>17, <2>1, <2>2
<1>27. TilesTo(words, Pos)'
  <2>1. TilesTo(words, w.at)
    BY <1>2, <1>26 DEF Scanned
  <2>2. TilesTo(words', EndOf(w))
    BY <1>16, <1>18, <1>21, <2>1, TilesOneMore
  <2>3. QED BY <1>26, <2>2 DEF TilesTo, EndOf
<1>28. Scanned'
  <2>1. cursor' <= frags'[frag'].len
    BY <1>2, <1>5, <1>12
  <2>2. special' = Len(vocab') + 1
    BY <1>2 DEF Scanned
  <2>3. QED BY <1>2, <1>25, <1>27, <2>1, <2>2 DEF Scanned
<1>29. QED BY <1>23, <1>24, <1>28 DEF TkInv

\* What a part of a fragment has no room for, or the fragment did not have.
LEMMA AbsentWithin ==
  ASSUME NEW f, NEW h, NEW v, f.at \in Nat, h.at \in Nat, EndOf(f) \in Nat, EndOf(h) \in Nat,
         Len(vocab[v].text) \in Nat, f.at <= h.at, EndOf(h) <= EndOf(f), Absent(f, v)
  PROVE  Absent(h, v)
<1> DEFINE l == Len(vocab[v].text)
<1>1. SUFFICES ASSUME NEW a \in h.at..(EndOf(h) - l)
               PROVE  SubSeq(text, a, a + l - 1) # vocab[v].text
  BY DEF Absent
<1>2. l \in Nat
  OBVIOUS
<1>3. \A b \in f.at..(EndOf(f) - l) : SubSeq(text, b, b + l - 1) # vocab[v].text
  BY DEF Absent
<1> HIDE DEF l
<1>4. a \in f.at..(EndOf(f) - l)
  BY <1>1, <1>2
<1>5. QED BY <1>3, <1>4

\* The fragment in work, and what is left of it.
LEMMA InWork ==
  ASSUME TkInv, Cutting
  PROVE  /\ special \in 1..Len(vocab) /\ frag \in 1..Len(frags)
         /\ frags[frag] \in Piece /\ frags[frag].at \in Nat \ {0} /\ frags[frag].len \in Nat
         /\ cursor \in 0..frags[frag].len /\ Len(Current.text) \in Nat
         /\ Rest.at = frags[frag].at + cursor /\ Rest.len = frags[frag].len - cursor
         /\ Rest.at \in Nat \ {0} /\ Rest.len \in Nat /\ EndOf(Rest) = EndOf(frags[frag])
         /\ EndOf(frags[frag]) \in Nat /\ Pos = Rest.at
         /\ nextFrags \in Seq(Piece) /\ TilesTo(nextFrags, Pos)
         /\ \A i \in 1..Len(nextFrags) : Good(nextFrags[i], special + 1)
<1>1. TkTypes /\ Searched /\ tkAt = "partition" /\ special <= Len(vocab) /\ frag <= Len(frags)
  BY DEF TkInv, Cutting
<1>2. special \in 1..Len(vocab) /\ frag \in 1..Len(frags)
  <2>1. Len(vocab) \in Nat /\ special \in Nat \ {0} /\ frag \in Nat \ {0} /\ Len(frags) \in Nat
    BY <1>1, Listing
  <2>2. QED BY <1>1, <2>1
<1>3. PICK f \in Piece : f = frags[frag]
  BY <1>1, <1>2, Listing
<1>4. f.at \in Nat \ {0} /\ f.len \in Nat
  BY DEF Piece
<1>5. cursor \in 0..f.len
  <2>1. cursor \in Nat /\ (cursor > 0 => cursor <= f.len)
    BY <1>1, <1>3 DEF TkTypes, Searched
  <2>2. QED BY <1>4, <2>1
<1>6. Len(Current.text) \in Nat
  BY <1>1, <1>2, Listing DEF Current
<1>7. Rest.at = f.at + cursor /\ Rest.len = f.len - cursor
  BY <1>3 DEF Rest, Piece
<1>8. /\ f.at + cursor \in Nat \ {0} /\ f.len - cursor \in Nat
      /\ (f.at + cursor) + (f.len - cursor) = f.at + f.len /\ f.at + f.len \in Nat
  BY <1>4, <1>5
<1>9. Pos = f.at + cursor
  BY <1>1, <1>3 DEF Pos
<1>10. EndOf(Rest) = EndOf(f) /\ EndOf(f) \in Nat
  BY <1>7, <1>8, Zenon DEF EndOf
<1>11. /\ nextFrags \in Seq(Piece) /\ TilesTo(nextFrags, Pos)
       /\ \A i \in 1..Len(nextFrags) : Good(nextFrags[i], special + 1)
  BY <1>1 DEF TkTypes, Searched
<1>12. QED BY <1>2, <1>3, <1>4, <1>5, <1>6, <1>7, <1>8, <1>9, <1>10, <1>11

\* One more fragment behind those of the next list, where it ends.
LEMMA PiecesGrow ==
  ASSUME NEW fs \in Seq(Piece), NEW p, TilesTo(fs, p), NEW s, \A i \in 1..Len(fs) : Good(fs[i], s),
         NEW w \in Piece, w.at = p, Good(w, s), NEW r, r = Append(fs, w)
  PROVE  /\ r \in Seq(Piece) /\ r # <<>> /\ TilesTo(r, EndOf(w))
         /\ \A i \in 1..Len(r) : Good(r[i], s)
<1>1. PICK q \in Nat : q = Len(fs)
  OBVIOUS
<1>2. /\ r \in Seq(Piece) /\ r # <<>> /\ Len(r) = q + 1 /\ r[q + 1] = w
      /\ \A i \in 1..q : r[i] = fs[i]
  BY <1>1, OneMore
<1>3. TilesTo(r, EndOf(w))
  BY TilesOneMore
<1>4. ASSUME NEW i \in 1..Len(r) PROVE Good(r[i], s)
  <2>1. CASE i = q + 1
    BY <1>2, <2>1
  <2>2. CASE i # q + 1
    <3>1. i \in 1..q
      BY <1>2, <2>2
    <3>2. QED BY <1>1, <1>2, <3>1
  <2>3. QED BY <2>1, <2>2
<1>5. QED BY <1>2, <1>3, <1>4

\* Raw text behind them, if there is any.
LEMMA RawGrows ==
  ASSUME NEW fs \in Seq(Piece), NEW p \in Nat \ {0}, TilesTo(fs, p), NEW s,
         \A i \in 1..Len(fs) : Good(fs[i], s),
         NEW l \in Nat, \A v \in 1..Len(vocab) :
           Counts(v) /\ v < s => Absent([id |-> 0, at |-> p, len |-> l], v),
         NEW r, r = fs \o Raw(p, l)
  PROVE  /\ r \in Seq(Piece) /\ TilesTo(r, p + l) /\ (fs # <<>> => r # <<>>)
         /\ \A i \in 1..Len(r) : Good(r[i], s)
<1>1. CASE l = 0
  <2>1. Raw(p, l) = <<>>
    BY <1>1 DEF Raw
  <2>2. r = fs
    BY <2>1
  <2>3. p + l = p
    BY <1>1
  <2>4. QED BY <2>2, <2>3
<1>2. CASE l # 0
  <2>1. PICK w : w = [id |-> 0, at |-> p, len |-> l]
    OBVIOUS
  <2>2. w \in Piece /\ w.at = p /\ w.id = 0 /\ EndOf(w) = p + l
    BY <2>1 DEF Piece, EndOf
  <2>3. Good(w, s)
    BY <2>1, <2>2 DEF Good
  <2>4. r = Append(fs, w)
    <3>1. r = fs \o <<w>>
      BY <1>2, <2>1 DEF Raw
    <3>2. fs \o <<w>> = Append(fs, w)
      BY <2>2
    <3>3. QED BY <3>1, <3>2
  <2>5. /\ r \in Seq(Piece) /\ r # <<>> /\ TilesTo(r, EndOf(w))
        /\ \A i \in 1..Len(r) : Good(r[i], s)
    BY <2>2, <2>3, <2>4, PiecesGrow
  <2>6. QED BY <2>2, <2>5
<1>3. QED BY <1>1, <1>2

\* Whatever the next list is given, while its fragments are sound and go as far as
\* the fragment in work was searched.
LEMMA StillCutting ==
  ASSUME TkInv, Cutting, UNCHANGED <<tkAt, text, vocab, parse, special, frags, words>>,
         nextFrags' \in Seq(Piece), nextFrags' # <<>>,
         frag' \in 1..(Len(frags) + 1), cursor' \in Nat,
         cursor' > 0 => frag' <= Len(frags) /\ frags[frag'].id = 0 /\ cursor' <= frags[frag'].len,
         TilesTo(nextFrags', IF frag' <= Len(frags) THEN frags[frag'].at + cursor' ELSE Len(text) + 1),
         \A i \in 1..Len(nextFrags') : Good(nextFrags'[i], special + 1)
  PROVE  TkInv'
<1>1. /\ TkTypes /\ Tiles(frags) /\ Cut /\ Searched /\ Scanned
      /\ tkAt = "partition" /\ special <= Len(vocab) /\ ~Skipped
  BY DEF TkInv, Cutting
<1>2. TkTypes'
  BY <1>1 DEF TkTypes
<1>3. Cut' /\ Tiles(frags)'
  BY <1>1, CutStays
<1>4. Scanned'
  BY <1>1, WordsStay DEF Scanned
<1>5. Searched'
  <2>1. words' = <<>>
    BY <1>1 DEF Searched
  <2>2. TilesTo(nextFrags, Pos)'
    BY DEF TilesTo, Pos, EndOf
  <2>3. (\A i \in 1..Len(nextFrags) : Good(nextFrags[i], special + 1))'
    BY DEF Good, Part, Counts, Absent, EndOf
  <2>4. special' <= Len(vocab') /\ ~Skipped'
    BY <1>1 DEF Skipped, Listed, Current
  <2>5. QED BY <2>1, <2>2, <2>3, <2>4 DEF Searched
<1>6. QED BY <1>2, <1>3, <1>4, <1>5 DEF TkInv

\* Where the token was not found it is absent.
LEMMA NotFound ==
  ASSUME NEW f, f.at \in Nat, f.len \in Nat, Len(Current.text) \in Nat, Found(f) = {}, Counts(special)
  PROVE  Absent(f, special)
<1>1. PICK t : t = Current.text
  OBVIOUS
<1>2. t = vocab[special].text /\ t # <<>>
  BY <1>1 DEF Counts, Current
<1>3. PICK x \in Nat : x = f.at
  OBVIOUS
<1>4. PICK y \in Nat : y = f.len
  OBVIOUS
<1>5. PICK l \in Nat : l = Len(t)
  BY <1>1
<1>6. \A a \in x..(x + y - l) : SubSeq(text, a, a + l - 1) # t
  BY <1>1, <1>2, <1>3, <1>4, <1>5 DEF Found, OccursAt
<1>7. EndOf(f) = x + y /\ x + y - l = (x + y) - l
  BY <1>3, <1>4 DEF EndOf
<1>8. QED BY <1>2, <1>3, <1>5, <1>6, <1>7 DEF Absent

\* The first occurrence, and what is left of it.
LEMMA FirstFound ==
  ASSUME NEW f, f.at \in Nat \ {0}, f.len \in Nat, NEW l \in Nat, l = Len(Current.text),
         Current.text \in Seq(Codepoint), Found(f) # {}, NEW m, m = Min(Found(f))
  PROVE  /\ m \in Nat \ {0} /\ l > 0 /\ f.at <= m /\ m + l <= f.at + f.len
         /\ SubSeq(text, m, m + l - 1) = Current.text
         /\ \A a \in f.at..(f.at + f.len - l) : SubSeq(text, a, a + l - 1) = Current.text => m <= a
<1>1. PICK t \in Seq(Codepoint) : t = Current.text
  OBVIOUS
<1>2. PICK x \in Nat \ {0} : x = f.at
  OBVIOUS
<1>3. PICK y \in Nat : y = f.len
  OBVIOUS
<1>4. PICK F : F = Found(f)
  OBVIOUS
<1>5. F = {i \in x..(x + y - l) : t # <<>> /\ SubSeq(text, i, i + l - 1) = t}
  <2>1. F = {i \in f.at..(f.at + f.len - Len(Current.text)) :
               Current.text # <<>> /\ SubSeq(text, i, i + Len(Current.text) - 1) = Current.text}
    BY <1>4 DEF Found, OccursAt
  <2>2. Current.text = t /\ Len(Current.text) = l /\ f.at = x /\ f.len = y
    BY <1>1, <1>2, <1>3
  <2>3. QED BY ONLY <2>1, <2>2
<1>6. F \in SUBSET Nat /\ F # {}
  <2>1. \A i \in F : i \in x..(x + y - l)
    BY ONLY <1>5
  <2>2. \A i \in x..(x + y - l) : i \in Nat
    BY ONLY <1>2
  <2>3. QED BY <1>4, <2>1, <2>2
<1>7. m \in F /\ \A a \in F : m <= a
  BY <1>4, <1>6, MinIs
<1>8. m \in x..(x + y - l) /\ t # <<>> /\ SubSeq(text, m, m + l - 1) = t
  BY ONLY <1>5, <1>7
<1>9. \A a \in x..(x + y - l) : SubSeq(text, a, a + l - 1) = t => m <= a
  BY ONLY <1>5, <1>7, <1>8
<1>10. l > 0
  <2>1. l = Len(t)
    BY <1>1
  <2>2. QED BY <1>8, <2>1, EmptySeq
<1>11. m \in Nat \ {0} /\ x <= m /\ m + l <= x + y
  <2>1. m \in x..(x + y - l)
    BY <1>8
  <2>2. QED BY ONLY <2>1, x \in Nat \ {0}, y \in Nat, l \in Nat
<1>12. f.at <= m /\ m + l <= f.at + f.len
  BY ONLY <1>2, <1>3, <1>11
<1>13. \A a \in f.at..(f.at + f.len - l) : SubSeq(text, a, a + l - 1) = Current.text => m <= a
  BY ONLY <1>1, <1>2, <1>3, <1>9
<1>14. QED BY <1>1, <1>8, <1>10, <1>11, <1>12, <1>13

\* A fragment goes to the next list as it is: it has a token already, or what is
\* looked for is not in it.
LEMMA KeepsKeepFragment == TkInv /\ KeepFragment => TkInv'
<1> SUFFICES ASSUME TkInv, KeepFragment PROVE TkInv'
  OBVIOUS
<1>1. PICK f : f = frags[frag]
  OBVIOUS
<1>2. /\ Cutting /\ cursor = 0 /\ (f.id # 0 \/ Found(Rest) = {})
      /\ nextFrags' = Append(nextFrags, f) /\ frag' = frag + 1
      /\ UNCHANGED <<tkAt, text, vocab, parse, special, frags, cursor, words>>
  BY <1>1 DEF KeepFragment
<1>3. /\ special \in 1..Len(vocab) /\ frag \in 1..Len(frags)
      /\ f \in Piece /\ f.at \in Nat \ {0} /\ f.len \in Nat /\ Len(Current.text) \in Nat
      /\ Rest.at = f.at + cursor /\ Rest.len = f.len - cursor /\ Pos = Rest.at
      /\ nextFrags \in Seq(Piece) /\ TilesTo(nextFrags, Pos)
      /\ \A i \in 1..Len(nextFrags) : Good(nextFrags[i], special + 1)
  BY <1>1, <1>2, InWork
<1>4. Rest.at = f.at /\ Rest.len = f.len
  BY <1>2, <1>3
<1>5. Good(f, special)
  BY <1>1, <1>3 DEF TkInv, Cut
<1>6. Good(f, special + 1)
  <2>1. ASSUME f.id = 0, NEW v \in 1..Len(vocab), Counts(v), v < special + 1 PROVE Absent(f, v)
    <3>1. CASE v < special
      BY <1>5, <2>1, <3>1 DEF Good
    <3>2. CASE v = special
      <4>1. Absent(Rest, special)
        BY <1>2, <1>3, <1>4, <2>1, <3>2, NotFound
      <4>2. QED BY <1>4, <3>2, <4>1 DEF Absent, EndOf
    <3>3. QED BY <1>3, <2>1, <3>1, <3>2
  <2>2. QED BY <1>5, <2>1 DEF Good
<1>7. /\ nextFrags' \in Seq(Piece) /\ nextFrags' # <<>> /\ TilesTo(nextFrags', EndOf(f))
      /\ \A i \in 1..Len(nextFrags') : Good(nextFrags'[i], special + 1)
  BY <1>2, <1>3, <1>4, <1>6, PiecesGrow
<1>8. EndOf(f) = IF frag' <= Len(frags) THEN frags[frag'].at + cursor' ELSE Len(text) + 1
  <2>1. TkTypes /\ Tiles(frags) /\ frag <= Len(frags)
    BY <1>2 DEF TkInv, Cutting
  <2>2. frag' = frag + 1 /\ cursor' = 0
    BY <1>2
  <2>3. QED BY <1>1, <2>1, <2>2, NextPos
<1>9. frag' \in 1..(Len(frags) + 1) /\ cursor' \in Nat /\ ~(cursor' > 0)
  BY <1>2, <1>3
<1>10. QED BY <1>2, <1>7, <1>8, <1>9, StillCutting

\* The rest of a fragment goes to the next list as it is.
LEMMA KeepsKeepRest == TkInv /\ KeepRest => TkInv'
<1> SUFFICES ASSUME TkInv, KeepRest PROVE TkInv'
  OBVIOUS
<1>1. PICK f : f = frags[frag]
  OBVIOUS
<1>2. /\ Cutting /\ cursor > 0 /\ Found(Rest) = {}
      /\ nextFrags' = nextFrags \o Raw(Rest.at, Rest.len) /\ frag' = frag + 1 /\ cursor' = 0
      /\ UNCHANGED <<tkAt, text, vocab, parse, special, frags, words>>
  BY DEF KeepRest
<1>3. /\ special \in 1..Len(vocab) /\ frag \in 1..Len(frags)
      /\ f.at \in Nat \ {0} /\ f.len \in Nat /\ cursor \in 0..f.len /\ Len(Current.text) \in Nat
      /\ Rest.at = f.at + cursor /\ Rest.at \in Nat \ {0} /\ Rest.len \in Nat
      /\ EndOf(Rest) = EndOf(f) /\ EndOf(f) \in Nat /\ Pos = Rest.at
      /\ nextFrags \in Seq(Piece) /\ TilesTo(nextFrags, Pos)
      /\ \A i \in 1..Len(nextFrags) : Good(nextFrags[i], special + 1)
  BY <1>1, <1>2, InWork
<1>4. f.id = 0 /\ nextFrags # <<>>
  <2>1. tkAt = "partition" /\ Searched
    BY <1>2 DEF TkInv, Cutting
  <2>2. QED BY <1>1, <1>2, <2>1 DEF Searched, Fresh
<1>5. PICK h : h = [id |-> 0, at |-> Rest.at, len |-> Rest.len]
  OBVIOUS
<1>6. h.at = Rest.at /\ h.len = Rest.len /\ EndOf(h) = EndOf(Rest)
  BY <1>5 DEF EndOf
<1>7. ASSUME NEW v \in 1..Len(vocab), Counts(v), v < special + 1 PROVE Absent(h, v)
  <2>1. CASE v < special
    <3>1. Absent(f, v)
      BY <1>1, <1>3, <1>4, <1>7, <2>1 DEF TkInv, Cut, Good
    <3>2. Len(vocab[v].text) \in Nat
      BY Listing DEF TkInv
    <3>3. f.at <= h.at
      BY <1>3, <1>6
    <3>4. EndOf(h) \in Nat /\ EndOf(h) <= EndOf(f) /\ h.at \in Nat
      BY <1>3, <1>6
    <3>5. QED BY <1>3, <3>1, <3>2, <3>3, <3>4, AbsentWithin
  <2>2. CASE v = special
    <3>1. Absent(Rest, special)
      BY <1>2, <1>3, <1>7, <2>2, NotFound
    <3>2. QED BY <1>6, <2>2, <3>1 DEF Absent
  <2>3. QED BY <1>3, <1>7, <2>1, <2>2
<1>8. /\ nextFrags' \in Seq(Piece) /\ TilesTo(nextFrags', Rest.at + Rest.len) /\ nextFrags' # <<>>
      /\ \A i \in 1..Len(nextFrags') : Good(nextFrags'[i], special + 1)
  <2>1. PICK p \in Nat \ {0} : p = Rest.at
    BY <1>3
  <2>2. PICK l \in Nat : l = Rest.len
    BY <1>3
  <2>3. TilesTo(nextFrags, p) /\ nextFrags \in Seq(Piece)
    BY <1>3, <2>1
  <2>4. \A v \in 1..Len(vocab) : Counts(v) /\ v < special + 1 => Absent([id |-> 0, at |-> p, len |-> l], v)
    BY <1>5, <1>7, <2>1, <2>2
  <2>5. nextFrags' = nextFrags \o Raw(p, l)
    BY <1>2, <2>1, <2>2
  <2>6. /\ nextFrags' \in Seq(Piece) /\ TilesTo(nextFrags', p + l) /\ (nextFrags # <<>> => nextFrags' # <<>>)
        /\ \A i \in 1..Len(nextFrags') : Good(nextFrags'[i], special + 1)
    BY <1>3, <2>3, <2>4, <2>5, RawGrows
  <2>7. QED BY <1>4, <2>1, <2>2, <2>6
<1>9. Rest.at + Rest.len = IF frag' <= Len(frags) THEN frags[frag'].at + cursor' ELSE Len(text) + 1
  <2>1. TkTypes /\ Tiles(frags) /\ frag <= Len(frags)
    BY <1>2 DEF TkInv, Cutting
  <2>2. frag' = frag + 1 /\ cursor' = 0
    BY <1>2
  <2>3. Rest.at + Rest.len = EndOf(frags[frag])
    BY <1>1, <1>3 DEF EndOf
  <2>4. QED BY <2>1, <2>2, <2>3, NextPos
<1>10. frag' \in 1..(Len(frags) + 1) /\ cursor' \in Nat /\ ~(cursor' > 0)
  BY <1>2, <1>3
<1>11. QED BY <1>2, <1>8, <1>9, <1>10, StillCutting

\* The first occurrence is cut out; before it there is none.
LEMMA KeepsCutToken == TkInv /\ CutToken => TkInv'
<1> SUFFICES ASSUME TkInv, CutToken PROVE TkInv'
  OBVIOUS
<1>1. PICK f : f = frags[frag]
  OBVIOUS
<1>2. PICK m : m = Min(Found(Rest))
  OBVIOUS
<1>3. PICK l : l = Len(Current.text)
  OBVIOUS
<1>4. PICK w : w = [id |-> special, at |-> m, len |-> l]
  OBVIOUS
<1>5. /\ Cutting /\ f.id = 0 /\ Found(Rest) # {}
      /\ nextFrags' = (nextFrags \o Raw(Rest.at, m - Rest.at)) \o <<w>>
      /\ cursor' = m + l - f.at
      /\ UNCHANGED <<tkAt, text, vocab, parse, special, frags, frag, words>>
  BY <1>1, <1>2, <1>3, <1>4 DEF CutToken
<1>6. /\ special \in 1..Len(vocab) /\ frag \in 1..Len(frags)
      /\ f.at \in Nat \ {0} /\ f.len \in Nat /\ cursor \in 0..f.len /\ l \in Nat
      /\ Rest.at = f.at + cursor /\ Rest.at \in Nat \ {0} /\ Rest.len \in Nat
      /\ EndOf(Rest) = EndOf(f) /\ EndOf(f) \in Nat /\ Pos = Rest.at
      /\ nextFrags \in Seq(Piece) /\ TilesTo(nextFrags, Pos)
      /\ \A i \in 1..Len(nextFrags) : Good(nextFrags[i], special + 1)
  BY <1>1, <1>3, <1>5, InWork
<1>7. Current.text \in Seq(Codepoint)
  BY <1>6, Listing DEF TkInv, Current
<1>8. PICK x \in Nat \ {0} : x = Rest.at
  BY <1>6
<1>9. PICK y \in Nat : y = EndOf(f)
  BY <1>6
<1>10. /\ m \in Nat \ {0} /\ l > 0 /\ x <= m /\ m + l <= y
       /\ SubSeq(text, m, m + l - 1) = Current.text
       /\ \A a \in x..(y - l) : SubSeq(text, a, a + l - 1) = Current.text => m <= a
  <2>1. /\ m \in Nat \ {0} /\ l > 0 /\ Rest.at <= m /\ m + l <= Rest.at + Rest.len
        /\ SubSeq(text, m, m + l - 1) = Current.text
        /\ \A a \in Rest.at..(Rest.at + Rest.len - l) : SubSeq(text, a, a + l - 1) = Current.text => m <= a
    BY <1>2, <1>3, <1>5, <1>6, <1>7, FirstFound
  <2>2. y = Rest.at + Rest.len
    BY <1>6, <1>9 DEF EndOf
  <2>3. x <= m /\ m + l <= y /\ x..(y - l) = Rest.at..(Rest.at + Rest.len - l)
    <3>1. PICK z \in Nat : z = Rest.len
      BY <1>6
    <3>2. y = x + z /\ x <= m /\ m + l <= x + z /\ Rest.at = x
      BY ONLY <1>8, <2>1, <2>2, <3>1
    <3>3. x + (z - l) = (x + z) - l
      <4>1. l \in Nat
        BY <1>6
      <4>2. QED BY ONLY <4>1, x \in Nat \ {0}, z \in Nat
    <3>4. x..(y - l) = Rest.at..(Rest.at + Rest.len - l)
      BY ONLY <3>1, <3>2, <3>3, Zenon
    <3>5. m + l <= y
      <4>1. y = x + z /\ m + l <= x + z
        BY ONLY <3>2, Zenon
      <4>2. QED BY ONLY <4>1, Zenon
    <3>6. QED BY ONLY <3>2, <3>4, <3>5
  <2>4. QED BY ONLY <2>1, <2>3
<1>11. PICK h : h = [id |-> 0, at |-> x, len |-> m - x]
  OBVIOUS
<1>12. h.at = x /\ h.len = m - x /\ EndOf(h) = m /\ m - x \in Nat /\ x + (m - x) = m
  BY <1>10, <1>11 DEF EndOf
<1>13. ASSUME NEW v \in 1..Len(vocab), Counts(v), v < special + 1 PROVE Absent(h, v)
  <2>1. CASE v < special
    <3>1. Absent(f, v)
      BY <1>1, <1>5, <1>6, <1>13, <2>1 DEF TkInv, Cut, Good
    <3>2. Len(vocab[v].text) \in Nat
      BY Listing DEF TkInv
    <3>3. f.at <= h.at /\ h.at \in Nat
      <4>1. PICK z \in Nat : z = f.at
        BY <1>6
      <4>2. h.at = z + cursor /\ cursor \in Nat
        BY <1>6, <1>8, <1>12, <4>1
      <4>3. QED BY ONLY <4>1, <4>2
    <3>4. EndOf(h) \in Nat /\ EndOf(h) <= EndOf(f)
      <4>1. l \in Nat
        BY <1>6
      <4>2. QED BY ONLY <1>9, <1>10, <1>12, <4>1
    <3>5. QED BY <1>6, <3>1, <3>2, <3>3, <3>4, AbsentWithin
  <2>2. CASE v = special
    <3>1. SUFFICES ASSUME NEW a \in x..(m - l) PROVE SubSeq(text, a, a + l - 1) # Current.text
      BY <1>3, <1>12, <2>2 DEF Absent, Current
    <3>2. a \in x..(y - l) /\ ~(m <= a)
      <4>1. l \in Nat /\ l > 0 /\ x \in Nat /\ y \in Nat /\ m \in Nat /\ m + l <= y
        BY <1>6, <1>8, <1>9, <1>10
      <4>2. a \in x..(m - l)
        BY <3>1
      <4>3. QED BY ONLY <4>1, <4>2
    <3>3. QED BY <1>10, <3>2
  <2>3. QED BY <1>6, <1>13, <2>1, <2>2
<1>14. PICK g : g = nextFrags \o Raw(x, m - x)
  OBVIOUS
<1>15. g \in Seq(Piece) /\ TilesTo(g, m) /\ \A i \in 1..Len(g) : Good(g[i], special + 1)
  <2>1. TilesTo(g, x + (m - x)) /\ g \in Seq(Piece) /\ \A i \in 1..Len(g) : Good(g[i], special + 1)
    BY <1>6, <1>8, <1>11, <1>12, <1>13, <1>14, RawGrows
  <2>2. QED BY <1>12, <2>1
<1>16. w \in Piece /\ w.at = m /\ w.id = special /\ w.len = l /\ EndOf(w) = m + l
  BY <1>4, <1>6, <1>10 DEF Piece, EndOf
<1>17. Good(w, special + 1)
  <2>1. parse \/ vocab[special].type = 4
    BY <1>5 DEF Cutting, Skipped, Listed, Current
  <2>2. Part(w) = vocab[special].text
    BY <1>10, <1>16 DEF Part, Current
  <2>3. QED BY <1>6, <1>16, <2>1, <2>2 DEF Good
<1>18. nextFrags' = Append(g, w)
  <2>1. nextFrags' = g \o <<w>>
    BY <1>5, <1>8, <1>14
  <2>2. g \o <<w>> = Append(g, w)
    BY <1>15, <1>16
  <2>3. QED BY <2>1, <2>2
<1>19. /\ nextFrags' \in Seq(Piece) /\ nextFrags' # <<>> /\ TilesTo(nextFrags', m + l)
       /\ \A i \in 1..Len(nextFrags') : Good(nextFrags'[i], special + 1)
  BY <1>15, <1>16, <1>17, <1>18, PiecesGrow
<1>20. cursor' \in Nat /\ cursor' <= f.len /\ f.at + cursor' = m + l
  <2>1. y = f.at + f.len
    BY <1>9 DEF EndOf
  <2>2. PICK z \in Nat : z = f.at
    BY <1>6
  <2>3. PICK o \in Nat : o = f.len
    BY <1>6
  <2>4. x = z + cursor /\ cursor \in Nat /\ y = z + o /\ cursor' = m + l - z
    BY <1>5, <1>6, <1>8, <2>1, <2>2, <2>3
  <2>5. l \in Nat /\ m \in Nat /\ x <= m /\ m + l <= y
    BY <1>6, <1>10
  <2>6. m + l - z \in Nat /\ m + l - z <= o /\ z + (m + l - z) = m + l
    BY ONLY <2>2, <2>3, <2>4, <2>5
  <2>7. QED BY ONLY <2>2, <2>3, <2>4, <2>6
<1>21. frag' <= Len(frags) /\ frags[frag'] = f /\ frag' \in 1..(Len(frags) + 1)
  BY <1>1, <1>5, <1>6
<1>22. TilesTo(nextFrags', IF frag' <= Len(frags) THEN frags[frag'].at + cursor' ELSE Len(text) + 1)
  BY <1>19, <1>20, <1>21
<1>23. QED BY <1>5, <1>19, <1>20, <1>21, <1>22, StillCutting

\* The invariant is inductive.
LEMMA TkKeeps == TkInv /\ [TkNext]_tkVars => TkInv'
<1> SUFFICES ASSUME TkInv, [TkNext]_tkVars PROVE TkInv'
  OBVIOUS
<1>1. CASE SkipSpecial
  BY <1>1, KeepsSkipSpecial
<1>2. CASE KeepFragment
  BY <1>2, KeepsKeepFragment
<1>11. CASE CutToken
  BY <1>11, KeepsCutToken
<1>12. CASE KeepRest
  BY <1>12, KeepsKeepRest
<1>3. CASE NextSpecial
  BY <1>3, KeepsNextSpecial
<1>4. CASE Partitioned
  BY <1>4, KeepsPartitioned
<1>5. CASE ScanWord
  BY <1>5, KeepsScanWord
<1>6. CASE EmitSpecial
  BY <1>6, KeepsEmitSpecial
<1>7. CASE NextFrag
  BY <1>7, KeepsNextFrag
<1>8. CASE EndEncode
  BY <1>8, KeepsEndEncode
<1>9. CASE UNCHANGED tkVars
  <2>1. /\ TkTypes /\ Tiles(frags) /\ Cut /\ Searched /\ Scanned
        /\ UNCHANGED <<tkAt, text, vocab, parse, special, frags, nextFrags, frag, cursor, words>>
    BY <1>9 DEF TkInv, tkVars
  <2>2. TkTypes'
    BY <2>1 DEF TkTypes
  <2>3. Cut' /\ Tiles(frags)'
    BY <2>1, CutStays
  <2>4. (\A i \in 1..Len(words) : WordSound(words[i]))'
    BY <2>1, WordsStay DEF Scanned
  <2>5. TilesTo(words, Pos) => TilesTo(words, Pos)'
    BY <2>1 DEF TilesTo, Pos, EndOf
  <2>6. Scanned'
    BY <2>1, <2>4, <2>5 DEF Scanned
  <2>7. Searched'
    BY <2>1 DEF Searched, Fresh, Pos, TilesTo, EndOf, Good, Part, Counts, Absent, Skipped, Listed, Current
  <2>8. QED BY <2>2, <2>3, <2>6, <2>7 DEF TkInv
<1>10. QED
  BY <1>1, <1>2, <1>3, <1>4, <1>5, <1>6, <1>7, <1>8, <1>9, <1>11, <1>12 DEF TkNext

\* The fragments that the invariant speaks of, in the order of the text.
LEMMA FragsAre ==
  ASSUME TkInv
  PROVE  /\ text \in Seq(Codepoint) /\ Len(text) \in Nat /\ DOMAIN frags = 1..Len(frags)
         /\ \A i \in 1..Len(frags) :
              /\ frags[i].at \in Nat \ {0} /\ frags[i].len \in Nat
              /\ EndOf(frags[i]) \in Nat /\ EndOf(frags[i]) <= Len(text) + 1
              /\ Part(frags[i]) \in Seq(Codepoint) /\ Len(Part(frags[i])) = frags[i].len
              /\ DOMAIN Part(frags[i]) = 1..frags[i].len
         /\ \A j \in 1..Len(frags) : \A i \in 1..(j - 1) : EndOf(frags[i]) <= frags[j].at
<1>1. text \in Seq(Codepoint) /\ frags \in Seq(Piece) /\ frags # <<>> /\ Tiles(frags)
  BY DEF TkInv, TkTypes
<1>2. /\ \A i \in 1..Len(frags) : /\ frags[i].at \in Nat \ {0} /\ frags[i].len \in Nat
                                  /\ frags[i].at <= EndOf(frags[i]) /\ EndOf(frags[i]) <= Len(text) + 1
      /\ \A j \in 1..Len(frags) : \A i \in 1..(j - 1) : EndOf(frags[i]) <= frags[j].at
  BY <1>1, TilesBound
<1>3. \A i \in 1..Len(frags) : Part(frags[i]) \in Seq(Codepoint) /\ Len(Part(frags[i])) = frags[i].len
  BY <1>1, <1>2, PartIs
<1>4. \A i \in 1..Len(frags) : DOMAIN Part(frags[i]) = 1..frags[i].len
  BY <1>3
<1>5. \A i \in 1..Len(frags) : EndOf(frags[i]) \in Nat
  BY <1>2 DEF EndOf
<1>6. Len(text) \in Nat /\ DOMAIN frags = 1..Len(frags)
  BY <1>1
<1>7. QED BY <1>1, <1>2, <1>3, <1>4, <1>5, <1>6

\* And the words.
LEMMA WordsAre ==
  ASSUME TkInv, NEW i \in DOMAIN words
  PROVE  /\ words[i] \in Word /\ words[i].at \in Nat \ {0} /\ words[i].len \in Nat
         /\ WordSound(words[i])
<1>1. words \in Seq(Word)
  BY DEF TkInv, TkTypes
<1>2. i \in 1..Len(words) /\ words[i] \in Word
  BY <1>1
<1>3. words[i].at \in Nat \ {0} /\ words[i].len \in Nat
  BY <1>2 DEF Word
<1>4. QED BY <1>2, <1>3 DEF TkInv, Scanned

\* The fragments tile the text, at the end the words do; their bytes are decoded again.
LEMMA TkPieces == TkInv => PiecesAreTheText
<1> SUFFICES ASSUME TkInv PROVE PiecesAreTheText
  OBVIOUS
<1>1. Tiles(frags)
  BY DEF TkInv
<1>2. ASSUME tkAt = "done" PROVE Tiles(words)
  <2>1. frag > Len(frags) /\ TilesTo(words, Pos)
    BY <1>2 DEF TkInv, Scanned
  <2>2. Len(frags) \in Nat /\ frag \in Nat
    BY Listing DEF TkInv
  <2>3. Pos = Len(text) + 1
    BY <2>1, <2>2 DEF Pos
  <2>4. Len(text) \in Nat /\ text \in Seq(Codepoint)
    BY FragsAre
  <2>5. CASE words = <<>>
    <3>1. Len(text) = 0
      BY <2>1, <2>3, <2>4, <2>5 DEF TilesTo
    <3>2. text = <<>>
      BY <2>4, <3>1, EmptySeq, Zenon
    <3>3. QED BY <2>5, <3>2 DEF Tiles
  <2>6. CASE words # <<>>
    <3>1. words[1].at = 1 /\ EndOf(words[Len(words)]) = Len(text) + 1
          /\ \A i \in 1..(Len(words) - 1) : words[i + 1].at = EndOf(words[i])
      BY <2>1, <2>3, <2>6 DEF TilesTo
    <3>2. \A i \in DOMAIN words : words[i].len >= 0
      BY WordsAre
    <3>3. QED BY <2>6, <3>1, <3>2 DEF Tiles
  <2>7. QED BY <2>5, <2>6
<1>3. ASSUME NEW i \in DOMAIN words, words[i].id = 0
      PROVE  DecodeBytes(words[i].cs) = Bytes(Part(words[i]))
  <2>1. PICK w : w = words[i]
    OBVIOUS
  <2>2. w.at \in Nat \ {0} /\ w.len \in Nat /\ WordSound(w)
    BY <2>1, WordsAre
  <2>3. PICK f \in 1..Len(frags) : EndOf(w) <= EndOf(frags[f])
    BY <1>3, <2>1, <2>2 DEF WordSound
  <2>4. w.cs = ByteEncodeWord(Part(w))
    BY <1>3, <2>1, <2>2 DEF WordSound
  <2>5. EndOf(w) <= Len(text) + 1
    <3>1. PICK x \in Nat : x = EndOf(w)
      BY <2>2 DEF EndOf
    <3>2. PICK y \in Nat : y = EndOf(frags[f])
      BY FragsAre
    <3>3. PICK q \in Nat : q = Len(text)
      BY FragsAre
    <3>4. x <= y /\ y <= q + 1
      BY <2>3, <3>1, <3>2, <3>3, FragsAre
    <3>5. x <= q + 1
      BY <3>4
    <3>6. QED BY <3>1, <3>3, <3>5, Zenon
  <2>6. text \in Seq(Codepoint)
    BY FragsAre
  <2>7. Part(w) \in Seq(Codepoint)
    BY <2>2, <2>5, <2>6, PartIs
  <2>8. PICK t \in Seq(Codepoint) : t = Part(w)
    BY <2>7
  <2>9. DecodeBytes(ByteEncodeWord(t)) = Bytes(t)
    BY DecodesAsEncoded
  <2>10. QED BY <2>1, <2>4, <2>8, <2>9, Zenon
<1>4. QED BY <1>1, <1>2, <1>3 DEF PiecesAreTheText

\* A token within a fragment would have been found where it is in the text.
LEMMA TkNoSpecial == TkInv => NoSpecialIsLeft
<1> SUFFICES ASSUME TkInv, tkAt \in {"scan", "done"}, NEW i \in DOMAIN frags
             PROVE  IF frags[i].id # 0
                    THEN /\ Part(frags[i]) = vocab[frags[i].id].text
                         /\ parse \/ vocab[frags[i].id].type = 4
                    ELSE \A v \in DOMAIN vocab :
                           vocab[v].text # <<>> /\ (vocab[v].type = 4 \/ (parse /\ vocab[v].type = 3)) =>
                             \A a, b \in DOMAIN Part(frags[i]) : SubSeq(Part(frags[i]), a, b) # vocab[v].text
  BY DEF NoSpecialIsLeft
<1>1. /\ Cut /\ TkTypes /\ i \in 1..Len(frags) /\ special = Len(vocab) + 1 /\ Len(vocab) \in Nat
      /\ DOMAIN vocab = 1..Len(vocab)
  <2>1. Cut /\ TkTypes /\ i \in 1..Len(frags)
    BY FragsAre DEF TkInv
  <2>2. special = Len(vocab) + 1
    BY DEF TkInv, Scanned
  <2>3. Len(vocab) \in Nat /\ DOMAIN vocab = 1..Len(vocab)
    BY <2>1 DEF TkTypes
  <2>4. QED BY <2>1, <2>2, <2>3
<1>2. CASE frags[i].id # 0
  BY <1>1, <1>2 DEF Cut, Good
<1>3. CASE frags[i].id = 0
  <2>1. SUFFICES ASSUME NEW v \in DOMAIN vocab, Counts(v),
                        NEW a \in DOMAIN Part(frags[i]), NEW b \in DOMAIN Part(frags[i]),
                        SubSeq(Part(frags[i]), a, b) = vocab[v].text
                 PROVE  FALSE
    BY <1>3 DEF Counts
  <2>2. PICK f : f = frags[i]
    OBVIOUS
  <2>3. PICK t : t = vocab[v].text
    OBVIOUS
  <2>4. Absent(f, v)
    <3>1. v \in 1..Len(vocab) /\ v < special
      BY <1>1
    <3>2. QED BY <1>1, <1>3, <2>1, <2>2, <3>1 DEF Cut, Good
  <2>5. PICK x \in Nat \ {0} : x = f.at
    BY <1>1, <2>2, FragsAre
  <2>6. PICK y \in Nat : y = f.len
    BY <1>1, <2>2, FragsAre
  <2>7. x + y <= Len(text) + 1 /\ Len(text) \in Nat /\ text \in Seq(Codepoint)
    <3>1. EndOf(f) <= Len(text) + 1
      BY <1>1, <2>2, FragsAre
    <3>2. EndOf(f) = x + y
      BY <2>5, <2>6 DEF EndOf
    <3>3. QED BY <3>1, <3>2, FragsAre
  <2>8. a \in 1..y /\ b \in 1..y
    BY <1>1, <2>1, <2>2, <2>6, FragsAre
  <2>9. PICK c \in Seq(Codepoint) : c = Part(f) /\ Len(c) = y
    BY <1>1, <2>2, <2>6, FragsAre
  <2>10. SubSeq(c, a, b) = t
    BY <2>1, <2>2, <2>3, <2>9
  <2>11. t # <<>>
    BY <2>1, <2>3 DEF Counts
  <2>12. a <= b
    <3>1. SUFFICES ASSUME b < a PROVE FALSE
      BY <2>8
    <3>2. SubSeq(c, a, b) = <<>>
      BY <2>8, <2>9, <3>1
    <3>3. QED BY <2>10, <2>11, <3>2
  <2>13. Len(t) = b - a + 1
    BY <2>8, <2>9, <2>10, <2>12
  <2>14. SubSeq(text, x + a - 1, x + b - 1) = t
    <3>1. PICK z \in 0..Len(text) : z = x + y - 1
      BY <2>7
    <3>2. SubSeq(SubSeq(text, x, z), a, b) = SubSeq(text, x + a - 1, x + b - 1)
      <4>1. x + b - 1 <= z /\ a \in Nat \ {0} /\ b \in Nat
        BY <2>8, <3>1
      <4>2. QED BY <2>7, <3>1, <4>1, PartOfPart
    <3>3. f.at + f.len - 1 = z
      BY <2>5, <2>6, <3>1, Zenon
    <3>4. c = SubSeq(text, x, z)
      BY <2>5, <2>9, <3>3, Zenon DEF Part
    <3>5. QED BY <2>10, <3>2, <3>4, Zenon
  <2>15. PICK o : o = x + a - 1
    OBVIOUS
  <2>16. o \in x..((x + y) - Len(t)) /\ o + Len(t) - 1 = x + b - 1
    BY <2>8, <2>12, <2>13, <2>15
  <2>17. \A e \in x..((x + y) - Len(t)) : SubSeq(text, e, e + Len(t) - 1) # t
    BY <2>3, <2>4, <2>5, <2>6, Zenon DEF Absent, EndOf
  <2>18. QED BY <2>14, <2>15, <2>16, <2>17
<1>4. QED BY <1>2, <1>3

\* A word begins in one fragment only, and it is the match there.
LEMMA TkScans == TkInv => ScansAsTheRegex
<1> SUFFICES ASSUME TkInv, NEW i \in DOMAIN words, words[i].id = 0, NEW f \in DOMAIN frags,
                    frags[f].id = 0, words[i].at - frags[f].at + 1 \in DOMAIN Part(frags[f])
             PROVE  LET c == Part(frags[f])
                        p == words[i].at - frags[f].at + 1 IN
                    p + words[i].len = IF Flagless(c, p) = {} THEN Match(c, p, Symbols)
                                       ELSE Max({p + 1, Min(Flagless(c, p))})
  BY DEF ScansAsTheRegex
<1>1. PICK w : w = words[i]
  OBVIOUS
<1>2. w.at \in Nat \ {0} /\ w.len \in Nat /\ WordSound(w)
  BY <1>1, WordsAre
<1>3. PICK g \in 1..Len(frags) :
        /\ frags[g].at <= w.at /\ EndOf(w) <= EndOf(frags[g])
        /\ Match(Part(frags[g]), w.at - frags[g].at + 1, {"punct"}) = w.at - frags[g].at + 1 + w.len
  BY <1>1, <1>2 DEF WordSound
<1>4. w.len > 0
  BY <1>1, <1>2 DEF WordSound
<1>5. f \in 1..Len(frags)
  BY FragsAre
<1>6. /\ frags[f].at \in Nat /\ frags[f].len \in Nat /\ frags[g].at \in Nat /\ EndOf(frags[g]) \in Nat
      /\ w.at - frags[f].at + 1 \in 1..frags[f].len
  BY <1>1, <1>5, FragsAre
<1>7. frags[f].at <= w.at /\ w.at < EndOf(frags[f])
  BY <1>2, <1>6 DEF EndOf
<1>8. w.at < EndOf(frags[g])
  <2>1. w.at < EndOf(w)
    BY <1>2, <1>4 DEF EndOf
  <2>2. EndOf(w) \in Nat
    BY <1>2 DEF EndOf
  <2>3. QED BY <1>2, <1>3, <1>6, <2>1, <2>2
<1>9. \A k, j \in 1..Len(frags) : k < j => EndOf(frags[k]) <= frags[j].at
  <2>1. SUFFICES ASSUME NEW k \in 1..Len(frags), NEW j \in 1..Len(frags), k < j
                 PROVE  EndOf(frags[k]) <= frags[j].at
    OBVIOUS
  <2>2. k \in 1..(j - 1)
    BY <2>1
  <2>3. QED BY <2>2, FragsAre
<1>10. f = g
  <2>1. EndOf(frags[f]) \in Nat
    BY <1>5, FragsAre
  <2>2. ~(f < g)
    BY <1>2, <1>3, <1>5, <1>6, <1>7, <1>9, <2>1
  <2>3. ~(g < f)
    BY <1>2, <1>5, <1>6, <1>7, <1>8, <1>9
  <2>4. QED BY <1>5, <2>2, <2>3
<1>11. PICK c : c = Part(frags[f])
  OBVIOUS
<1>12. PICK p : p = w.at - frags[f].at + 1
  OBVIOUS
<1>13. c \in Seq(Codepoint) /\ p \in 1..Len(c)
  BY <1>5, <1>6, <1>11, <1>12, FragsAre
<1>14. Match(c, p, {"punct"}) = p + w.len
  BY <1>3, <1>10, <1>11, <1>12
<1>15. Match(c, p, {"punct"}) = IF Flagless(c, p) = {} THEN Match(c, p, Symbols)
                                ELSE Max({p + 1, Min(Flagless(c, p))})
  BY <1>13, SymbolsWithFlags, Zenon
<1>16. QED BY <1>1, <1>11, <1>12, <1>14, <1>15

\* encode (tokenizer.rs) cuts any text, with any vocabulary, without loss: the special
\* tokens that count are all cut out, and the rest is split as the regular expression
\* quoted there (lines 273-366) splits it, but for symbols without a flag, which the
\* scanner leaves to words of their own.
THEOREM CutsEveryText == TkSpec => []CutsAsTheRegex
<1>1. TkInit => TkInv
  BY TkInitially
<1>2. TkInv /\ [TkNext]_tkVars => TkInv'
  BY TkKeeps
<1>3. TkInv => CutsAsTheRegex
  BY TkPieces, TkNoSpecial, TkScans DEF CutsAsTheRegex
<1>4. QED BY <1>1, <1>2, <1>3, PTL DEF TkSpec

-----------------------------------------------------------------------------
\* The merges: the variables in their types, and the list followed backwards.
Links ==
  /\ word \in Seq(Char) /\ merges \in Tables
  /\ n \in [Syms -> Nat] /\ nxt \in [Syms -> 0..Len(word)] /\ prv \in [Syms -> 0..Len(word)]
  /\ \A i \in Live : i + n[i] <= Len(word) + 1
  /\ \A i \in Live : prv[i] # 0 => prv[i] \in Live /\ nxt[prv[i]] = i

\* An entry was queued for two neighbours of p and q characters.  Since then its
\* left symbol was consumed, or has grown over both, or is what it was, and the
\* other one may have grown.
QueuedFor(e, p, q) ==
  /\ e.left + p + q <= Len(word) + 1
  /\ e.text = TextOf(e.left, p) \o TextOf(e.left + p, q)
  /\ e.rank \in Ranks(TextOf(e.left, p), TextOf(e.left + p, q))
  /\ e.rank = Rank(TextOf(e.left, p), TextOf(e.left + p, q))
  /\ \/ n[e.left] = 0
     \/ n[e.left] >= p + q
     \/ n[e.left] = p /\ n[e.left + p] >= q

Queued ==
  \A e \in heap :
    /\ e.left \in Syms
    /\ e = [rank |-> e.rank, left |-> e.left, text |-> e.text]
    /\ \E p, q \in Nat \ {0} : QueuedFor(e, p, q)

BpeInv == Links /\ ListIsTheWord /\ Queued /\ HeapComplete

-----------------------------------------------------------------------------
\* The places of a pair in the table are naturals, and one of them is its rank.
LEMMA RankOfPair ==
  ASSUME merges \in Tables, NEW l, NEW r
  PROVE  /\ Ranks(l, r) \subseteq Nat
         /\ Ranks(l, r) # {} => Rank(l, r) \in Ranks(l, r)
<1>1. merges \in Seq((Seq(Char) \ {<<>>}) \X (Seq(Char) \ {<<>>}))
  BY BpeAssumption
<1>2. Len(merges) \in Nat /\ DOMAIN merges = 1..Len(merges)
  BY <1>1
<1>3. Ranks(l, r) \in SUBSET Nat /\ \A k \in Ranks(l, r) : k <= Len(merges)
  BY <1>2 DEF Ranks
<1>4. ASSUME Ranks(l, r) # {} PROVE Rank(l, r) \in Ranks(l, r)
  <2>1. PICK i \in Ranks(l, r) : \A j \in Ranks(l, r) : j <= i
    BY <1>2, <1>3, <1>4, GreatestNat
  <2>2. QED BY <2>1 DEF Rank
<1>5. QED BY <1>3, <1>4

\* What add_new_bigram queues is one entry for the two neighbours, or nothing.
LEMMA BigramIs ==
  ASSUME NEW l, NEW r, NEW lens, NEW e \in Bigram(l, r, lens)
  PROVE  /\ l # 0 /\ r # 0
         /\ Ranks(TextOf(l, lens[l]), TextOf(r, lens[r])) # {}
         /\ e = [rank |-> Rank(TextOf(l, lens[l]), TextOf(r, lens[r])), left |-> l,
                 text |-> TextOf(l, lens[l]) \o TextOf(r, lens[r])]
BY DEF Bigram

\* The text of a symbol is as long as the symbol.
LEMMA TextLength ==
  ASSUME word \in Seq(Char), NEW i \in Nat \ {0}, NEW k \in Nat, i + k <= Len(word) + 1
  PROVE  TextOf(i, k) \in Seq(Char) /\ Len(TextOf(i, k)) = k
<1>1. i + k - 1 \in Int /\ \A j \in i..(i + k - 1) : word[j] \in Char
  OBVIOUS
<1>2. /\ SubSeq(word, i, i + k - 1) \in Seq(Char)
      /\ Len(SubSeq(word, i, i + k - 1)) =
           IF i <= i + k - 1 THEN (i + k - 1) - i + 1 ELSE 0
  BY <1>1, SubSeqProperties
<1>3. QED BY <1>2 DEF TextOf

\* Two neighbouring texts are as long as both symbols.
LEMMA PairLength ==
  ASSUME word \in Seq(Char), NEW i \in Nat \ {0}, NEW p \in Nat, NEW q \in Nat,
         i + p + q <= Len(word) + 1
  PROVE  Len(TextOf(i, p) \o TextOf(i + p, q)) = p + q
<1>1. TextOf(i, p) \in Seq(Char) /\ Len(TextOf(i, p)) = p
  BY TextLength
<1>2. TextOf(i + p, q) \in Seq(Char) /\ Len(TextOf(i + p, q)) = q
  BY TextLength
<1>3. QED BY <1>1, <1>2, ConcatProperties

\* The next entry of a heap that holds any.
LEMMA TopIsFirst ==
  ASSUME merges \in Tables, Queued, heap # {}
  PROVE  Top \in heap /\ \A f \in heap : Before(Top, f)
<1>1. \A e \in heap : e.rank \in Nat /\ e.left \in Nat
  BY RankOfPair DEF Queued, QueuedFor, Syms
<1> DEFINE R == {e.rank : e \in heap}
<1>2. PICK k \in R : \A o \in R : k <= o
  <2>1. R \in SUBSET Nat /\ R # {}
    BY <1>1
  <2> HIDE DEF R
  <2>2. QED BY <2>1, LeastNat
<1> DEFINE L == {e.left : e \in {f \in heap : f.rank = k}}
<1>3. PICK m \in L : \A o \in L : m <= o
  <2>1. L \in SUBSET Nat /\ L # {}
    BY <1>1, <1>2
  <2> HIDE DEF L
  <2>2. QED BY <2>1, LeastNat
<1>4. PICK e \in heap : e.rank = k /\ e.left = m
  BY <1>3
<1>5. ASSUME NEW f \in heap PROVE Before(e, f)
  <2>1. k <= f.rank
    BY <1>2
  <2>2. f.rank = k => m <= f.left
    BY <1>3
  <2>3. QED BY <1>1, <1>4, <2>1, <2>2 DEF Before
<1>6. QED BY <1>4, <1>5 DEF Top

\* An entry that is not stale is for the two symbols as they are now.
LEMMA FreshEntry ==
  ASSUME Links, ListIsTheWord, Queued, NEW e \in heap, ~Stale(e)
  PROVE  /\ e.left \in Live /\ nxt[e.left] \in Live /\ nxt[e.left] = e.left + n[e.left]
         /\ e.text = TextOf(e.left, n[e.left]) \o TextOf(nxt[e.left], n[nxt[e.left]])
         /\ e.rank \in Ranks(TextOf(e.left, n[e.left]), TextOf(nxt[e.left], n[nxt[e.left]]))
         /\ e.rank = Rank(TextOf(e.left, n[e.left]), TextOf(nxt[e.left], n[nxt[e.left]]))
<1> DEFINE l == e.left
           r == nxt[l]
<1>1. /\ l \in Syms /\ r # 0 /\ n[l] # 0 /\ n[r] # 0
      /\ TextOf(l, n[l]) \o TextOf(r, n[r]) = e.text
  BY DEF Queued, Stale
<1>2. l \in Live /\ r \in Live /\ r = l + n[l]
  BY <1>1 DEF Live, ListIsTheWord
<1>3. word \in Seq(Char) /\ Len(word) \in Nat /\ l \in Nat \ {0} /\ n[l] \in Nat /\ n[r] \in Nat
  BY <1>1, <1>2 DEF Links, Syms, Live
<1>4. PICK p \in Nat \ {0}, q \in Nat \ {0} : QueuedFor(e, p, q)
  BY DEF Queued
<1>5. Len(e.text) = p + q
  <2>1. e.left + p + q <= Len(word) + 1 /\ e.text = TextOf(e.left, p) \o TextOf(e.left + p, q)
    BY <1>4 DEF QueuedFor
  <2>2. p \in Nat /\ q \in Nat /\ e.left \in Nat \ {0}
    BY <1>3
  <2>3. Len(TextOf(e.left, p) \o TextOf(e.left + p, q)) = p + q
    BY ONLY <1>3, <2>1, <2>2, PairLength
  <2>4. QED BY <2>1, <2>3
<1>6. Len(e.text) = n[l] + n[r]
  <2>1. l + n[l] + n[r] <= Len(word) + 1
    BY <1>2, <1>3 DEF Links
  <2>2. Len(TextOf(l, n[l]) \o TextOf(l + n[l], n[r])) = n[l] + n[r]
    BY <1>3, <2>1, PairLength
  <2>3. QED BY <1>1, <1>2, <2>2
<1>7. n[l] = p
  <2>1. n[l] + n[r] = p + q
    BY <1>5, <1>6
  <2>2. ~(n[l] >= p + q)
    BY <1>1, <1>3, <2>1
  <2>3. QED BY <1>1, <1>4, <2>2 DEF QueuedFor
<1>8. n[r] = q
  BY <1>3, <1>5, <1>6, <1>7
<1>9. QED BY <1>1, <1>2, <1>4, <1>7, <1>8 DEF QueuedFor

\* The pair a merge takes: two neighbours, the entry queued for them.
LEMMA MergedPair ==
  ASSUME BpeInv, heap # {}, ~Stale(Top)
  PROVE  /\ Top \in heap /\ Top.left \in Live /\ nxt[Top.left] \in Live
         /\ nxt[Top.left] = Top.left + n[Top.left]
         /\ prv[nxt[Top.left]] = Top.left
         /\ Top.rank \in Ranks(TextOf(Top.left, n[Top.left]),
                               TextOf(nxt[Top.left], n[nxt[Top.left]]))
<1>1. Top \in heap
  BY TopIsFirst DEF BpeInv, Links
<1>2. /\ Top.left \in Live /\ nxt[Top.left] \in Live /\ nxt[Top.left] = Top.left + n[Top.left]
      /\ Top.rank \in Ranks(TextOf(Top.left, n[Top.left]),
                            TextOf(nxt[Top.left], n[nxt[Top.left]]))
  BY <1>1, FreshEntry DEF BpeInv
<1>3. nxt[Top.left] # 0
  BY <1>2 DEF Live, Syms
<1>4. prv[nxt[Top.left]] = Top.left
  BY <1>2, <1>3 DEF BpeInv, ListIsTheWord
<1>5. QED BY <1>1, <1>2, <1>4

-----------------------------------------------------------------------------
LEMMA InitBpe == BpeInit => BpeInv
<1> SUFFICES ASSUME BpeInit PROVE BpeInv
  OBVIOUS
<1>1. /\ word \in Seq(Char) /\ merges \in Tables /\ Len(word) \in Nat
      /\ n = [i \in Syms |-> 1]
      /\ nxt = [i \in Syms |-> IF i = Len(word) THEN 0 ELSE i + 1]
      /\ prv = [i \in Syms |-> i - 1]
      /\ heap = UNION {Bigram(i - 1, i, n) : i \in 2..Len(word)}
  BY BpeAssumption DEF BpeInit
<1>2. Live = Syms
  BY <1>1 DEF Live
<1>3. Links
  <2>1. /\ n \in [Syms -> Nat] /\ nxt \in [Syms -> 0..Len(word)]
        /\ prv \in [Syms -> 0..Len(word)]
    BY <1>1 DEF Syms
  <2>2. \A i \in Live : i + n[i] <= Len(word) + 1
    BY <1>1, <1>2 DEF Syms
  <2>3. \A i \in Live : prv[i] # 0 => prv[i] \in Live /\ nxt[prv[i]] = i
    BY <1>1, <1>2 DEF Syms
  <2>4. QED BY <1>1, <2>1, <2>2, <2>3 DEF Links
<1>4. ListIsTheWord
  <2>1. word # <<>> => 1 \in Syms
    BY <1>1 DEF Syms
  <2>2. ASSUME NEW i \in Syms
        PROVE  /\ nxt[i] # 0 => nxt[i] \in Syms /\ nxt[i] = i + n[i] /\ prv[nxt[i]] = i
               /\ nxt[i] = 0 => i + n[i] = Len(word) + 1
    BY <1>1 DEF Syms
  <2>3. QED BY <1>2, <2>1, <2>2 DEF ListIsTheWord
<1>5. Queued
  <2>1. ASSUME NEW e \in heap
        PROVE  /\ e.left \in Syms
               /\ e = [rank |-> e.rank, left |-> e.left, text |-> e.text]
               /\ QueuedFor(e, 1, 1)
    <3>1. PICK i \in 2..Len(word) : e \in Bigram(i - 1, i, n)
      BY <1>1
    <3>2. i - 1 \in Syms /\ i \in Syms /\ n[i - 1] = 1 /\ n[i] = 1 /\ (i - 1) + 1 = i
      BY <1>1 DEF Syms
    <3>3. /\ Ranks(TextOf(i - 1, 1), TextOf(i, 1)) # {}
          /\ e = [rank |-> Rank(TextOf(i - 1, 1), TextOf(i, 1)), left |-> i - 1,
                  text |-> TextOf(i - 1, 1) \o TextOf(i, 1)]
      <4>1. /\ Ranks(TextOf(i - 1, n[i - 1]), TextOf(i, n[i])) # {}
            /\ e = [rank |-> Rank(TextOf(i - 1, n[i - 1]), TextOf(i, n[i])), left |-> i - 1,
                    text |-> TextOf(i - 1, n[i - 1]) \o TextOf(i, n[i])]
        BY <3>1, BigramIs
      <4>2. QED BY <3>2, <4>1
    <3>4. e.rank \in Ranks(TextOf(i - 1, 1), TextOf(i, 1))
      BY <1>1, <3>3, RankOfPair
    <3>5. e.left + 1 + 1 <= Len(word) + 1
      BY <1>1, <3>3
    <3>6. QED BY <3>2, <3>3, <3>4, <3>5 DEF QueuedFor
  <2>2. QED BY <2>1 DEF Queued
<1>6. HeapComplete
  <2>1. ASSUME NEW i \in Live, nxt[i] # 0 PROVE Bigram(i, nxt[i], n) \subseteq heap
    <3>1. nxt[i] = i + 1 /\ i + 1 \in 2..Len(word) /\ (i + 1) - 1 = i
      BY <1>1, <1>2, <2>1 DEF Syms
    <3>2. QED BY <1>1, <3>1
  <2>2. QED BY <2>1 DEF HeapComplete
<1>7. QED BY <1>3, <1>4, <1>5, <1>6 DEF BpeInv

\* An entry says the same of a list that did not change.
LEMMA QueuedKept ==
  ASSUME Queued, UNCHANGED <<word, merges, n>>, heap' \subseteq heap
  PROVE  Queued'
<1>1. ASSUME NEW e, NEW p, NEW q, QueuedFor(e, p, q)
      PROVE  QueuedFor(e, p, q)'
  BY <1>1 DEF QueuedFor, TextOf, Ranks, Rank
<1>2. ASSUME NEW e \in heap
      PROVE  \E p, q \in Nat \ {0} : QueuedFor(e, p, q)'
  BY <1>1 DEF Queued
<1>3. QED BY <1>2 DEF Queued, Syms

LEMMA SkipBpe ==
  ASSUME BpeInv, Skip
  PROVE  BpeInv'
<1>1. /\ heap # {} /\ Stale(Top) /\ heap' = heap \ {Top}
      /\ UNCHANGED <<word, merges, n, nxt, prv>>
  BY DEF Skip
<1>2. Links'
  BY <1>1 DEF BpeInv, Links, Live, Syms
<1>3. ListIsTheWord'
  BY <1>1 DEF BpeInv, ListIsTheWord, Live, Syms
<1>4. Queued'
  BY <1>1, QueuedKept DEF BpeInv
<1>5. HeapComplete'
  <2>1. ASSUME NEW i \in Live, nxt[i] # 0, NEW e \in Bigram(i, nxt[i], n)
        PROVE  e \in heap'
    <3>1. e \in heap
      BY <2>1 DEF BpeInv, HeapComplete
    <3>2. e.left = i /\ e.text = TextOf(i, n[i]) \o TextOf(nxt[i], n[nxt[i]])
      BY <2>1, BigramIs
    <3>3. n[i] # 0 /\ n[nxt[i]] # 0
      BY <2>1 DEF BpeInv, ListIsTheWord, Live
    <3>4. ~Stale(e)
      BY <2>1, <3>2, <3>3 DEF Stale
    <3>5. QED BY <1>1, <3>1, <3>4
  <2>2. \A i \in Live : nxt[i] # 0 => Bigram(i, nxt[i], n) \subseteq heap'
    BY <2>1
  <2>3. ASSUME NEW i \in Syms
        PROVE  Bigram(i, nxt[i], n)' = Bigram(i, nxt[i], n)
    BY <1>1 DEF Bigram, TextOf, Ranks, Rank
  <2>4. Live' = Live /\ Live \subseteq Syms
    BY <1>1 DEF Live, Syms
  <2>5. QED BY <1>1, <2>2, <2>3, <2>4 DEF HeapComplete
<1>6. QED BY <1>2, <1>3, <1>4, <1>5 DEF BpeInv

-----------------------------------------------------------------------------
\* What a merge does to the list: l grows over its neighbour r.
Merged(l, r) ==
  /\ l \in Live /\ r \in Live /\ nxt[l] = r /\ r = l + n[l] /\ prv[r] = l
  /\ UNCHANGED <<word, merges>>
  /\ n' = [n EXCEPT ![l] = n[l] + n[r], ![r] = 0]
  /\ nxt' = [nxt EXCEPT ![l] = nxt[r]]
  /\ prv' = (IF nxt[r] # 0 THEN [prv EXCEPT ![nxt[r]] = l] ELSE prv)

LEMMA MergeMerges ==
  ASSUME BpeInv, Merge
  PROVE  /\ Merged(Top.left, nxt[Top.left])
         /\ Top \in heap
         /\ heap' = (heap \ {Top}) \cup Bigram(prv[Top.left], Top.left, n')
                                   \cup Bigram(Top.left, nxt'[Top.left], n')
<1>1. heap # {} /\ ~Stale(Top)
  BY DEF Merge
<1>2. /\ Top \in heap /\ Top.left \in Live /\ nxt[Top.left] \in Live
      /\ nxt[Top.left] = Top.left + n[Top.left]
      /\ prv[nxt[Top.left]] = Top.left
  BY <1>1, MergedPair
<1>3. Merged(Top.left, nxt[Top.left])
  BY <1>2 DEF Merge, BackLinks, Merged
<1>4. nxt'[Top.left] = nxt[nxt[Top.left]]
  BY <1>2, <1>3 DEF Merged, BpeInv, Links, Live
<1>5. heap' = (heap \ {Top}) \cup NewPairs(Top.left, n', nxt[nxt[Top.left]])
  BY DEF Merge
<1>6. QED BY <1>2, <1>3, <1>4, <1>5 DEF NewPairs

\* The numbers around a merge.
LEMMA AroundMerge ==
  ASSUME BpeInv, NEW l, NEW r, Merged(l, r)
  PROVE  /\ l \in Syms /\ r \in Syms /\ l < r /\ r = l + n[l] /\ n[l] > 0 /\ n[r] > 0
         /\ n \in [Syms -> Nat] /\ Len(word) \in Nat /\ nxt[r] \in 0..Len(word)
         /\ nxt[r] # 0 => nxt[r] \in Live /\ nxt[r] = r + n[r] /\ prv[nxt[r]] = r
         /\ nxt[r] = 0 => r + n[r] = Len(word) + 1
         /\ r + n[r] <= Len(word) + 1
         /\ n' \in [Syms -> Nat] /\ n'[l] = n[l] + n[r] /\ n'[r] = 0
         /\ \A i \in Syms : i # l /\ i # r => n'[i] = n[i]
         /\ Live' = Live \ {r}
         /\ nxt'[l] = nxt[r] /\ \A i \in Syms : i # l => nxt'[i] = nxt[i]
         /\ \A i \in Syms : i # nxt[r] => prv'[i] = prv[i]
         /\ nxt[r] # 0 => prv'[nxt[r]] = l
<1>1. /\ word \in Seq(Char) /\ Len(word) \in Nat
      /\ n \in [Syms -> Nat] /\ nxt \in [Syms -> 0..Len(word)] /\ prv \in [Syms -> 0..Len(word)]
  BY DEF BpeInv, Links
<1>2. /\ l \in Syms /\ r \in Syms /\ n[l] # 0 /\ n[r] # 0 /\ r = l + n[l]
      /\ n[l] \in Nat /\ n[r] \in Nat /\ l \in Nat /\ nxt[r] \in 0..Len(word)
  BY <1>1 DEF Merged, Live, Syms
<1>3. l < r /\ n[l] > 0 /\ n[r] > 0
  BY <1>2
<1>4. /\ nxt[r] # 0 => nxt[r] \in Live /\ nxt[r] = r + n[r] /\ prv[nxt[r]] = r
      /\ nxt[r] = 0 => r + n[r] = Len(word) + 1
      /\ r + n[r] <= Len(word) + 1
  BY DEF Merged, BpeInv, ListIsTheWord, Links
<1>5. /\ n' \in [Syms -> Nat] /\ n'[l] = n[l] + n[r] /\ n'[r] = 0
      /\ \A i \in Syms : i # l /\ i # r => n'[i] = n[i]
  <2>1. n' = [n EXCEPT ![l] = n[l] + n[r], ![r] = 0]
    BY DEF Merged
  <2>2. n[l] + n[r] \in Nat /\ l # r
    BY <1>2, <1>3
  <2>3. QED BY <1>1, <1>2, <2>1, <2>2
<1>6. Live' = Live \ {r}
  <2>1. Syms' = Syms
    BY DEF Merged, Syms
  <2>2. n[l] + n[r] # 0
    BY <1>2
  <2>3. QED BY <1>2, <1>3, <1>5, <2>1, <2>2 DEF Live
<1>7. nxt'[l] = nxt[r] /\ \A i \in Syms : i # l => nxt'[i] = nxt[i]
  BY <1>1, <1>2 DEF Merged
<1>8. nxt[r] # 0 => nxt[r] \in Syms
  BY <1>4 DEF Live
<1>9. /\ \A i \in Syms : i # nxt[r] => prv'[i] = prv[i]
      /\ nxt[r] # 0 => prv'[nxt[r]] = l
  BY <1>1, <1>8 DEF Merged
<1>10. QED BY <1>1, <1>2, <1>3, <1>4, <1>5, <1>6, <1>7, <1>9

\* The list stays one, in both directions, and stays the word.
LEMMA MergeKeepsList ==
  ASSUME BpeInv, NEW l, NEW r, Merged(l, r)
  PROVE  Links' /\ ListIsTheWord'
<1>1. /\ l \in Syms /\ r \in Syms /\ l < r /\ r = l + n[l] /\ n[l] > 0 /\ n[r] > 0
      /\ n \in [Syms -> Nat] /\ Len(word) \in Nat /\ nxt[r] \in 0..Len(word)
      /\ nxt[r] # 0 => nxt[r] \in Live /\ nxt[r] = r + n[r] /\ prv[nxt[r]] = r
      /\ nxt[r] = 0 => r + n[r] = Len(word) + 1
      /\ r + n[r] <= Len(word) + 1
  BY AroundMerge
<1>2. /\ n' \in [Syms -> Nat] /\ n'[l] = n[l] + n[r] /\ n'[r] = 0
      /\ \A i \in Syms : i # l /\ i # r => n'[i] = n[i]
      /\ Live' = Live \ {r}
      /\ nxt'[l] = nxt[r] /\ \A i \in Syms : i # l => nxt'[i] = nxt[i]
      /\ \A i \in Syms : i # nxt[r] => prv'[i] = prv[i]
      /\ nxt[r] # 0 => prv'[nxt[r]] = l
  BY AroundMerge
<1>3. /\ l \in Live /\ r \in Live /\ nxt[l] = r /\ prv[r] = l /\ Live \subseteq Syms
      /\ word' = word /\ merges' = merges /\ Syms' = Syms
      /\ l \in Nat /\ r \in Nat /\ n[l] \in Nat /\ n[r] \in Nat
  BY <1>1 DEF Merged, Live, Syms
<1>4. ASSUME NEW i \in Live, i # r
      PROVE  /\ nxt'[i] # 0 => nxt'[i] \in Live /\ nxt'[i] # r /\ nxt'[i] = i + n'[i]
                               /\ prv'[nxt'[i]] = i
             /\ nxt'[i] = 0 => i + n'[i] = Len(word) + 1
             /\ i + n'[i] <= Len(word) + 1
  <2>1. CASE i = l
    <3>1. i + n'[i] = r + n[r]
      BY <1>1, <1>2, <1>3, <2>1
    <3>2. nxt'[i] = nxt[r]
      BY <1>2, <2>1
    <3>3. nxt[r] # 0 => nxt[r] # r
      BY <1>1, <1>3
    <3>4. QED BY <1>1, <1>2, <2>1, <3>1, <3>2, <3>3
  <2>2. CASE i # l
    <3>1. /\ nxt[i] # 0 => nxt[i] \in Live /\ nxt[i] = i + n[i] /\ prv[nxt[i]] = i
          /\ nxt[i] = 0 => i + n[i] = Len(word) + 1
          /\ i + n[i] <= Len(word) + 1
      BY DEF BpeInv, ListIsTheWord, Links
    <3>2. i \in Syms /\ n'[i] = n[i] /\ nxt'[i] = nxt[i]
      BY <1>2, <1>3, <1>4, <2>2
    <3>3. ASSUME nxt[i] # 0
          PROVE  nxt[i] # r /\ prv'[nxt[i]] = i
      <4>1. nxt[i] # r
        BY <1>3, <2>2, <3>1, <3>3
      <4>2. nxt[i] # nxt[r]
        BY <1>1, <1>4, <3>1, <3>3
      <4>3. nxt[i] \in Syms
        BY <1>3, <3>1, <3>3
      <4>4. QED BY <1>2, <3>1, <3>3, <4>1, <4>2, <4>3
    <3>4. QED BY <3>1, <3>2, <3>3
  <2>3. QED BY <2>1, <2>2
<1>5. ASSUME NEW i \in Live, i # r, prv'[i] # 0
      PROVE  prv'[i] \in Live /\ prv'[i] # r /\ nxt'[prv'[i]] = i
  <2>1. CASE i = nxt[r]
    <3>1. prv'[i] = l
      BY <1>1, <1>2, <1>3, <2>1 DEF Live, Syms
    <3>2. QED BY <1>1, <1>2, <1>3, <2>1, <3>1
  <2>2. CASE i # nxt[r]
    <3>1. prv'[i] = prv[i]
      BY <1>2, <1>3, <2>2
    <3>2. prv[i] \in Live /\ nxt[prv[i]] = i
      BY <1>5, <3>1 DEF BpeInv, Links
    <3>3. prv[i] # r /\ prv[i] # l
      BY <1>3, <1>5, <2>2, <3>2
    <3>4. prv[i] \in Syms
      BY <1>3, <3>2
    <3>5. QED BY <1>2, <3>1, <3>2, <3>3, <3>4
  <2>3. QED BY <2>1, <2>2
<1>6. Links'
  <2>1. nxt' \in [Syms -> 0..Len(word)] /\ prv' \in [Syms -> 0..Len(word)]
    <3>1. nxt \in [Syms -> 0..Len(word)] /\ prv \in [Syms -> 0..Len(word)] /\ l \in 0..Len(word)
      BY <1>1 DEF BpeInv, Links, Syms
    <3>2. QED BY <1>1, <3>1 DEF Merged
  <2>2. word \in Seq(Char) /\ merges \in Tables
    BY DEF BpeInv, Links
  <2>3. \A i \in Live' : i + n'[i] <= Len(word) + 1
    BY <1>2, <1>4
  <2>4. \A i \in Live' : prv'[i] # 0 => prv'[i] \in Live' /\ nxt'[prv'[i]] = i
    BY <1>2, <1>5
  <2>5. QED BY <1>2, <1>3, <2>1, <2>2, <2>3, <2>4 DEF Links
<1>7. ListIsTheWord'
  <2>1. word # <<>> => 1 \in Live'
    <3>1. word # <<>> => 1 \in Live
      BY DEF BpeInv, ListIsTheWord
    <3>2. r # 1
      BY <1>1 DEF Syms
    <3>3. QED BY <1>2, <3>1, <3>2
  <2>2. ASSUME NEW i \in Live'
        PROVE  /\ nxt'[i] # 0 => nxt'[i] \in Live' /\ nxt'[i] = i + n'[i] /\ prv'[nxt'[i]] = i
               /\ nxt'[i] = 0 => i + n'[i] = Len(word) + 1
    <3>1. i \in Live /\ i # r
      BY <1>2
    <3>2. QED BY <1>2, <1>4, <3>1
  <2>3. QED BY <1>3, <2>1, <2>2 DEF ListIsTheWord
<1>8. QED BY <1>6, <1>7

\* What is queued for two neighbours of the new list.
LEMMA NewEntry ==
  ASSUME BpeInv, NEW l, NEW r, Merged(l, r), NEW a \in Live', NEW b \in Live', b = a + n'[a],
         NEW e \in Bigram(a, b, n')
  PROVE  /\ e.left \in Syms
         /\ e = [rank |-> e.rank, left |-> e.left, text |-> e.text]
         /\ \E p, q \in Nat \ {0} : QueuedFor(e, p, q)'
<1>1. Links' /\ Len(word) \in Nat /\ UNCHANGED <<word, merges>> /\ merges \in Tables
  <2>1. Links' /\ Len(word) \in Nat
    BY MergeKeepsList, AroundMerge
  <2>2. QED BY <2>1 DEF Merged, BpeInv, Links
<1>2. /\ a \in Syms /\ b \in Syms /\ n'[a] # 0 /\ n'[b] # 0 /\ n' \in [Syms -> Nat]
      /\ b + n'[b] <= Len(word) + 1
  BY <1>1 DEF Links, Live, Syms
<1>3. PICK p \in Nat \ {0}, q \in Nat \ {0} : n'[a] = p /\ n'[b] = q
  BY <1>2
<1>4. b = a + p /\ a + p + q <= Len(word) + 1
  BY <1>1, <1>2, <1>3 DEF Syms
<1>5. /\ Ranks(TextOf(a, n'[a]), TextOf(b, n'[b])) # {}
      /\ e = [rank |-> Rank(TextOf(a, n'[a]), TextOf(b, n'[b])), left |-> a,
              text |-> TextOf(a, n'[a]) \o TextOf(b, n'[b])]
  BY BigramIs
<1>6. /\ Ranks(TextOf(a, p), TextOf(a + p, q)) # {}
      /\ e = [rank |-> Rank(TextOf(a, p), TextOf(a + p, q)), left |-> a,
              text |-> TextOf(a, p) \o TextOf(a + p, q)]
  BY <1>3, <1>4, <1>5
<1>7. e.rank \in Ranks(TextOf(a, p), TextOf(a + p, q))
  BY <1>1, <1>6, RankOfPair
<1>8. /\ e.left = a /\ e.text = TextOf(a, p) \o TextOf(a + p, q)
      /\ e.rank = Rank(TextOf(a, p), TextOf(a + p, q))
  BY <1>6
<1>9. n'[e.left] = p /\ n'[e.left + p] >= q /\ e.left + p + q <= Len(word) + 1
  BY <1>3, <1>4, <1>8
<1>10. QueuedFor(e, p, q)'
  BY <1>1, <1>7, <1>8, <1>9 DEF QueuedFor, TextOf, Ranks, Rank
<1>11. QED BY <1>2, <1>6, <1>8, <1>10

\* An entry that stays in the heap: its symbol, or the one behind it, may have
\* been consumed or have grown.
LEMMA OldEntry ==
  ASSUME BpeInv, NEW l, NEW r, Merged(l, r), NEW e \in heap,
         NEW p \in Nat \ {0}, NEW q \in Nat \ {0}, QueuedFor(e, p, q)
  PROVE  QueuedFor(e, p, q)'
<1>1. /\ l \in Syms /\ r \in Syms /\ l < r /\ r = l + n[l] /\ n[l] > 0 /\ n[r] > 0
      /\ n \in [Syms -> Nat] /\ Len(word) \in Nat
      /\ n'[l] = n[l] + n[r] /\ n'[r] = 0
      /\ \A i \in Syms : i # l /\ i # r => n'[i] = n[i]
  BY AroundMerge
<1>2. /\ nxt[l] = r /\ prv[r] = l /\ UNCHANGED <<word, merges>> /\ e.left \in Syms
      /\ n[l] \in Nat /\ n[r] \in Nat /\ e.left \in Nat
  BY <1>1 DEF Merged, BpeInv, Queued, Syms
<1>3. /\ e.left + p + q <= Len(word) + 1
      /\ e.text = TextOf(e.left, p) \o TextOf(e.left + p, q)
      /\ e.rank \in Ranks(TextOf(e.left, p), TextOf(e.left + p, q))
      /\ e.rank = Rank(TextOf(e.left, p), TextOf(e.left + p, q))
      /\ \/ n[e.left] = 0
         \/ n[e.left] >= p + q
         \/ n[e.left] = p /\ n[e.left + p] >= q
  BY DEF QueuedFor
<1>4. \/ n'[e.left] = 0
      \/ n'[e.left] >= p + q
      \/ n'[e.left] = p /\ n'[e.left + p] >= q
  <2>1. CASE e.left = r
    BY <1>1, <2>1
  <2>2. CASE e.left = l
    <3>1. n[l] >= p + q \/ (n[l] = p /\ n[r] >= q)
      <4>1. \/ n[l] = 0
            \/ n[l] >= p + q
            \/ n[l] = p /\ n[l + p] >= q
        BY <1>3, <2>2
      <4>2. n[l] # 0 /\ (n[l] = p => l + p = r)
        BY <1>1
      <4>3. QED BY <4>1, <4>2
    <3>2. n'[l] >= p + q
      BY <1>1, <1>2, <3>1
    <3>3. QED BY <2>2, <3>2
  <2>3. CASE e.left # l /\ e.left # r
    <3>1. n'[e.left] = n[e.left]
      BY <1>1, <1>2, <2>3
    <3>2. CASE n[e.left] = p /\ n[e.left + p] >= q
      <4>1. e.left \in Live
        BY <1>2, <3>2 DEF Live
      <4>2. nxt[e.left] # 0
        <5>1. nxt[e.left] = 0 => e.left + n[e.left] = Len(word) + 1
          BY <4>1 DEF BpeInv, ListIsTheWord
        <5>2. QED BY <1>1, <1>2, <1>3, <3>2, <5>1
      <4>3. nxt[e.left] = e.left + p /\ prv[e.left + p] = e.left /\ e.left + p \in Syms
        BY <3>2, <4>1, <4>2 DEF BpeInv, ListIsTheWord, Live
      <4>4. e.left + p # r
        BY <1>2, <2>3, <4>3
      <4>5. n'[e.left + p] >= n[e.left + p]
        <5>1. n[e.left + p] \in Nat
          BY <1>1, <4>3
        <5>2. CASE e.left + p = l
          BY <1>1, <1>2, <5>2
        <5>3. CASE e.left + p # l
          <6>1. n'[e.left + p] = n[e.left + p]
            BY <1>1, <4>3, <4>4, <5>3
          <6>2. QED BY <5>1, <6>1
        <5>4. QED BY <5>2, <5>3
      <4>6. n[e.left + p] \in Nat /\ n'[e.left + p] \in Nat
        <5>1. n' \in [Syms -> Nat]
          BY AroundMerge
        <5>2. QED BY <1>1, <4>3, <5>1
      <4>7. n'[e.left + p] >= q
        BY <3>2, <4>5, <4>6
      <4>8. QED BY <3>1, <3>2, <4>7
    <3>3. QED BY <1>3, <3>1, <3>2
  <2>4. QED BY <2>1, <2>2, <2>3
<1>5. QED BY <1>2, <1>3, <1>4 DEF QueuedFor, TextOf, Ranks, Rank

LEMMA MergeBpe ==
  ASSUME BpeInv, Merge
  PROVE  BpeInv'
<1> DEFINE l == Top.left
           r == nxt[l]
<1>1. Merged(l, r) /\ Top \in heap
  BY MergeMerges
<1>2. heap' = (heap \ {Top}) \cup Bigram(prv[l], l, n') \cup Bigram(l, nxt'[l], n')
  BY MergeMerges
<1> HIDE DEF l, r
<1>3. Links' /\ ListIsTheWord' /\ l \in Live' /\ Live' = Live \ {r} /\ UNCHANGED <<word, merges>>
  <2>1. Links' /\ ListIsTheWord'
    BY <1>1, MergeKeepsList
  <2>2. Live' = Live \ {r} /\ l < r /\ l \in Syms
    BY <1>1, AroundMerge
  <2>3. l \in Live /\ l # r /\ UNCHANGED <<word, merges>>
    <3>1. l \in Nat /\ r \in Nat
      BY <1>1 DEF Merged, Live, Syms
    <3>2. QED BY <1>1, <2>2, <3>1 DEF Merged
  <2>4. QED BY <2>1, <2>2, <2>3
<1>4. Live' \subseteq Syms /\ Syms' = Syms
  BY <1>3 DEF Live, Syms
<1>5. prv'[l] = prv[l]
  <2>1. l \in Syms /\ l # nxt[r]
    <3>1. /\ l \in Syms /\ r \in Syms /\ l < r /\ n[r] > 0
          /\ nxt[r] # 0 => nxt[r] = r + n[r]
          /\ n \in [Syms -> Nat] /\ Len(word) \in Nat
      BY <1>1, AroundMerge
    <3>2. QED BY <3>1 DEF Syms
  <2>2. QED BY <1>1, <2>1, AroundMerge
<1>6. Queued'
  <2>1. ASSUME NEW e \in heap'
        PROVE  /\ e.left \in Syms
               /\ e = [rank |-> e.rank, left |-> e.left, text |-> e.text]
               /\ \E p, q \in Nat \ {0} : QueuedFor(e, p, q)'
    <3>1. CASE e \in heap
      <4>1. /\ e.left \in Syms
            /\ e = [rank |-> e.rank, left |-> e.left, text |-> e.text]
        BY <3>1 DEF BpeInv, Queued
      <4>2. PICK p \in Nat \ {0}, q \in Nat \ {0} : QueuedFor(e, p, q)
        BY <3>1 DEF BpeInv, Queued
      <4>3. QueuedFor(e, p, q)'
        BY <1>1, <3>1, <4>2, OldEntry
      <4>4. QED BY <4>1, <4>3
    <3>2. CASE e \in Bigram(prv[l], l, n')
      <4>1. prv[l] # 0
        BY <3>2, BigramIs
      <4>2. prv[l] \in Live' /\ nxt'[prv[l]] = l
        BY <1>3, <1>5, <4>1 DEF Links
      <4>3. l # 0
        BY <1>3, <1>4 DEF Syms
      <4>4. l = prv[l] + n'[prv[l]]
        BY <1>3, <4>2, <4>3 DEF ListIsTheWord
      <4>5. QED BY <1>1, <1>3, <3>2, <4>2, <4>4, NewEntry
    <3>3. CASE e \in Bigram(l, nxt'[l], n')
      <4>1. nxt'[l] # 0
        BY <3>3, BigramIs
      <4>2. nxt'[l] \in Live' /\ nxt'[l] = l + n'[l]
        BY <1>3, <4>1 DEF ListIsTheWord
      <4>3. QED BY <1>1, <1>3, <3>3, <4>2, NewEntry
    <3>4. QED BY <1>2, <2>1, <3>1, <3>2, <3>3
  <2>2. QED BY <1>4, <2>1 DEF Queued
<1>7. HeapComplete'
  <2>1. ASSUME NEW i \in Live', nxt'[i] # 0
        PROVE  Bigram(i, nxt'[i], n') \subseteq heap'
    <3>1. nxt'[i] \in Live' /\ prv'[nxt'[i]] = i
      BY <1>3, <2>1 DEF ListIsTheWord
    <3>2. CASE i = l
      BY <1>2, <3>2
    <3>3. CASE nxt'[i] = l
      <4>1. i = prv[l]
        BY <1>5, <3>1, <3>3
      <4>2. QED BY <1>2, <3>3, <4>1
    <3>4. CASE i # l /\ nxt'[i] # l
      <4>1. /\ \A j \in Syms : j # l /\ j # r => n'[j] = n[j]
            /\ \A j \in Syms : j # l => nxt'[j] = nxt[j]
        BY <1>1, AroundMerge
      <4>2. i \in Syms /\ i # r /\ i \in Live /\ nxt'[i] \in Syms /\ nxt'[i] # r
        BY <1>3, <1>4, <3>1
      <4>3. nxt'[i] = nxt[i] /\ n'[i] = n[i] /\ n'[nxt[i]] = n[nxt[i]]
        BY <3>4, <4>1, <4>2
      <4>4. Bigram(i, nxt'[i], n') = Bigram(i, nxt[i], n)
        BY <4>3 DEF Bigram
      <4>5. Bigram(i, nxt[i], n) \subseteq heap
        BY <2>1, <4>2, <4>3 DEF BpeInv, HeapComplete
      <4>6. Top \notin Bigram(i, nxt[i], n)
        BY <3>4, BigramIs DEF l
      <4>7. QED BY <1>2, <4>4, <4>5, <4>6
    <3>5. QED BY <3>2, <3>3, <3>4
  <2>2. ASSUME NEW i \in Live'
        PROVE  Bigram(i, nxt[i], n)' = Bigram(i, nxt'[i], n')
    BY <1>3 DEF Bigram, TextOf, Ranks, Rank
  <2>3. QED BY <2>1, <2>2 DEF HeapComplete
<1>8. QED BY <1>3, <1>6, <1>7 DEF BpeInv

LEMMA NextBpe == BpeInv /\ [BpeNext]_bpeVars => BpeInv'
<1> SUFFICES ASSUME BpeInv, [BpeNext]_bpeVars PROVE BpeInv'
  OBVIOUS
<1>1. CASE Skip
  BY <1>1, SkipBpe
<1>2. CASE Merge
  BY <1>2, MergeBpe
<1>3. CASE UNCHANGED <<word, merges, n, nxt, prv, heap>>
  <2>1. Links'
    BY <1>3 DEF BpeInv, Links, Live, Syms
  <2>2. ListIsTheWord'
    BY <1>3 DEF BpeInv, ListIsTheWord, Live, Syms
  <2>3. Queued'
    BY <1>3, QueuedKept DEF BpeInv
  <2>4. HeapComplete'
    <3>1. ASSUME NEW i \in Syms
          PROVE  Bigram(i, nxt[i], n)' = Bigram(i, nxt[i], n)
      BY <1>3 DEF Bigram, TextOf, Ranks, Rank
    <3>2. Live' = Live /\ Live \subseteq Syms
      BY <1>3 DEF Live, Syms
    <3>3. QED BY <1>3, <3>1, <3>2 DEF BpeInv, HeapComplete
  <2>5. QED BY <2>1, <2>2, <2>3, <2>4 DEF BpeInv
<1>4. Emit \/ UNCHANGED bpeVars => UNCHANGED <<word, merges, n, nxt, prv, heap>>
  BY DEF Emit, bpeVars
<1>5. QED BY <1>1, <1>2, <1>3, <1>4 DEF BpeNext

THEOREM BpeInvariance == BpeSpec => []BpeInv
<1>1. QED BY InitBpe, NextBpe, PTL DEF BpeSpec

\* After every pop, stale entries included, the linked list is the word, an entry
\* that passes the stale test is the pair it was queued for, although the test
\* compares texts only, and no two neighbours with a merge are forgotten.
THEOREM QueueMatchesList == BpeSpec => []QueueSound
<1>1. BpeInv => QueueSound
  <2>1. BpeInv => FreshIsItsPair
    BY FreshEntry DEF BpeInv, FreshIsItsPair
  <2>2. QED BY <2>1 DEF BpeInv, QueueSound
<1>2. QED BY <1>1, BpeInvariance, PTL

-----------------------------------------------------------------------------
\* Two neighbours that have a merge.
Mergeable(i) ==
  /\ i \in Live /\ nxt[i] # 0
  /\ Ranks(TextOf(i, n[i]), TextOf(nxt[i], n[nxt[i]])) # {}

RankAt(i) == Rank(TextOf(i, n[i]), TextOf(nxt[i], n[nxt[i]]))

\* The pair of the lowest rank, the leftmost of them.
BestPair(l) ==
  /\ Mergeable(l)
  /\ \A i : Mergeable(i) => RankAt(l) < RankAt(i) \/ (RankAt(l) = RankAt(i) /\ l <= i)

\* Two neighbours that have a merge are in the heap under their rank.
LEMMA MergeableIsQueued ==
  ASSUME BpeInv, NEW i, Mergeable(i)
  PROVE  \E e \in heap : e.left = i /\ e.rank = RankAt(i)
<1>1. Bigram(i, nxt[i], n) \subseteq heap /\ i # 0 /\ nxt[i] # 0
  BY DEF Mergeable, BpeInv, HeapComplete, Live, Syms
<1> DEFINE e == [rank |-> RankAt(i), left |-> i,
                 text |-> TextOf(i, n[i]) \o TextOf(nxt[i], n[nxt[i]])]
<1>2. e \in Bigram(i, nxt[i], n)
  BY <1>1 DEF Bigram, Mergeable, RankAt
<1>3. QED BY <1>1, <1>2

\* The pair that is merged is the best.
LEMMA MergeTakesBest ==
  ASSUME BpeInv, Merge
  PROVE  BestPair(Top.left)
<1>1. heap # {} /\ ~Stale(Top)
  BY DEF Merge
<1>2. merges \in Tables /\ Queued
  BY DEF BpeInv, Links
<1>3. Top \in heap /\ \A f \in heap : Before(Top, f)
  BY <1>1, <1>2, TopIsFirst
<1>4. /\ Top.left \in Live /\ nxt[Top.left] \in Live
      /\ Top.rank \in Ranks(TextOf(Top.left, n[Top.left]),
                            TextOf(nxt[Top.left], n[nxt[Top.left]]))
      /\ Top.rank = RankAt(Top.left)
  BY <1>1, <1>3, FreshEntry DEF BpeInv, RankAt
<1>5. Mergeable(Top.left)
  BY <1>4 DEF Mergeable, Live, Syms
<1>6. ASSUME NEW i, Mergeable(i)
      PROVE  RankAt(Top.left) < RankAt(i) \/ (RankAt(Top.left) = RankAt(i) /\ Top.left <= i)
  <2>1. PICK e \in heap : e.left = i /\ e.rank = RankAt(i)
    BY <1>6, MergeableIsQueued
  <2>2. Before(Top, e)
    BY <1>3
  <2>3. QED BY <1>4, <2>1, <2>2 DEF Before
<1>7. QED BY <1>5, <1>6 DEF BestPair

\* What the loop takes from the heap and merges is the pair the rule of
\* byte-pair encoding takes: of all neighbours with a merge those of the lowest
\* rank, the leftmost of them; and it stops when no two neighbours have one.
THEOREM MergesTheBest ==
  BpeSpec => [][/\ Merge => BestPair(Top.left)
                /\ Emit => \A i : ~Mergeable(i)]_bpeVars
<1>1. ASSUME BpeInv, Merge PROVE BestPair(Top.left)
  BY <1>1, MergeTakesBest
<1>2. ASSUME BpeInv, Emit, NEW i, Mergeable(i) PROVE FALSE
  BY <1>2, MergeableIsQueued DEF Emit
<1>3. BpeInv /\ [BpeNext]_bpeVars =>
        [/\ Merge => BestPair(Top.left)
         /\ Emit => \A i : ~Mergeable(i)]_bpeVars
  BY <1>1, <1>2
<1>4. QED BY <1>3, BpeInvariance, PTL DEF BpeSpec

-----------------------------------------------------------------------------
\* The texts of the symbols, and the tokens pushed for each.
Texts == [i \in Syms |-> TextOf(i, n[i])]
Toks == [i \in Syms |-> TokensOf(TextOf(i, n[i]))]

\* Only the first symbol has nothing to its left; what was pushed are the tokens of
\* the symbols as they stand.
OneHead == \A i \in Live : prv[i] = 0 => i = 1
Pushed == at = "done" => out = Flat(Toks)
WordInv == BpeInv /\ OneHead /\ Pushed

\* The invariant of the finished word holds at first ...
LEMMA InitWord == BpeInit => WordInv
<1> SUFFICES ASSUME BpeInit PROVE WordInv
  OBVIOUS
<1>1. BpeInv
  BY InitBpe
<1>2. OneHead
  BY DEF OneHead, BpeInit, Live, Syms
<1>3. Pushed
  BY DEF Pushed, BpeInit
<1>4. QED BY <1>1, <1>2, <1>3 DEF WordInv

\* ... and after every step.
LEMMA NextWord == WordInv /\ [BpeNext]_bpeVars => WordInv'
<1> SUFFICES ASSUME WordInv, [BpeNext]_bpeVars PROVE WordInv'
  OBVIOUS
<1>1. BpeInv /\ BpeInv'
  BY NextBpe DEF WordInv
<1>2. CASE Skip
  <2>1. UNCHANGED <<at, word, n, prv, out>> /\ at = "merge"
    BY <1>2 DEF Skip
  <2>2. OneHead'
    BY <2>1 DEF WordInv, OneHead, Live, Syms
  <2>3. Pushed'
    BY <2>1 DEF Pushed
  <2>4. QED BY <1>1, <2>2, <2>3 DEF WordInv
<1>3. CASE Merge
  <2>1. at' = "merge"
    BY <1>3 DEF Merge
  <2>2. PICK l, r : Merged(l, r)
    BY <1>1, <1>3, MergeMerges
  <2>3. /\ l \in Syms /\ Live' = Live \ {r}
        /\ \A i \in Syms : i # nxt[r] => prv'[i] = prv[i]
        /\ nxt[r] # 0 => prv'[nxt[r]] = l
        /\ nxt[r] # 0 => nxt[r] \in Live
    BY <1>1, <2>2, AroundMerge
  <2>4. l # 0
    BY <2>3 DEF Syms
  <2>5. ASSUME NEW i \in Live', prv'[i] = 0 PROVE i = 1
    <3>1. i \in Live /\ i \in Syms
      BY <2>3, <2>5 DEF Live
    <3>2. i # nxt[r]
      <4>1. CASE i = nxt[r]
        <5>1. nxt[r] # 0
          BY <3>1, <4>1 DEF Syms
        <5>2. QED BY <2>3, <2>4, <2>5, <4>1, <5>1
      <4>2. QED BY <4>1
    <3>3. prv[i] = 0
      BY <2>3, <2>5, <3>1, <3>2
    <3>4. QED BY <3>1, <3>3 DEF WordInv, OneHead
  <2>6. OneHead'
    BY <2>5 DEF OneHead
  <2>7. Pushed'
    BY <2>1 DEF Pushed
  <2>8. QED BY <1>1, <2>6, <2>7 DEF WordInv
<1>4. CASE Emit
  <2>1. UNCHANGED <<word, n, prv, lacks>> /\ out' = Flat(Toks)
    BY <1>4 DEF Emit, Toks
  <2>2. OneHead'
    BY <2>1 DEF WordInv, OneHead, Live, Syms
  <2>3. Toks' = Toks
    BY <2>1 DEF Toks, TokensOf, TextOf, Syms
  <2>4. QED BY <1>1, <2>1, <2>2, <2>3 DEF WordInv, Pushed
<1>5. CASE UNCHANGED bpeVars
  <2>1. UNCHANGED <<at, word, n, prv, out, lacks>>
    BY <1>5 DEF bpeVars
  <2>2. OneHead'
    BY <2>1 DEF WordInv, OneHead, Live, Syms
  <2>3. Toks' = Toks
    BY <2>1 DEF Toks, TokensOf, TextOf, Syms
  <2>4. QED BY <1>1, <2>1, <2>2, <2>3 DEF WordInv, Pushed
<1>6. QED BY <1>2, <1>3, <1>4, <1>5 DEF BpeNext

\* No symbol that is alive lies inside the text of another: of those that did, the
\* least would have a neighbour on its left that did, or be inside of which one did.
LEMMA NoneInside ==
  ASSUME BpeInv, OneHead, NEW i \in Live, NEW j \in Live, i < j
  PROVE  i + n[i] <= j
<1> DEFINE T == {k \in Live : \E b \in Live : b < k /\ k < b + n[b]}
<1>0. /\ Live \subseteq Syms /\ Syms \subseteq Nat /\ Len(word) \in Nat
      /\ \A k \in Live : n[k] \in Nat \ {0} /\ k \in Nat \ {0}
  <2>1. Len(word) \in Nat /\ Live \subseteq Syms /\ Syms \subseteq Nat
    BY DEF BpeInv, Links, Live, Syms
  <2>2. n \in [Syms -> Nat]
    BY DEF BpeInv, Links
  <2>3. \A k \in Live : n[k] # 0 /\ k # 0
    BY DEF Live, Syms
  <2>4. QED BY <2>1, <2>2, <2>3
<1>1. ASSUME T # {} PROVE FALSE
  <2>1. PICK m \in T : \A k \in T : m <= k
    <3> HIDE DEF T
    <3>1. T \in SUBSET Nat
      BY <1>0 DEF T
    <3>2. QED BY <1>1, <3>1, LeastNat, Zenon
  <2>2. PICK b \in Live : m \in Live /\ b < m /\ m < b + n[b]
    BY <2>1
  <2>3. prv[m] # 0
    BY <1>0, <2>2 DEF OneHead
  <2>4. PICK p \in Live : p = prv[m] /\ nxt[p] = m /\ m = p + n[p]
    <3>1. prv[m] \in Live /\ nxt[prv[m]] = m
      BY <2>2, <2>3 DEF BpeInv, Links
    <3>2. m # 0
      BY <1>0, <2>2
    <3>3. m = prv[m] + n[prv[m]]
      BY <3>1, <3>2 DEF BpeInv, ListIsTheWord
    <3>4. QED BY <3>1, <3>3
  <2>5. p \in Nat /\ b \in Nat /\ m \in Nat /\ n[p] \in Nat \ {0} /\ n[b] \in Nat
    BY <1>0, <2>2, <2>4
  <2>6. p # b /\ p < m
    BY <2>2, <2>4, <2>5
  <2>7. CASE b < p
    <3>1. p < b + n[b]
      BY <2>2, <2>5, <2>6
    <3>2. p \in T
      BY <2>7, <3>1
    <3>3. m <= p
      BY <2>1, <3>2
    <3>4. QED BY <2>5, <2>6, <3>3
  <2>8. CASE p < b
    <3>1. b \in T
      BY <2>2, <2>4, <2>8
    <3>2. m <= b
      BY <2>1, <3>1
    <3>3. QED BY <2>2, <2>5, <3>2
  <2>9. QED BY <2>5, <2>6, <2>7, <2>8
<1>2. j \notin T
  BY <1>1
<1>3. ~(j < i + n[i])
  BY <1>2
<1>4. QED BY <1>0, <1>3

\* The text of a symbol is its part of the word, none when it was merged away.
LEMMA TextsAre ==
  ASSUME BpeInv
  PROVE  /\ Texts \in Seq(Seq(Char)) /\ Len(Texts) = Len(word) /\ Len(word) \in Nat
         /\ \A i \in 1..Len(word) : /\ Texts[i] = TextOf(i, n[i]) /\ TextOf(i, n[i]) \in Seq(Char)
                                    /\ Len(TextOf(i, n[i])) = n[i]
                                    /\ n[i] \in Nat
<1>1. word \in Seq(Char) /\ Len(word) \in Nat /\ Syms = 1..Len(word) /\ n \in [Syms -> Nat]
  BY DEF BpeInv, Links, Syms
<1>2. ASSUME NEW i \in Syms PROVE TextOf(i, n[i]) \in Seq(Char) /\ Len(TextOf(i, n[i])) = n[i]
  <2>1. i \in Nat \ {0} /\ n[i] \in Nat
    BY <1>1
  <2>2. i + n[i] <= Len(word) + 1
    <3>1. CASE n[i] = 0
      BY <1>1, <3>1
    <3>2. CASE n[i] # 0
      BY <3>2 DEF BpeInv, Links, Live
    <3>3. QED BY <3>1, <3>2
  <2>3. QED BY <1>1, <2>1, <2>2, TextLength, Zenon
<1>3. PICK ts : ts = Texts
  OBVIOUS
<1>4. ts \in [1..Len(word) -> Seq(Char)] /\ \A i \in 1..Len(word) : ts[i] = TextOf(i, n[i])
  BY <1>1, <1>2, <1>3 DEF Texts
<1>5. ts \in Seq(Seq(Char)) /\ Len(ts) = Len(word)
  BY <1>1, <1>4
<1>6. QED BY <1>1, <1>2, <1>3, <1>4, <1>5

\* The texts of the first symbols are the word up to the next symbol that is alive.
UpTo(j, e) ==
  /\ e \in (j + 1)..(Len(word) + 1)
  /\ \A i \in Live : ~(j < i /\ i < e)
  /\ e = Len(word) + 1 \/ e \in Live
  /\ Together(Texts)[j] = SubSeq(word, 1, e - 1)

\* It holds of any number of first symbols.
LEMMA TextsCover ==
  ASSUME BpeInv, OneHead
  PROVE  \A j \in 0..Len(word) : \E e : UpTo(j, e)
<1>0. /\ word \in Seq(Char) /\ Len(word) \in Nat /\ Live \subseteq 1..Len(word)
      /\ \A k \in Live : n[k] \in Nat \ {0} /\ k + n[k] <= Len(word) + 1
                          /\ (k + n[k] = Len(word) + 1 \/ k + n[k] \in Live)
  <2>1. word \in Seq(Char) /\ Len(word) \in Nat /\ Live \subseteq 1..Len(word)
    BY DEF BpeInv, Links, Live, Syms
  <2>2. n \in [Syms -> Nat]
    BY DEF BpeInv, Links
  <2>3. \A k \in Live : n[k] # 0 /\ k \in Syms
    BY DEF Live
  <2>4. \A k \in Live : k + n[k] <= Len(word) + 1
    BY DEF BpeInv, Links
  <2>5. \A k \in Live : k + n[k] = Len(word) + 1 \/ k + n[k] \in Live
    BY DEF BpeInv, ListIsTheWord
  <2>6. QED BY <2>1, <2>2, <2>3, <2>4, <2>5
<1>1. /\ Texts \in Seq(Seq(Char)) /\ Len(Texts) = Len(word)
      /\ \A i \in 1..Len(word) : Texts[i] = TextOf(i, n[i])
  BY TextsAre
<1>2. Together(Texts)[0] = <<>>
      /\ \A i \in 1..Len(word) : Together(Texts)[i] = Together(Texts)[i - 1] \o Texts[i]
  BY <1>0, <1>1, TogetherIs
<1> DEFINE T == {j \in 0..Len(word) : ~ \E e : UpTo(j, e)}
<1>3. SUFFICES ASSUME T # {} PROVE FALSE
  BY Zenon
<1>4. PICK m \in T : \A k \in T : m <= k
  <2> HIDE DEF T
  <2>1. T \in SUBSET Nat
    BY <1>0 DEF T
  <2>2. QED BY <1>3, <2>1, LeastNat, Zenon
<1>5. m \in 0..Len(word) /\ ~ \E e : UpTo(m, e)
  BY <1>4, Zenon
<1>6. CASE m = 0
  <2>1. SubSeq(word, 1, 0) = <<>>
    BY <1>0
  <2>2. CASE word = <<>>
    <3>1. Len(word) = 0 /\ 1 \in (0 + 1)..(Len(word) + 1) /\ 1 - 1 = 0
      BY <2>2
    <3>2. \A i \in Live : ~(0 < i /\ i < 1)
      BY <1>0
    <3>3. UpTo(0, 1)
      BY <1>2, <2>1, <3>1, <3>2 DEF UpTo
    <3>4. QED BY <1>5, <1>6, <3>3, Zenon
  <2>3. CASE word # <<>>
    <3>1. 1 \in Live
      BY <2>3 DEF BpeInv, ListIsTheWord
    <3>2. 1 \in (0 + 1)..(Len(word) + 1) /\ 1 - 1 = 0
      BY <1>0
    <3>3. \A i \in Live : ~(0 < i /\ i < 1)
      BY <1>0
    <3>4. UpTo(0, 1)
      BY <1>2, <2>1, <3>1, <3>2, <3>3 DEF UpTo
    <3>5. QED BY <1>5, <1>6, <3>4, Zenon
  <2>4. QED BY <2>2, <2>3
<1>7. CASE m # 0
  <2>1. m \in 1..Len(word) /\ m - 1 \in 0..Len(word) /\ m - 1 < m
    BY <1>0, <1>5, <1>7
  <2>2. m - 1 \notin T
    <3> HIDE DEF T
    <3>1. ~(m <= m - 1)
      BY <2>1
    <3>2. QED BY <1>4, <3>1, Zenon
  <2>3. PICK e : UpTo(m - 1, e)
    BY <2>1, <2>2, Zenon
  <2>4. /\ e \in m..(Len(word) + 1) /\ \A i \in Live : ~(m - 1 < i /\ i < e)
        /\ e = Len(word) + 1 \/ e \in Live
        /\ Together(Texts)[m - 1] = SubSeq(word, 1, e - 1)
    BY <2>1, <2>3 DEF UpTo
  <2>5. Together(Texts)[m] = SubSeq(word, 1, e - 1) \o TextOf(m, n[m])
    BY <1>1, <1>2, <2>1, <2>4
  <2>6. CASE m \notin Live
    <3>1. n[m] = 0
      BY <2>1, <2>6 DEF Live, Syms
    <3>2. TextOf(m, n[m]) = <<>>
      <4>1. m + n[m] - 1 < m /\ m \in Int /\ m + n[m] - 1 \in Int
        BY <2>1, <3>1
      <4>2. QED BY <1>0, <4>1 DEF TextOf
    <3>3. e # m
      <4>1. CASE e = Len(word) + 1
        BY <1>0, <2>1, <4>1
      <4>2. CASE e \in Live
        BY <2>6, <4>2
      <4>3. QED BY <2>4, <4>1, <4>2
    <3>4. SubSeq(word, 1, e - 1) \in Seq(Char)
      BY <1>0, <2>1, <2>4
    <3>5. Together(Texts)[m] = SubSeq(word, 1, e - 1)
      <4>1. PICK u : u = SubSeq(word, 1, e - 1)
        OBVIOUS
      <4>2. u \o <<>> = u
        BY <3>4, <4>1
      <4>3. QED BY <2>5, <3>2, <4>1, <4>2
    <3>6. e \in (m + 1)..(Len(word) + 1) /\ \A i \in Live : ~(m < i /\ i < e)
      BY <1>0, <2>1, <2>4, <3>3
    <3>7. UpTo(m, e)
      BY <2>4, <3>5, <3>6 DEF UpTo
    <3>8. QED BY <1>5, <3>7, Zenon
  <2>7. CASE m \in Live
    <3>1. e = m
      BY <1>0, <2>1, <2>4, <2>7
    <3>2. PICK f : f = m + n[m]
      OBVIOUS
    <3>3. /\ f \in (m + 1)..(Len(word) + 1)
          /\ f = Len(word) + 1 \/ f \in Live
          /\ n[m] \in Nat \ {0} /\ m \in Int
      BY <1>0, <2>1, <2>7, <3>2
    <3>4. ASSUME NEW i \in Live PROVE ~(m < i /\ i < f)
      <4>1. ASSUME m < i PROVE f <= i
        BY <2>7, <3>2, <4>1, NoneInside, Zenon
      <4>2. f \in Int /\ i \in Int
        BY <1>0, <3>3
      <4>3. QED BY <4>1, <4>2
    <3>5. Together(Texts)[m] = SubSeq(word, 1, f - 1)
      <4>1. TextOf(m, n[m]) = SubSeq(word, m, f - 1)
        <5>1. TextOf(m, n[m]) = SubSeq(word, m, m + n[m] - 1)
          BY DEF TextOf
        <5>2. m + n[m] - 1 = f - 1
          BY <3>2, <3>3
        <5>3. QED BY <5>1, <5>2
      <4>2. PICK k : k = m - 1
        OBVIOUS
      <4>3. PICK g : g = f - 1
        OBVIOUS
      <4>4. 1 \in 1..(Len(word) + 1) /\ k \in (1 - 1)..Len(word) /\ g \in k..Len(word) /\ k + 1 = m
        <5>1. k \in 0..Len(word) /\ k + 1 = m
          BY <1>0, <2>1, <4>2
        <5>2. g \in k..Len(word)
          BY <1>0, <2>1, <3>3, <4>2, <4>3
        <5>3. QED BY <1>0, <5>1, <5>2
      <4>5. SubSeq(word, 1, k) \o SubSeq(word, k + 1, g) = SubSeq(word, 1, g)
        BY <1>0, <4>4, ConcatAdjacentSubSeq
      <4>6. QED BY <2>5, <3>1, <4>1, <4>2, <4>3, <4>4, <4>5
    <3>6. UpTo(m, f)
      BY <3>3, <3>4, <3>5 DEF UpTo
    <3>7. QED BY <1>5, <3>6, Zenon
  <2>8. QED BY <2>6, <2>7
<1>8. QED BY <1>6, <1>7

\* The texts of the symbols are the word.
LEMMA TextsAreTheWord ==
  ASSUME BpeInv, OneHead
  PROVE  Flat(Texts) = word
<1>1. word \in Seq(Char) /\ Len(word) \in Nat
  BY DEF BpeInv, Links
<1>2. Len(word) \in 0..Len(word)
  BY <1>1
<1>3. PICK e : UpTo(Len(word), e)
  BY <1>2, TextsCover, Zenon
<1>4. e = Len(word) + 1 /\ Together(Texts)[Len(word)] = SubSeq(word, 1, e - 1)
  BY <1>1, <1>3 DEF UpTo
<1>5. SubSeq(word, 1, Len(word)) = word
  BY <1>1
<1>6. Len(Texts) = Len(word)
  BY TextsAre
<1>7. QED BY <1>1, <1>4, <1>5, <1>6 DEF Flat

\* The tokens of a piece spell its characters that have a byte token, and all of them
\* when the vocabulary has the piece.
LEMMA TokensSpell ==
  ASSUME NEW p \in Seq(Char)
  PROVE  /\ TokensOf(p) \in Seq(Seq(Char))
         /\ Sifted(Flat(TokensOf(p)), Ascii) = Sifted(p, Ascii)
         /\ p \notin lacks => Flat(TokensOf(p)) = p
<1>1. CASE p = <<>>
  <2>1. TokensOf(p) = <<>> /\ Flat(TokensOf(p)) = <<>>
    BY <1>1, FlatOne DEF TokensOf
  <2>2. Flat(TokensOf(p)) = p
    BY <1>1, <2>1
  <2>3. Sifted(Flat(TokensOf(p)), Ascii) = Sifted(p, Ascii)
    BY <2>2, Zenon
  <2>4. TokensOf(p) \in Seq(Seq(Char))
    BY <2>1
  <2>5. QED BY <2>2, <2>3, <2>4
<1>2. CASE p # <<>> /\ p \notin lacks
  <2>1. TokensOf(p) = <<p>>
    BY <1>2 DEF TokensOf
  <2>2. Flat(<<p>>) = p
    BY FlatOne, Zenon
  <2>3. <<p>> \in Seq(Seq(Char))
    OBVIOUS
  <2>4. QED BY <2>1, <2>2, <2>3
<1>3. CASE p # <<>> /\ p \in lacks
  <2>1. PICK s : s = Sifted(p, Ascii)
    OBVIOUS
  <2>2. s \in Seq(Char) /\ \A k \in 1..Len(s) : s[k] \in Ascii
    BY <2>1, SiftedIs, Zenon
  <2>3. PICK ss : ss = [i \in DOMAIN s |-> <<s[i]>>]
    OBVIOUS
  <2>4. TokensOf(p) = ss
    BY <1>3, <2>1, <2>3, Zenon DEF TokensOf, AsciiOf
  <2>5. ss \in Seq(Seq(Char)) /\ Flat(ss) = s
    BY <2>2, <2>3, FlatSingles, Zenon
  <2>6. Sifted(s, Ascii) = s
    BY <2>2, SiftedAll, Zenon
  <2>7. QED BY <1>3, <2>1, <2>4, <2>5, <2>6
<1>4. QED BY <1>1, <1>2, <1>3

\* The tokens of the first symbols spell what their texts do.
LEMMA FirstTokensSpell ==
  ASSUME BpeInv
  PROVE  /\ Toks \in Seq(Seq(Seq(Char)))
         /\ Len(Toks) = Len(word)
         /\ \A i \in 1..Len(word) : Toks[i] = TokensOf(TextOf(i, n[i]))
         /\ \A j \in 0..Len(word) :
              Sifted(Flat(Together(Toks)[j]), Ascii) = Sifted(Together(Texts)[j], Ascii)
<1>0. /\ Texts \in Seq(Seq(Char)) /\ Len(Texts) = Len(word) /\ Len(word) \in Nat
      /\ \A i \in 1..Len(word) : Texts[i] = TextOf(i, n[i]) /\ TextOf(i, n[i]) \in Seq(Char)
  BY TextsAre
<1>1. /\ Toks \in Seq(Seq(Seq(Char))) /\ Len(Toks) = Len(word)
      /\ \A i \in 1..Len(word) : Toks[i] = TokensOf(TextOf(i, n[i]))
  <2>1. \A i \in 1..Len(word) : TokensOf(TextOf(i, n[i])) \in Seq(Seq(Char))
    BY <1>0, TokensSpell
  <2>2. PICK ts : ts = Toks
    OBVIOUS
  <2>3. ts \in [1..Len(word) -> Seq(Seq(Char))] /\ \A i \in 1..Len(word) : ts[i] = TokensOf(TextOf(i, n[i]))
    BY <2>1, <2>2 DEF Toks, Syms
  <2>4. ts \in Seq(Seq(Seq(Char))) /\ Len(ts) = Len(word)
    <3>1. PICK X : X = Seq(Seq(Char))
      OBVIOUS
    <3>2. PICK k \in Nat : k = Len(word)
      BY <1>0
    <3>3. ts \in [1..k -> X]
      BY <2>3, <3>1, <3>2
    <3>4. ts \in Seq(X) /\ Len(ts) = k
      BY <3>2, <3>3
    <3>5. QED BY <3>1, <3>2, <3>4
  <2>5. QED BY <2>2, <2>3, <2>4
<1>2. /\ Together(Toks)[0] = <<>> /\ Together(Texts)[0] = <<>>
      /\ \A i \in 1..Len(word) : Together(Toks)[i] = Together(Toks)[i - 1] \o Toks[i]
      /\ \A i \in 1..Len(word) : Together(Texts)[i] = Together(Texts)[i - 1] \o Texts[i]
  BY <1>0, <1>1, TogetherIs
<1>3. /\ \A j \in 0..Len(word) : Together(Toks)[j] \in Seq(Seq(Char))
      /\ \A j \in 0..Len(word) : Together(Texts)[j] \in Seq(Char)
  BY <1>0, <1>1, TogetherSeqs
<1> DEFINE T == {j \in 0..Len(word) :
                   Sifted(Flat(Together(Toks)[j]), Ascii) # Sifted(Together(Texts)[j], Ascii)}
<1>4. ASSUME T # {} PROVE FALSE
  <2>1. PICK m \in T : \A k \in T : m <= k
    <3> HIDE DEF T
    <3>1. T \in SUBSET Nat
      BY <1>0 DEF T
    <3>2. QED BY <1>4, <3>1, LeastNat, Zenon
  <2>2. m \in 0..Len(word) /\ Sifted(Flat(Together(Toks)[m]), Ascii) # Sifted(Together(Texts)[m], Ascii)
    BY <2>1, Zenon
  <2>3. m # 0
    <3>1. Flat(<<>>) = <<>>
      <4>1. <<>> \in Seq(Char)
        OBVIOUS
      <4>2. QED BY <4>1, FlatOne, Zenon
    <3>2. QED BY <1>2, <2>2, <3>1, Zenon
  <2>4. m \in 1..Len(word) /\ m - 1 \in 0..Len(word) /\ m - 1 < m
    BY <1>0, <2>2, <2>3
  <2>5. m - 1 \notin T
    <3> HIDE DEF T
    <3>1. ~(m <= m - 1)
      BY <2>4
    <3>2. QED BY <2>1, <3>1, Zenon
  <2>6. PICK us : us = Together(Toks)[m - 1]
    OBVIOUS
  <2>7. PICK vs : vs = TokensOf(TextOf(m, n[m]))
    OBVIOUS
  <2>8. PICK s : s = Together(Texts)[m - 1]
    OBVIOUS
  <2>9. PICK t : t = TextOf(m, n[m])
    OBVIOUS
  <2>10. /\ us \in Seq(Seq(Char)) /\ vs \in Seq(Seq(Char)) /\ s \in Seq(Char) /\ t \in Seq(Char)
    BY <1>0, <1>3, <2>4, <2>6, <2>7, <2>8, <2>9, TokensSpell
  <2>11. Together(Toks)[m] = us \o vs /\ Together(Texts)[m] = s \o t
    BY <1>0, <1>1, <1>2, <2>4, <2>6, <2>7, <2>8, <2>9, Zenon
  <2>12. Sifted(Flat(us), Ascii) = Sifted(s, Ascii)
    BY <2>4, <2>5, <2>6, <2>8, Zenon
  <2>13. Sifted(Flat(vs), Ascii) = Sifted(t, Ascii)
    BY <2>7, <2>9, <2>10, TokensSpell, Zenon
  <2>14. Flat(us \o vs) = Flat(us) \o Flat(vs)
    BY <2>10, FlatBoth, Zenon
  <2>15. Flat(us) \in Seq(Char) /\ Flat(vs) \in Seq(Char)
    BY <2>10, JoinedIsSeq, Zenon
  <2>16. Sifted(Flat(us) \o Flat(vs), Ascii) = Sifted(Flat(us), Ascii) \o Sifted(Flat(vs), Ascii)
    BY <2>15, SiftedBoth
  <2>17. Sifted(s \o t, Ascii) = Sifted(s, Ascii) \o Sifted(t, Ascii)
    BY <2>10, SiftedBoth
  <2>18. QED BY <2>2, <2>11, <2>12, <2>13, <2>14, <2>16, <2>17, Zenon
<1>5. QED BY <1>1, <1>4

\* And when the vocabulary has the text of every symbol, they spell it all.
LEMMA KnownTokensSpell ==
  ASSUME BpeInv, \A i \in Live : TextOf(i, n[i]) \notin lacks
  PROVE  \A j \in 0..Len(word) : Flat(Together(Toks)[j]) = Together(Texts)[j]
<1>0. /\ Texts \in Seq(Seq(Char)) /\ Len(Texts) = Len(word) /\ Len(word) \in Nat
      /\ \A i \in 1..Len(word) : Texts[i] = TextOf(i, n[i]) /\ TextOf(i, n[i]) \in Seq(Char)
                                 /\ Len(TextOf(i, n[i])) = n[i]
  BY TextsAre
<1>1. /\ Toks \in Seq(Seq(Seq(Char))) /\ Len(Toks) = Len(word)
      /\ \A i \in 1..Len(word) : Toks[i] = TokensOf(TextOf(i, n[i]))
  BY FirstTokensSpell
<1>2. /\ Together(Toks)[0] = <<>> /\ Together(Texts)[0] = <<>>
      /\ \A i \in 1..Len(word) : Together(Toks)[i] = Together(Toks)[i - 1] \o Toks[i]
      /\ \A i \in 1..Len(word) : Together(Texts)[i] = Together(Texts)[i - 1] \o Texts[i]
  BY <1>0, <1>1, TogetherIs
<1>3. \A j \in 0..Len(word) : Together(Toks)[j] \in Seq(Seq(Char))
  BY <1>0, <1>1, TogetherSeqs
<1>4. \A i \in 1..Len(word) : Flat(TokensOf(TextOf(i, n[i]))) = TextOf(i, n[i])
  <2>1. ASSUME NEW i \in 1..Len(word) PROVE Flat(TokensOf(TextOf(i, n[i]))) = TextOf(i, n[i])
    <3>1. PICK p : p = TextOf(i, n[i])
      OBVIOUS
    <3>2. p \in Seq(Char) /\ Len(p) = n[i]
      BY <1>0, <3>1
    <3>3. CASE i \in Live
      BY <3>1, <3>2, <3>3, TokensSpell
    <3>4. CASE i \notin Live
      <4>1. n[i] = 0
        BY <3>4 DEF Live, Syms
      <4>2. p = <<>>
        BY <3>2, <4>1
      <4>3. TokensOf(p) = <<>>
        BY <4>2 DEF TokensOf
      <4>4. Flat(<<>>) = <<>>
        BY <3>2, FlatOne, Zenon
      <4>5. QED BY <3>1, <4>2, <4>3, <4>4
    <3>5. QED BY <3>3, <3>4
  <2>2. QED BY <2>1
<1> DEFINE T == {j \in 0..Len(word) : Flat(Together(Toks)[j]) # Together(Texts)[j]}
<1>5. ASSUME T # {} PROVE FALSE
  <2>1. PICK m \in T : \A k \in T : m <= k
    <3> HIDE DEF T
    <3>1. T \in SUBSET Nat
      BY <1>0 DEF T
    <3>2. QED BY <1>5, <3>1, LeastNat, Zenon
  <2>2. m \in 0..Len(word) /\ Flat(Together(Toks)[m]) # Together(Texts)[m]
    BY <2>1, Zenon
  <2>3. m # 0
    <3>1. Flat(<<>>) = <<>>
      <4>1. <<>> \in Seq(Char)
        OBVIOUS
      <4>2. QED BY <4>1, FlatOne, Zenon
    <3>2. QED BY <1>2, <2>2, <3>1, Zenon
  <2>4. m \in 1..Len(word) /\ m - 1 \in 0..Len(word) /\ m - 1 < m
    BY <1>0, <2>2, <2>3
  <2>5. m - 1 \notin T
    <3> HIDE DEF T
    <3>1. ~(m <= m - 1)
      BY <2>4
    <3>2. QED BY <2>1, <3>1, Zenon
  <2>6. PICK us : us = Together(Toks)[m - 1]
    OBVIOUS
  <2>7. PICK vs : vs = TokensOf(TextOf(m, n[m]))
    OBVIOUS
  <2>8. us \in Seq(Seq(Char)) /\ vs \in Seq(Seq(Char))
    BY <1>0, <1>3, <2>4, <2>6, <2>7, TokensSpell
  <2>9. Together(Toks)[m] = us \o vs /\ Together(Texts)[m] = Together(Texts)[m - 1] \o TextOf(m, n[m])
    BY <1>0, <1>1, <1>2, <2>4, <2>6, <2>7, Zenon
  <2>10. Flat(us) = Together(Texts)[m - 1]
    BY <2>4, <2>5, <2>6, Zenon
  <2>11. Flat(vs) = TextOf(m, n[m])
    BY <1>4, <2>4, <2>7, Zenon
  <2>12. Flat(us \o vs) = Flat(us) \o Flat(vs)
    BY <2>8, FlatBoth, Zenon
  <2>13. QED BY <2>2, <2>9, <2>10, <2>11, <2>12, Zenon
<1>6. QED BY <1>5

\* The text of a symbol that is alive is one of the pieces.
LEMMA LiveIsAPiece ==
  ASSUME BpeInv, NEW i \in Live
  PROVE  \E k \in DOMAIN PiecesNow : PiecesNow[k] = TextOf(i, n[i])
<1>1. PICK ts : ts = Texts
  OBVIOUS
<1>2. /\ ts \in Seq(Seq(Char)) /\ Len(ts) = Len(word) /\ i \in 1..Len(word)
      /\ ts[i] = TextOf(i, n[i]) /\ i \in DOMAIN ts \cap Live
  BY <1>1, TextsAre DEF Live, Syms
<1>3. PICK ps : ps = Those(ts, Live)
  OBVIOUS
<1>4. ps \in Seq(Seq(Char)) /\ AllThose(ps, ts, Live)
  BY <1>2, <1>3, ThoseAre, Zenon
<1>5. PICK k \in 1..Len(ps) : ps[k] = ts[i]
  BY <1>2, <1>4 DEF AllThose
<1>6. k \in DOMAIN ps
  BY <1>4
<1>7. ps = PiecesNow
  BY <1>1, <1>3 DEF PiecesNow, Texts
<1>8. QED BY <1>2, <1>5, <1>6, <1>7

\* The tokens pushed for a finished word spell it.
LEMMA WordIsEncoded == WordInv => EncodesTheWord
<1> SUFFICES ASSUME WordInv, at = "done" PROVE
      /\ AsciiOf(Flat(out)) = AsciiOf(word)
      /\ (\A i \in DOMAIN PiecesNow : PiecesNow[i] \notin lacks) => Flat(out) = word
  BY DEF EncodesTheWord
<1>1. BpeInv /\ OneHead /\ out = Flat(Toks)
  BY DEF WordInv, Pushed
<1>2. Len(Toks) = Len(word) /\ Len(Texts) = Len(word) /\ Len(word) \in 0..Len(word)
  BY <1>1, FirstTokensSpell, TextsAre
<1>3. out = Together(Toks)[Len(word)] /\ word = Together(Texts)[Len(word)]
  BY <1>1, <1>2, TextsAreTheWord DEF Flat
<1>4. Sifted(Flat(out), Ascii) = Sifted(word, Ascii)
  BY <1>1, <1>2, <1>3, FirstTokensSpell, Zenon
<1>5. ASSUME \A i \in DOMAIN PiecesNow : PiecesNow[i] \notin lacks PROVE Flat(out) = word
  <2>1. \A i \in Live : TextOf(i, n[i]) \notin lacks
    BY <1>1, <1>5, LiveIsAPiece, Zenon
  <2>2. QED BY <1>1, <1>2, <1>3, <2>1, KnownTokensSpell, Zenon
<1>6. QED BY <1>4, <1>5 DEF AsciiOf

\* Every word's tokens spell its characters with a byte token in order, whatever the
\* vocabulary lacks, and spell the word when it has every piece (encode_word,
\* src/tokenizer.rs:543: symbols merged away are passed over by their length alone).
THEOREM WordsAreEncoded == BpeSpec => []EncodesTheWord
<1>1. QED BY InitWord, NextWord, WordIsEncoded, PTL DEF BpeSpec

-----------------------------------------------------------------------------
\* Where a symbol that is alive stands among the pieces.
Place(i) == PlaceOf(Texts, Live, i)

\* Every symbol that is alive stands at a place of its own, in order, and at every
\* place stands one.
LEMMA PlacesOfPieces ==
  ASSUME BpeInv
  PROVE  /\ PiecesNow \in Seq(Seq(Char)) /\ Len(PiecesNow) \in Nat
         /\ \A i \in Live : /\ Place(i) \in 1..Len(PiecesNow)
                            /\ PiecesNow[Place(i)] = TextOf(i, n[i])
         /\ \A i, j \in Live : i < j => Place(i) < Place(j)
         /\ \A k \in 1..Len(PiecesNow) : \E i \in Live : Place(i) = k
<1>1. PICK ts : ts = Texts
  OBVIOUS
<1>2. /\ ts \in Seq(Seq(Char)) /\ Len(ts) = Len(word) /\ Live \subseteq 1..Len(ts)
      /\ \A i \in Live : ts[i] = TextOf(i, n[i])
  BY <1>1, TextsAre DEF Live, Syms
<1>3. PiecesNow = Those(ts, Live)
  BY <1>1 DEF PiecesNow, Texts
<1>4. PiecesNow \in Seq(Seq(Char)) /\ Len(PiecesNow) \in Nat
  <2>1. PICK ps : ps = PiecesNow
    OBVIOUS
  <2>2. ps \in Seq(Seq(Char))
    BY <1>2, <1>3, <2>1, ThoseAre, Zenon
  <2>3. QED BY <2>1, <2>2
<1>5. ASSUME NEW i \in Live
      PROVE  /\ Place(i) \in 1..Len(PiecesNow)
             /\ PiecesNow[Place(i)] = TextOf(i, n[i])
  <2>1. i \in 1..Len(ts)
    BY <1>2
  <2>2. /\ PlaceOf(ts, Live, i) \in 1..Len(Those(ts, Live))
        /\ Those(ts, Live)[PlaceOf(ts, Live, i)] = ts[i]
    BY <1>2, <2>1, PlaceHolds, Zenon
  <2>3. QED BY <1>1, <1>2, <1>3, <2>2, Zenon DEF Place
<1>6. ASSUME NEW i \in Live, NEW j \in Live, i < j PROVE Place(i) < Place(j)
  <2>1. i \in 1..Len(ts) /\ j \in 1..Len(ts)
    BY <1>2
  <2>2. PlaceOf(ts, Live, i) < PlaceOf(ts, Live, j)
    BY <1>2, <1>6, <2>1, PlacesGrow, Zenon
  <2>3. QED BY <1>1, <2>2, Zenon DEF Place
<1>7. ASSUME NEW k \in 1..Len(PiecesNow) PROVE \E i \in Live : Place(i) = k
  <2>1. \E i \in 1..Len(ts) : i \in Live /\ PlaceOf(ts, Live, i) = k
    BY <1>2, <1>3, PlacesAreAll, Zenon
  <2>2. QED BY <1>1, <2>1, Zenon DEF Place
<1>8. QED BY <1>4, <1>5, <1>6, <1>7

\* A neighbour stands next to it, and the last one last.
LEMMA NeighboursPlaces ==
  ASSUME BpeInv, OneHead, NEW i \in Live
  PROVE  /\ nxt[i] # 0 => nxt[i] \in Live /\ i < nxt[i] /\ Place(nxt[i]) = Place(i) + 1
         /\ nxt[i] = 0 => Place(i) = Len(PiecesNow)
<1>1. PICK ts : ts = Texts
  OBVIOUS
<1>2. /\ ts \in Seq(Seq(Char)) /\ Len(ts) = Len(word) /\ Len(word) \in Nat
      /\ Live \subseteq 1..Len(ts) /\ Live \subseteq Syms
  BY <1>1, TextsAre DEF Live, Syms
<1>3. PiecesNow = Those(ts, Live)
  BY <1>1 DEF PiecesNow, Texts
<1>4. i \in 1..Len(ts) /\ n[i] \in Nat /\ n[i] # 0
  BY <1>2 DEF BpeInv, Links, Live
<1>5. Len(Together(Marked(ts, Live))[i]) = Place(i)
  BY <1>1, <1>2, <1>4, PlaceHolds, Zenon DEF Place
<1>6. ASSUME NEW k \in (i + 1)..(i + n[i] - 1) PROVE k \notin Live
  <2>1. ASSUME k \in Live PROVE i + n[i] <= k
    <3>1. i < k
      BY <1>2, <1>4
    <3>2. QED BY <2>1, <3>1, NoneInside, Zenon
  <2>2. ~(i + n[i] <= k)
    BY <1>2, <1>4
  <2>3. QED BY <2>1, <2>2, Zenon
<1>7. ASSUME nxt[i] # 0 PROVE nxt[i] \in Live /\ i < nxt[i] /\ Place(nxt[i]) = Place(i) + 1
  <2>1. nxt[i] \in Live /\ nxt[i] = i + n[i]
    BY <1>7 DEF BpeInv, ListIsTheWord
  <2>2. PICK j : j = nxt[i]
    OBVIOUS
  <2>3. PICK h : h = j - 1
    OBVIOUS
  <2>4. i \in 0..Len(ts) /\ h \in i..Len(ts) /\ h = i + n[i] - 1 /\ i < j
    <3>1. PICK m : m = n[i]
      OBVIOUS
    <3>2. m \in Nat \ {0} /\ j = i + m /\ h = i + m - 1 /\ j \in 1..Len(ts)
      BY <1>2, <1>4, <2>1, <2>2, <2>3, <3>1
    <3>3. i \in 0..Len(ts) /\ h \in i..Len(ts) /\ i < j
      BY <1>2, <1>4, <3>2
    <3>4. QED BY <3>1, <3>2, <3>3
  <2>5. \A k \in (i + 1)..h : k \notin Live
    BY <1>6, <2>4, Zenon
  <2>6. Together(Marked(ts, Live))[h] = Together(Marked(ts, Live))[i]
    BY <1>2, <2>4, <2>5, NoneMarked, Zenon
  <2>7. Place(j) = Len(Together(Marked(ts, Live))[h]) + 1
    BY <1>1, <2>3 DEF Place, PlaceOf
  <2>8. Place(j) = Place(i) + 1
    BY <1>5, <2>6, <2>7
  <2>9. QED BY <2>1, <2>2, <2>4, <2>8
<1>8. ASSUME nxt[i] = 0 PROVE Place(i) = Len(PiecesNow)
  <2>1. i + n[i] = Len(word) + 1
    BY <1>8 DEF BpeInv, ListIsTheWord
  <2>2. PICK h : h = Len(ts)
    OBVIOUS
  <2>3. i \in 0..Len(ts) /\ h \in i..Len(ts) /\ h = i + n[i] - 1
    BY <1>2, <1>4, <2>1, <2>2
  <2>4. \A k \in (i + 1)..h : k \notin Live
    BY <1>6, <2>3, Zenon
  <2>5. Together(Marked(ts, Live))[h] = Together(Marked(ts, Live))[i]
    BY <1>2, <2>3, <2>4, NoneMarked, Zenon
  <2>6. PICK v : v = Marked(ts, Live)
    OBVIOUS
  <2>7. Those(ts, Live) = Flat(v) /\ Len(v) = h
    BY <1>2, <2>2, <2>6, MarkedIs
  <2>8. QED BY <1>3, <1>5, <2>5, <2>6, <2>7 DEF Flat
<1>9. QED BY <1>7, <1>8

\* The mergeable neighbours of the list are those of the rule, with the same ranks.
LEMMA RuleSeesPairs ==
  ASSUME BpeInv, OneHead
  PROVE  /\ \A i : Mergeable(i) => /\ i \in Live /\ i \in Nat /\ Place(i) \in Rule!Mergeable
                                   /\ Rule!RankAt(Place(i)) = RankAt(i) /\ RankAt(i) \in Nat
         /\ \A k \in Rule!Mergeable : \E i : Mergeable(i) /\ Place(i) = k
<1>0. \A a, b : Rule!Listed(a, b) = Ranks(a, b) /\ Rule!RankIn(a, b) = Rank(a, b)
  BY DEF Rule!Listed, Rule!RankIn, Ranks, Rank
<1>1. ASSUME NEW i, Mergeable(i)
      PROVE  /\ i \in Live /\ i \in Nat /\ Place(i) \in Rule!Mergeable
             /\ Rule!RankAt(Place(i)) = RankAt(i) /\ RankAt(i) \in Nat
  <2>1. i \in Live /\ nxt[i] # 0 /\ Ranks(TextOf(i, n[i]), TextOf(nxt[i], n[nxt[i]])) # {}
    BY <1>1 DEF Mergeable
  <2>2. nxt[i] \in Live /\ Place(nxt[i]) = Place(i) + 1
    BY <2>1, NeighboursPlaces
  <2>3. /\ Place(i) \in 1..Len(PiecesNow) /\ Place(i) + 1 \in 1..Len(PiecesNow)
        /\ PiecesNow[Place(i)] = TextOf(i, n[i])
        /\ PiecesNow[Place(i) + 1] = TextOf(nxt[i], n[nxt[i]])
        /\ Len(PiecesNow) \in Nat
    BY <2>1, <2>2, PlacesOfPieces, Zenon
  <2>4. Place(i) \in 1..(Len(PiecesNow) - 1)
    BY <2>3
  <2>5. Place(i) \in Rule!Mergeable
    BY <1>0, <2>1, <2>3, <2>4, Zenon DEF Rule!Mergeable
  <2>6. Rule!RankAt(Place(i)) = RankAt(i)
    BY <1>0, <2>3, Zenon DEF Rule!RankAt, RankAt
  <2>7. i \in Nat
    BY <2>1 DEF Live, Syms
  <2>8. RankAt(i) \in Nat
    <3>1. merges \in Tables
      BY DEF BpeInv, Links
    <3>2. RankAt(i) \in Ranks(TextOf(i, n[i]), TextOf(nxt[i], n[nxt[i]]))
      BY <2>1, <3>1, RankOfPair, Zenon DEF RankAt
    <3>3. QED BY <3>1, <3>2, RankOfPair
  <2>9. QED BY <2>1, <2>5, <2>6, <2>7, <2>8
<1>2. ASSUME NEW k \in Rule!Mergeable PROVE \E i : Mergeable(i) /\ Place(i) = k
  <2>1. k \in 1..(Len(PiecesNow) - 1) /\ Ranks(PiecesNow[k], PiecesNow[k + 1]) # {}
    BY <1>0, Zenon DEF Rule!Mergeable
  <2>2. Len(PiecesNow) \in Nat
    BY PlacesOfPieces
  <2>3. k \in 1..Len(PiecesNow) /\ k # Len(PiecesNow)
    BY <2>1, <2>2
  <2>4. PICK i \in Live : Place(i) = k
    BY <2>3, PlacesOfPieces, Zenon
  <2>5. nxt[i] # 0
    BY <2>3, <2>4, NeighboursPlaces
  <2>6. nxt[i] \in Live /\ Place(nxt[i]) = k + 1
    BY <2>4, <2>5, NeighboursPlaces
  <2>7. PiecesNow[k] = TextOf(i, n[i]) /\ PiecesNow[k + 1] = TextOf(nxt[i], n[nxt[i]])
    BY <2>4, <2>6, PlacesOfPieces, Zenon
  <2>8. Mergeable(i)
    BY <2>1, <2>5, <2>7 DEF Mergeable
  <2>9. QED BY <2>4, <2>8
<1>3. QED BY <1>1, <1>2

\* The rule's best pair is the list's.
LEMMA RuleTakesBest ==
  ASSUME BpeInv, OneHead, NEW l, BestPair(l)
  PROVE  Rule!Mergeable # {} /\ Rule!Best = Place(l)
<1> DEFINE IsBest(k) == \A j \in Rule!Mergeable :
               Rule!RankAt(k) < Rule!RankAt(j) \/ (Rule!RankAt(k) = Rule!RankAt(j) /\ k <= j)
<1>1. /\ Mergeable(l) /\ l \in Live /\ l \in Nat /\ Place(l) \in Rule!Mergeable
      /\ Rule!RankAt(Place(l)) = RankAt(l) /\ RankAt(l) \in Nat /\ Place(l) \in Nat
  <2>1. Mergeable(l)
    BY DEF BestPair
  <2>2. l \in Live /\ l \in Nat /\ Place(l) \in Rule!Mergeable /\ Rule!RankAt(Place(l)) = RankAt(l)
        /\ RankAt(l) \in Nat
    BY <2>1, RuleSeesPairs, Zenon
  <2>3. Place(l) \in 1..Len(PiecesNow)
    BY <2>2, PlacesOfPieces, Zenon
  <2>4. QED BY <2>1, <2>2, <2>3
<1>2. IsBest(Place(l))
  <2>1. TAKE j \in Rule!Mergeable
  <2>2. PICK i : Mergeable(i) /\ Place(i) = j
    BY RuleSeesPairs, Zenon
  <2>3. i \in Live /\ i \in Nat /\ Rule!RankAt(j) = RankAt(i) /\ RankAt(i) \in Nat
    BY <2>2, RuleSeesPairs, Zenon
  <2>4. RankAt(l) < RankAt(i) \/ (RankAt(l) = RankAt(i) /\ l <= i)
    BY <2>2 DEF BestPair
  <2>5. ASSUME l <= i PROVE Place(l) <= Place(i)
    <3>1. CASE l = i
      BY <1>1, <3>1
    <3>2. CASE l < i
      <4>1. Place(l) < Place(i)
        BY <1>1, <2>3, <3>2, PlacesOfPieces, Zenon
      <4>2. Place(i) \in 1..Len(PiecesNow)
        BY <2>3, PlacesOfPieces, Zenon
      <4>3. QED BY <1>1, <4>1, <4>2
    <3>3. QED BY <1>1, <2>3, <2>5, <3>1, <3>2
  <2>6. QED BY <1>1, <2>2, <2>3, <2>4, <2>5, Zenon
<1>3. ASSUME NEW k \in Rule!Mergeable, IsBest(k) PROVE k = Place(l)
  <2>1. k \in Nat
    BY DEF Rule!Mergeable
  <2>2. PICK i : Mergeable(i) /\ Place(i) = k
    BY RuleSeesPairs, Zenon
  <2>3. Rule!RankAt(k) \in Nat
    BY <2>2, RuleSeesPairs, Zenon
  <2>4. \/ Rule!RankAt(k) < Rule!RankAt(Place(l))
        \/ Rule!RankAt(k) = Rule!RankAt(Place(l)) /\ k <= Place(l)
    BY <1>1, <1>3, Zenon
  <2>5. \/ Rule!RankAt(Place(l)) < Rule!RankAt(k)
        \/ Rule!RankAt(Place(l)) = Rule!RankAt(k) /\ Place(l) <= k
    BY <1>2, Zenon
  <2>6. PICK a : a = Rule!RankAt(k)
    OBVIOUS
  <2>7. PICK b : b = Rule!RankAt(Place(l))
    OBVIOUS
  <2>8. PICK p : p = Place(l)
    OBVIOUS
  <2>9. /\ a \in Nat /\ b \in Nat /\ p \in Nat
        /\ a < b \/ (a = b /\ k <= p)
        /\ b < a \/ (b = a /\ p <= k)
    BY <1>1, <2>3, <2>4, <2>5, <2>6, <2>7, <2>8
  <2>10. k = p
    BY ONLY <2>1, <2>9
  <2>11. QED BY <2>8, <2>10
<1>4. Rule!Best = CHOOSE k \in Rule!Mergeable : IsBest(k)
  BY Zenon DEF Rule!Best
<1>5. Rule!Best = Place(l)
  <2> HIDE DEF IsBest
  <2>1. QED BY <1>1, <1>2, <1>3, <1>4
<1>6. QED BY <1>1, <1>5

\* A merge of the list is that of the rule, at the place of the grown symbol.
LEMMA MergeIsRules ==
  ASSUME BpeInv, OneHead, BpeInv', NEW l, NEW r, Merged(l, r)
  PROVE  PiecesNow' = SubSeq(PiecesNow, 1, Place(l) - 1)
                      \o <<PiecesNow[Place(l)] \o PiecesNow[Place(l) + 1]>>
                      \o SubSeq(PiecesNow, Place(l) + 2, Len(PiecesNow))
<1>1. PICK ts : ts = Texts
  OBVIOUS
<1>2. PICK us : us = Texts'
  OBVIOUS
<1>3. /\ ts \in Seq(Seq(Char)) /\ Len(ts) = Len(word) /\ Len(word) \in Nat
      /\ \A i \in 1..Len(word) : ts[i] = TextOf(i, n[i])
  BY <1>1, TextsAre
<1>4. /\ word' = word /\ Syms = 1..Len(word) /\ l \in Live /\ r \in Live /\ nxt[l] = r
      /\ \A i, k : TextOf(i, k)' = TextOf(i, k)
  BY DEF Merged, TextOf, Syms
<1>5. /\ l \in Syms /\ r \in Syms /\ l < r /\ r = l + n[l] /\ n[l] > 0 /\ n[r] > 0
      /\ n \in [Syms -> Nat] /\ r + n[r] <= Len(word) + 1
      /\ n'[l] = n[l] + n[r] /\ n'[r] = 0
      /\ \A i \in Syms : i # l /\ i # r => n'[i] = n[i]
      /\ Live' = Live \ {r}
  BY AroundMerge
<1>6. /\ us \in Seq(Seq(Char)) /\ Len(us) = Len(word)
      /\ \A i \in 1..Len(word) : us[i] = TextOf(i, n'[i])
  <2>1. us = [i \in Syms |-> TextOf(i, n'[i])]
    BY <1>2, <1>4 DEF Texts, TextOf, Syms
  <2>2. ASSUME NEW i \in Syms PROVE TextOf(i, n'[i]) \in Seq(Char)
    <3>1. i \in Nat \ {0} /\ word \in Seq(Char) /\ n'[i] \in Nat
      <4>1. i \in Nat \ {0} /\ word \in Seq(Char) /\ n' \in [Syms -> Nat]
        BY <1>4, AroundMerge DEF BpeInv, Links
      <4>2. QED BY <4>1
    <3>2. i + n'[i] <= Len(word) + 1
      <4>1. CASE i = l
        <5>1. PICK p : p = n[l]
          OBVIOUS
        <5>2. PICK q : q = n[r]
          OBVIOUS
        <5>3. p \in Nat /\ q \in Nat /\ l \in Nat /\ r = l + p /\ r + q <= Len(word) + 1
              /\ n'[i] = p + q
          BY <1>3, <1>4, <1>5, <4>1, <5>1, <5>2
        <5>4. QED BY <1>3, <4>1, <5>3
      <4>2. CASE i = r
        BY <1>3, <1>4, <1>5, <4>2
      <4>3. CASE i # l /\ i # r
        <5>1. n'[i] = n[i]
          BY <1>5, <4>3
        <5>2. CASE n[i] = 0
          BY <1>3, <1>4, <5>1, <5>2
        <5>3. CASE n[i] # 0
          BY <5>1, <5>3 DEF BpeInv, Links, Live
        <5>4. QED BY <5>2, <5>3
      <4>4. QED BY <4>1, <4>2, <4>3
    <3>3. QED BY <3>1, <3>2, TextLength, Zenon
  <2>3. us \in [1..Len(word) -> Seq(Char)] /\ \A i \in 1..Len(word) : us[i] = TextOf(i, n'[i])
    BY <1>4, <2>1, <2>2
  <2>4. us \in Seq(Seq(Char)) /\ Len(us) = Len(word)
    <3>1. us \in [1..Len(word) -> Seq(Char)] /\ Len(word) \in Nat
      BY <1>3, <2>3
    <3>2. PICK X : X = Seq(Char)
      OBVIOUS
    <3>3. us \in Seq(X) /\ Len(us) = Len(word)
      BY ONLY <3>1, <3>2
    <3>4. QED BY <3>2, <3>3
  <2>5. QED BY <2>3, <2>4
<1>7. PICK bs : bs = Marked(ts, Live)
  OBVIOUS
<1>8. PICK cs : cs = Marked(us, Live')
  OBVIOUS
<1>9. /\ bs \in Seq(Seq(Seq(Char))) /\ Len(bs) = Len(word) /\ PiecesNow = Flat(bs)
      /\ \A i \in 1..Len(word) : bs[i] = IF i \in Live THEN <<ts[i]>> ELSE <<>>
  <2>1. PiecesNow = Those(ts, Live)
    BY <1>1 DEF PiecesNow, Texts
  <2>2. QED BY <1>3, <1>7, <2>1, MarkedIs
<1>10. /\ cs \in Seq(Seq(Seq(Char))) /\ Len(cs) = Len(word) /\ PiecesNow' = Flat(cs)
       /\ \A i \in 1..Len(word) : cs[i] = IF i \in Live' THEN <<us[i]>> ELSE <<>>
  <2>1. PiecesNow' = Those(us, Live')
    BY <1>2 DEF PiecesNow, Texts
  <2>2. QED BY <1>6, <1>8, <2>1, MarkedIs
<1>11. PICK a : a = TextOf(l, n[l])
  OBVIOUS
<1>12. PICK b : b = TextOf(r, n[r])
  OBVIOUS
<1>13. PICK c : c = TextOf(l, n'[l])
  OBVIOUS
<1>14. a \in Seq(Char) /\ b \in Seq(Char) /\ c \in Seq(Char) /\ a \o b = c
  <2>1. PICK p : p = n[l]
    OBVIOUS
  <2>2. PICK q : q = n[r]
    OBVIOUS
  <2>3. PICK m : m = l - 1
    OBVIOUS
  <2>4. /\ word \in Seq(Char) /\ p \in Nat /\ q \in Nat /\ m \in Nat /\ l = m + 1
        /\ r = l + p /\ r + q <= Len(word) + 1 /\ n'[l] = p + q
    <3>1. word \in Seq(Char)
      BY DEF BpeInv, Links
    <3>2. p \in Nat /\ q \in Nat /\ l \in 1..Len(word)
      BY <1>4, <1>5, <2>1, <2>2
    <3>3. m \in Nat /\ l = m + 1
      BY <1>3, <2>3, <3>2
    <3>4. r = l + p /\ r + q <= Len(word) + 1 /\ n'[l] = p + q
      BY <1>5, <2>1, <2>2
    <3>5. QED BY <3>1, <3>2, <3>3, <3>4
  <2>5. /\ l \in 1..(Len(word) + 1) /\ l + p - 1 \in (l - 1)..Len(word)
        /\ l + (p + q) - 1 \in (l + p - 1)..Len(word)
        /\ (l + p - 1) + 1 = r /\ r + q - 1 = l + (p + q) - 1
        /\ l \in Nat \ {0} /\ r \in Nat \ {0} /\ p + q \in Nat /\ l + p <= Len(word) + 1
        /\ l + (p + q) <= Len(word) + 1
    BY <1>3, <2>4
  <2>6. SubSeq(word, l, l + p - 1) \o SubSeq(word, (l + p - 1) + 1, l + (p + q) - 1)
          = SubSeq(word, l, l + (p + q) - 1)
    BY <2>4, <2>5, ConcatAdjacentSubSeq
  <2>7. a \o b = c
    BY <1>11, <1>12, <1>13, <2>1, <2>2, <2>4, <2>5, <2>6 DEF TextOf
  <2>8. a \in Seq(Char)
    BY <1>11, <2>1, <2>4, <2>5, TextLength
  <2>9. b \in Seq(Char)
    BY <1>12, <2>2, <2>4, <2>5, TextLength
  <2>10. c \in Seq(Char)
    BY <1>13, <2>4, <2>5, TextLength
  <2>11. QED BY <2>7, <2>8, <2>9, <2>10
<1>15. l \in 1..Len(word) /\ r \in 1..Len(word) /\ l # r /\ l \in Live' /\ r \notin Live'
  BY <1>4, <1>5
<1>16. Fused(bs, cs, l, r, a, b, c)
  <2>1. bs[l] = <<a>> /\ bs[r] = <<b>>
    BY <1>3, <1>4, <1>9, <1>11, <1>12, <1>15
  <2>2. cs[l] = <<c>> /\ cs[r] = <<>>
    BY <1>6, <1>10, <1>13, <1>15
  <2>3. ASSUME NEW k \in 1..Len(word), k # l, k # r PROVE cs[k] = bs[k]
    <3>1. us[k] = ts[k]
      BY <1>3, <1>4, <1>5, <1>6, <2>3
    <3>2. k \in Live' <=> k \in Live
      BY <1>5, <2>3
    <3>3. QED BY <1>9, <1>10, <3>1, <3>2
  <2>4. ASSUME NEW k \in 1..Len(word), l < k, k < r PROVE bs[k] = <<>>
    <3>1. k \notin Live
      <4>1. ASSUME k \in Live PROVE l + n[l] <= k
        BY <1>4, <2>4, <4>1, NoneInside, Zenon
      <4>2. ~(l + n[l] <= k)
        BY <1>4, <1>5, <2>4
      <4>3. QED BY <4>1, <4>2, Zenon
    <3>2. QED BY <1>9, <3>1
  <2>5. QED BY <1>9, <2>1, <2>2, <2>3, <2>4 DEF Fused
<1>17. OneForTwo(Flat(cs), Flat(bs), Len(Together(bs)[l - 1]), c)
  <2>1. Len(cs) = Len(bs) /\ l \in 1..Len(bs) /\ r \in 1..Len(bs) /\ l < r
    BY <1>5, <1>9, <1>10, <1>15
  <2>2. PICK X : X = Seq(Char)
    OBVIOUS
  <2>3. /\ bs \in Seq(Seq(X)) /\ cs \in Seq(Seq(X))
        /\ a \in X /\ b \in X /\ c \in X
    BY <1>9, <1>10, <1>14, <2>2
  <2>4. QED BY <1>16, <2>1, <2>3, TwoBecomeOne, Zenon
<1>18. PICK h : h = Len(Together(bs)[l - 1])
  OBVIOUS
<1>19. Place(l) = h + 1
  BY <1>1, <1>7, <1>18 DEF Place, PlaceOf
<1>20. h \in Nat /\ Place(l) - 1 = h /\ Place(l) + 2 = h + 3
  <2>1. Place(l) \in 1..Len(PiecesNow)
    BY <1>4, PlacesOfPieces, Zenon
  <2>2. Together(bs)[l - 1] \in Seq(Seq(Char))
    <3>1. l - 1 \in 0..Len(bs)
      BY <1>3, <1>9, <1>15
    <3>2. QED BY <1>9, <3>1, TogetherSeqs
  <2>3. h \in Nat
    BY <1>18, <2>2
  <2>4. QED BY <1>19, <2>3
<1>21. PiecesNow[Place(l)] \o PiecesNow[Place(l) + 1] = c
  <2>1. nxt[l] # 0
    BY <1>4, <1>15
  <2>2. Place(r) = Place(l) + 1
    BY <1>4, <2>1, NeighboursPlaces
  <2>3. PiecesNow[Place(l)] = a /\ PiecesNow[Place(l) + 1] = b
    BY <1>4, <1>11, <1>12, <2>2, PlacesOfPieces, Zenon
  <2>4. QED BY <1>14, <2>3
<1>22. Flat(cs) = SubSeq(Flat(bs), 1, h) \o <<c>> \o SubSeq(Flat(bs), h + 3, Len(Flat(bs)))
  BY <1>17, <1>18, Zenon DEF OneForTwo
<1>23. QED BY <1>9, <1>10, <1>20, <1>21, <1>22, Zenon

\* Before the first merge every piece is one character.
LEMMA RuleStarts == BpeInit => Rule!RuleInit
<1> SUFFICES ASSUME BpeInit, NEW k \in DOMAIN PiecesNow PROVE Len(PiecesNow[k]) = 1
  BY DEF Rule!RuleInit
<1>1. BpeInv
  BY InitBpe
<1>2. PICK ps : ps = PiecesNow
  OBVIOUS
<1>3. k \in 1..Len(PiecesNow)
  <2>1. ps \in Seq(Seq(Char))
    BY <1>1, <1>2, PlacesOfPieces, Zenon
  <2>2. DOMAIN ps = 1..Len(ps)
    BY <2>1
  <2>3. QED BY <1>2, <2>2
<1>4. PICK i \in Live : Place(i) = k
  BY <1>1, <1>3, PlacesOfPieces, Zenon
<1>5. PiecesNow[k] = TextOf(i, n[i])
  BY <1>1, <1>4, PlacesOfPieces, Zenon
<1>6. n[i] = 1 /\ i \in 1..Len(word)
  BY <1>4 DEF BpeInit, Live, Syms
<1>7. Len(TextOf(i, n[i])) = n[i]
  BY <1>1, <1>6, TextsAre
<1>8. QED BY <1>5, <1>6, <1>7

\* Every other step leaves the pieces as they are.
LEMMA PiecesKept ==
  ASSUME UNCHANGED <<word, n>>
  PROVE  PiecesNow' = PiecesNow
BY DEF PiecesNow, TextOf, Syms, Live

\* Every step is one of the rule or changes nothing that it sees.
LEMMA StepIsRules == WordInv /\ WordInv' /\ [BpeNext]_bpeVars => [Rule!RuleMerge]_(Rule!ruleVars)
<1> SUFFICES ASSUME WordInv, WordInv', [BpeNext]_bpeVars PROVE [Rule!RuleMerge]_(Rule!ruleVars)
  OBVIOUS
<1>1. CASE Skip
  <2>1. UNCHANGED <<word, n, merges>>
    BY <1>1 DEF Skip
  <2>2. QED BY <2>1, PiecesKept DEF Rule!ruleVars
<1>2. CASE Emit
  <2>1. UNCHANGED <<word, n, merges>>
    BY <1>2 DEF Emit
  <2>2. QED BY <2>1, PiecesKept DEF Rule!ruleVars
<1>3. CASE UNCHANGED bpeVars
  <2>1. UNCHANGED <<word, n, merges>>
    BY <1>3 DEF bpeVars
  <2>2. QED BY <2>1, PiecesKept DEF Rule!ruleVars
<1>4. CASE Merge
  <2>1. BpeInv /\ OneHead /\ BpeInv'
    BY DEF WordInv
  <2>2. PICK l : l = Top.left
    OBVIOUS
  <2>3. BestPair(l)
    BY <1>4, <2>1, <2>2, MergeTakesBest
  <2>4. Rule!Mergeable # {} /\ Rule!Best = Place(l)
    BY <2>1, <2>3, RuleTakesBest, Zenon
  <2>5. PICK r : Merged(l, r)
    BY <1>4, <2>1, <2>2, MergeMerges
  <2>6. PiecesNow' = SubSeq(PiecesNow, 1, Place(l) - 1)
                     \o <<PiecesNow[Place(l)] \o PiecesNow[Place(l) + 1]>>
                     \o SubSeq(PiecesNow, Place(l) + 2, Len(PiecesNow))
    BY <2>1, <2>5, MergeIsRules
  <2>7. UNCHANGED merges
    BY <2>5 DEF Merged
  <2>8. Rule!RuleMerge
    BY <2>4, <2>6, <2>7 DEF Rule!RuleMerge
  <2>9. QED BY <2>8
<1>5. QED BY <1>1, <1>2, <1>3, <1>4 DEF BpeNext

\* encode_word follows the rule of byte-pair encoding, for any word and table: skipped
\* entries change nothing, every merge is the one the rule makes, and the loop stops only
\* where the rule does (the queue of src/tokenizer.rs:511 against the texts of the list).
THEOREM EncodeFollowsTheRule ==
  BpeSpec => /\ Rule!RuleInit /\ [][Rule!RuleMerge]_(Rule!ruleVars)
             /\ [][Emit => Rule!Mergeable = {}]_bpeVars
<1>1. WordInv /\ [BpeNext]_bpeVars => [Emit => Rule!Mergeable = {}]_bpeVars
  <2>1. ASSUME WordInv, Emit, NEW k \in Rule!Mergeable PROVE FALSE
    <3>1. BpeInv /\ OneHead
      BY <2>1 DEF WordInv
    <3>2. PICK i : Mergeable(i)
      BY <2>1, <3>1, RuleSeesPairs, Zenon
    <3>3. QED BY <2>1, <3>1, <3>2, MergeableIsQueued DEF Emit
  <2>2. QED BY <2>1
<1>2. QED BY <1>1, InitWord, NextWord, RuleStarts, StepIsRules, PTL DEF BpeSpec
=============================================================================
