----------------------------- MODULE Pieces_proof -----------------------------
(***************************************************************************)
(* Lemmas about the recursive functions of Pieces.  Each is shown to exist  *)
(* and to obey its equation; what holds of all its values is shown by the    *)
(* least index it could fail at.                                            *)
(***************************************************************************)
EXTENDS Pieces, SequenceTheorems, WellFoundedInduction, TLAPS

\* A set of naturals has a least element.
LEMMA LeastNat ==
  ASSUME NEW T \in SUBSET Nat, T # {}
  PROVE  \E m \in T : \A k \in T : m <= k
<1>1. IsWellFoundedOn(OpToRel(<,Nat), Nat)
  BY NatLessThanWellFounded
<1>2. PICK m \in T : \A k \in T : ~(<<k, m>> \in OpToRel(<,Nat))
  BY <1>1, WFMin, Zenon
<1>3. \A k \in T : ~(k < m)
  BY <1>2 DEF OpToRel
<1>4. QED BY <1>3

-----------------------------------------------------------------------------
\* The recursive functions of Pieces are defined: each is built up to every
\* length, for the least length it could not be built up to would be one more than
\* one it could.
IsTogether(f, ss, n) == f = [i \in 0..n |-> IF i = 0 THEN <<>> ELSE f[i - 1] \o ss[i]]

\* The recursive definition defines a function, by a least counterexample.
LEMMA TogetherExists ==
  ASSUME NEW ss, NEW n \in Nat
  PROVE  \E f : IsTogether(f, ss, n)
<1> DEFINE T == {k \in Nat : ~ \E f : IsTogether(f, ss, k)}
<1>1. SUFFICES ASSUME T # {} PROVE FALSE
  BY Zenon
<1>2. PICK m \in T : \A k \in T : m <= k
  <2> HIDE DEF T
  <2>1. T \in SUBSET Nat
    BY DEF T
  <2>2. QED BY <1>1, <2>1, LeastNat, Zenon
<1>3. m \in Nat /\ ~ \E f : IsTogether(f, ss, m)
  BY Zenon
<1>4. CASE m = 0
  <2>1. PICK f : f = [i \in 0..0 |-> <<>>]
    OBVIOUS
  <2>2. IsTogether(f, ss, 0)
    BY <2>1 DEF IsTogether
  <2>3. QED BY <2>2, <1>3, <1>4
<1>5. CASE m # 0
  <2>1. m - 1 \in Nat /\ m - 1 \notin T
    BY <1>2, <1>3, <1>5
  <2>2. PICK f : IsTogether(f, ss, m - 1)
    BY <2>1, Zenon
  <2>3. PICK g : g = [i \in 0..m |-> IF i = m THEN f[m - 1] \o ss[m] ELSE f[i]]
    OBVIOUS
  <2>4. \A i \in 0..(m - 1) : f[i] = IF i = 0 THEN <<>> ELSE f[i - 1] \o ss[i]
    BY <2>2, Zenon DEF IsTogether
  <2>5. \A i \in 0..m : g[i] = IF i = 0 THEN <<>> ELSE g[i - 1] \o ss[i]
    <3> SUFFICES ASSUME NEW i \in 0..m PROVE g[i] = IF i = 0 THEN <<>> ELSE g[i - 1] \o ss[i]
      OBVIOUS
    <3>1. CASE i = m
      <4>1. m - 1 \in 0..m /\ m - 1 # m /\ i # 0
        BY <1>3, <1>5, <3>1
      <4>2. QED BY <2>3, <4>1, <3>1, Zenon
    <3>2. CASE i # m /\ i = 0
      BY <2>3, <2>4, <3>2, <1>3, <1>5
    <3>3. CASE i # m /\ i # 0
      <4>1. i \in 0..(m - 1) /\ i - 1 \in 0..m /\ i - 1 # m
        BY <1>3, <3>3
      <4>2. g[i] = f[i] /\ g[i - 1] = f[i - 1]
        BY <2>3, <4>1, <3>3, Zenon
      <4>3. QED BY <2>4, <4>1, <4>2, <3>3, Zenon
    <3>4. QED BY <3>1, <3>2, <3>3
  <2>6. IsTogether(g, ss, m)
    BY <2>3, <2>5 DEF IsTogether
  <2>7. QED BY <2>6, <1>3
<1>6. QED BY <1>4, <1>5

\* Together puts each piece behind those before it.
LEMMA TogetherIs ==
  ASSUME NEW ss, Len(ss) \in Nat
  PROVE  /\ Together(ss)[0] = <<>>
         /\ \A i \in 1..Len(ss) : Together(ss)[i] = Together(ss)[i - 1] \o ss[i]
<1>1. PICK f : IsTogether(f, ss, Len(ss))
  BY TogetherExists
<1>2. Together(ss) = CHOOSE s : s = [i \in 0..Len(ss) |-> IF i = 0 THEN <<>> ELSE s[i - 1] \o ss[i]]
  BY Zenon DEF Together
<1>3. IsTogether(Together(ss), ss, Len(ss))
  BY <1>1, <1>2, Zenon DEF IsTogether
<1>4. \A i \in 0..Len(ss) :
        Together(ss)[i] = IF i = 0 THEN <<>> ELSE Together(ss)[i - 1] \o ss[i]
  BY <1>3, Zenon DEF IsTogether
<1>5. Together(ss)[0] = <<>>
  <2>1. 0 \in 0..Len(ss)
    OBVIOUS
  <2>2. QED BY <1>4, <2>1, Zenon
<1>6. ASSUME NEW i \in 1..Len(ss)
      PROVE  Together(ss)[i] = Together(ss)[i - 1] \o ss[i]
  <2>1. i \in 0..Len(ss) /\ i # 0
    OBVIOUS
  <2>2. QED BY <1>4, <2>1, Zenon
<1>7. QED BY <1>5, <1>6, Zenon

\* What is true of no first index it fails at is true of all: the form in which the
\* proofs below go up a sequence.
LEMMA TogetherSeqs ==
  ASSUME NEW S, NEW ss \in Seq(Seq(S))
  PROVE  \A i \in 0..Len(ss) : Together(ss)[i] \in Seq(S)
<1> DEFINE T == {i \in 0..Len(ss) : Together(ss)[i] \notin Seq(S)}
<1>0. Len(ss) \in Nat /\ \A i \in 1..Len(ss) : ss[i] \in Seq(S)
  OBVIOUS
<1>1. SUFFICES ASSUME T # {} PROVE FALSE
  BY Zenon
<1>2. PICK m \in T : \A k \in T : m <= k
  <2> HIDE DEF T
  <2>1. T \in SUBSET Nat
    BY <1>0 DEF T
  <2>2. QED BY <1>1, <2>1, LeastNat, Zenon
<1>3. m \in 0..Len(ss) /\ Together(ss)[m] \notin Seq(S)
  BY Zenon
<1>4. m # 0
  <2>1. Together(ss)[0] = <<>>
    BY <1>0, TogetherIs, Zenon
  <2>2. <<>> \in Seq(S)
    OBVIOUS
  <2>3. QED BY <2>1, <2>2, <1>3, Zenon
<1>5. m \in 1..Len(ss) /\ m - 1 \in 0..Len(ss) /\ m - 1 \notin T
  BY <1>0, <1>2, <1>3, <1>4
<1>6. Together(ss)[m - 1] \in Seq(S) /\ ss[m] \in Seq(S)
  BY <1>0, <1>5, Zenon
<1>7. Together(ss)[m] = Together(ss)[m - 1] \o ss[m]
  BY <1>0, <1>5, TogetherIs, Zenon
<1>8. Together(ss)[m] \in Seq(S)
  BY <1>6, <1>7, ConcatProperties, Zenon
<1>9. QED BY <1>3, <1>8

\* What stands in the first i pieces stays where it is.
StandsIn(ss, i, j) ==
  /\ Len(Together(ss)[i]) <= Len(Together(ss)[j])
  /\ \A k \in 1..Len(Together(ss)[i]) : Together(ss)[j][k] = Together(ss)[i][k]

\* A shorter joining is the beginning of a longer one.
LEMMA TogetherStands ==
  ASSUME NEW S, NEW ss \in Seq(Seq(S)), NEW i \in 0..Len(ss), NEW j \in i..Len(ss)
  PROVE  StandsIn(ss, i, j)
<1> DEFINE T == {k \in i..Len(ss) : ~StandsIn(ss, i, k)}
<1>0. Len(ss) \in Nat /\ i \in Nat /\ \A k \in 1..Len(ss) : ss[k] \in Seq(S)
  OBVIOUS
<1>1. SUFFICES ASSUME T # {} PROVE FALSE
  BY Zenon
<1>2. PICK m \in T : \A k \in T : m <= k
  <2> HIDE DEF T
  <2>1. T \in SUBSET Nat
    BY <1>0 DEF T
  <2>2. QED BY <1>1, <2>1, LeastNat, Zenon
<1>3. m \in i..Len(ss) /\ ~StandsIn(ss, i, m)
  BY Zenon
<1>4. PICK a : a = Together(ss)[i]
  OBVIOUS
<1>5. a \in Seq(S)
  BY <1>4, <1>0, TogetherSeqs, Zenon
<1>6. m # i
  <2>1. StandsIn(ss, i, i)
    BY <1>4, <1>5 DEF StandsIn
  <2>2. QED BY <2>1, <1>3
<1>7. m \in 1..Len(ss) /\ m - 1 \in i..Len(ss) /\ m - 1 \in 0..Len(ss) /\ m - 1 \notin T
  BY <1>0, <1>2, <1>3, <1>6
<1>8. PICK b : b = Together(ss)[m - 1]
  OBVIOUS
<1>9. b \in Seq(S)
  BY <1>7, <1>8, TogetherSeqs, Zenon
<1>10. StandsIn(ss, i, m - 1)
  BY <1>7, Zenon
<1>11. Len(a) <= Len(b) /\ \A k \in 1..Len(a) : b[k] = a[k]
  BY <1>4, <1>8, <1>10, Zenon DEF StandsIn
<1>12. PICK c : c = ss[m]
  OBVIOUS
<1>13. c \in Seq(S)
  BY <1>0, <1>7, <1>12, Zenon
<1>14. Together(ss)[m] = b \o c
  BY <1>0, <1>7, <1>8, <1>12, TogetherIs, Zenon
<1>15. Len(a) <= Len(b \o c) /\ \A k \in 1..Len(a) : (b \o c)[k] = a[k]
  BY <1>5, <1>9, <1>11, <1>13
<1>16. StandsIn(ss, i, m)
  BY <1>4, <1>14, <1>15, Zenon DEF StandsIn
<1>17. QED BY <1>3, <1>16

\* Each piece is found behind those before it.
LEMMA PieceStands ==
  ASSUME NEW S, NEW ss \in Seq(Seq(S)), NEW i \in 1..Len(ss)
  PROVE  /\ Len(Together(ss)[i - 1]) \in Nat
         /\ Len(Together(ss)[i - 1]) + Len(ss[i]) <= Len(Together(ss)[Len(ss)])
         /\ SubSeq(Together(ss)[Len(ss)], Len(Together(ss)[i - 1]) + 1,
                   Len(Together(ss)[i - 1]) + Len(ss[i])) = ss[i]
<1>0. Len(ss) \in Nat /\ i - 1 \in 0..Len(ss) /\ i \in 0..Len(ss) /\ Len(ss) \in i..Len(ss)
      /\ Len(ss) \in 0..Len(ss)
  OBVIOUS
<1>1. PICK a : a = Together(ss)[i - 1]
  OBVIOUS
<1>2. PICK c : c = ss[i]
  OBVIOUS
<1>3. PICK d : d = Together(ss)[Len(ss)]
  OBVIOUS
<1>4. a \in Seq(S) /\ d \in Seq(S)
  BY <1>0, <1>1, <1>3, TogetherSeqs, Zenon
<1>5. c \in Seq(S)
  BY <1>2
<1>6. Together(ss)[i] = a \o c
  BY <1>0, <1>1, <1>2, TogetherIs, Zenon
<1>7. StandsIn(ss, i, Len(ss))
  BY <1>0, TogetherStands, Zenon
<1>8. Len(a \o c) <= Len(d) /\ \A k \in 1..Len(a \o c) : d[k] = (a \o c)[k]
  BY <1>3, <1>6, <1>7, Zenon DEF StandsIn
<1>9. Len(a) \in Nat /\ Len(c) \in Nat /\ Len(d) \in Nat /\ Len(a \o c) = Len(a) + Len(c)
  BY <1>4, <1>5
<1>10. \A k \in 1..Len(c) : d[Len(a) + k] = c[k]
  <2>1. SUFFICES ASSUME NEW k \in 1..Len(c) PROVE d[Len(a) + k] = c[k]
    OBVIOUS
  <2>2. Len(a) + k \in 1..Len(a \o c)
    BY <1>9
  <2>3. d[Len(a) + k] = (a \o c)[Len(a) + k]
    BY <1>8, <2>2
  <2>4. (a \o c)[Len(a) + k] = c[k]
    BY <1>4, <1>5, <1>9
  <2>5. QED BY <2>3, <2>4
<1>11. SubSeq(d, Len(a) + 1, Len(a) + Len(c)) = c
  <2>1. PICK e : e = SubSeq(d, Len(a) + 1, Len(a) + Len(c))
    OBVIOUS
  <2>2. e \in Seq(S) /\ Len(e) = Len(c)
    BY <1>4, <1>8, <1>9, <2>1
  <2>3. \A k \in 1..Len(c) : e[k] = c[k]
    BY <1>4, <1>8, <1>9, <1>10, <2>1
  <2>4. e = c
    BY <1>5, <2>2, <2>3, SeqEqual, Zenon
  <2>5. QED BY <2>1, <2>4
<1>12. QED BY <1>1, <1>2, <1>3, <1>8, <1>9, <1>11

\* An element of joined pieces is an element of a piece, and the other way round.
LEMMA JoinedFrom ==
  ASSUME NEW S, NEW ss \in Seq(Seq(S)), NEW k \in 1..Len(Flat(ss))
  PROVE  \E i \in 1..Len(ss) : \E j \in 1..Len(ss[i]) : Flat(ss)[k] = ss[i][j]
<1> DEFINE T == {m \in 0..Len(ss) : k <= Len(Together(ss)[m])}
<1>0. /\ Len(ss) \in Nat /\ Len(ss) \in 0..Len(ss)
      /\ \A i \in 0..Len(ss) : Together(ss)[i] \in Seq(S) /\ Len(Together(ss)[i]) \in Nat
  <2>1. Len(ss) \in Nat /\ Len(ss) \in 0..Len(ss)
    OBVIOUS
  <2>2. \A i \in 0..Len(ss) : Together(ss)[i] \in Seq(S)
    BY TogetherSeqs, Zenon
  <2>3. QED BY <2>1, <2>2
<1>1. Len(ss) \in T /\ T \in SUBSET Nat
  BY <1>0 DEF Flat
<1>2. PICK m \in T : \A o \in T : m <= o
  <2> HIDE DEF T
  <2>1. T # {}
    BY <1>1
  <2>2. QED BY <1>1, <2>1, LeastNat, Zenon
<1>3. m \in 0..Len(ss) /\ k <= Len(Together(ss)[m])
  BY <1>2
<1>4. m # 0
  <2>1. Together(ss)[0] = <<>>
    BY <1>0, TogetherIs, Zenon
  <2>2. QED BY <2>1, <1>3
<1>5. m \in 1..Len(ss) /\ m - 1 \in 0..Len(ss) /\ m - 1 \notin T /\ Len(ss) \in m..Len(ss)
  BY <1>0, <1>2, <1>3, <1>4
<1>6. PICK a : a = Together(ss)[m - 1]
  OBVIOUS
<1>7. PICK c : c = ss[m]
  OBVIOUS
<1>8. a \in Seq(S) /\ c \in Seq(S)
  BY <1>0, <1>5, <1>6, <1>7
<1>9. Together(ss)[m] = a \o c
  BY <1>0, <1>5, <1>6, <1>7, TogetherIs, Zenon
<1>10. StandsIn(ss, m, Len(ss))
  BY <1>0, <1>3, <1>5, TogetherStands, Zenon
<1>11. Len(a) \in Nat /\ Len(c) \in Nat /\ Len(a \o c) = Len(a) + Len(c) /\ Len(a) < k
  <2>1. ~(k <= Len(a))
    BY <1>5, <1>6
  <2>2. Len(a) \in Nat /\ Len(c) \in Nat /\ Len(a \o c) = Len(a) + Len(c)
    BY <1>8
  <2>3. k \in Int
    OBVIOUS
  <2>4. QED BY <2>1, <2>2, <2>3
<1>12. k <= Len(a \o c) /\ k \in 1..Len(a \o c)
  BY <1>3, <1>9, <1>11
<1>13. Flat(ss)[k] = (a \o c)[k]
  BY <1>9, <1>10, <1>12, Zenon DEF Flat, StandsIn
<1>14. k - Len(a) \in 1..Len(c) /\ (a \o c)[k] = c[k - Len(a)]
  BY <1>8, <1>11, <1>12
<1>15. QED BY <1>5, <1>7, <1>13, <1>14

\* Every element of a piece is an element of the joined pieces.
LEMMA JoinedHas ==
  ASSUME NEW S, NEW ss \in Seq(Seq(S)), NEW i \in 1..Len(ss), NEW j \in 1..Len(ss[i])
  PROVE  \E k \in 1..Len(Flat(ss)) : Flat(ss)[k] = ss[i][j]
<1>1. PICK n : n = Len(Together(ss)[i - 1])
  OBVIOUS
<1>2. PICK d : d = Together(ss)[Len(ss)]
  OBVIOUS
<1>3. PICK c : c = ss[i]
  OBVIOUS
<1>4. n \in Nat /\ n + Len(c) <= Len(d) /\ SubSeq(d, n + 1, n + Len(c)) = c
  BY <1>1, <1>2, <1>3, PieceStands, Zenon
<1>5. d \in Seq(S) /\ c \in Seq(S)
  <2>1. Len(ss) \in 0..Len(ss)
    OBVIOUS
  <2>2. QED BY <2>1, <1>2, <1>3, TogetherSeqs
<1>6. j \in 1..Len(c) /\ n + j \in 1..Len(d)
  BY <1>3, <1>4, <1>5
<1>7. c[j] = d[n + j]
  <2>1. PICK e : e = SubSeq(d, n + 1, n + Len(c))
    OBVIOUS
  <2>2. e[j] = d[n + j]
    BY <1>4, <1>5, <1>6, <2>1
  <2>3. QED BY <1>4, <2>1, <2>2
<1>8. QED BY <1>2, <1>3, <1>6, <1>7 DEF Flat

\* Flat pieces are a sequence.
LEMMA JoinedIsSeq ==
  ASSUME NEW S, NEW ss \in Seq(Seq(S))
  PROVE  Flat(ss) \in Seq(S)
<1>1. Len(ss) \in 0..Len(ss)
  OBVIOUS
<1>2. QED BY <1>1, TogetherSeqs, Zenon DEF Flat

\* Those are the chosen ones: each of them, and no other.
OnlyThose(w, ts, S) == \A k \in 1..Len(w) : \E i \in DOMAIN ts \cap S : w[k] = ts[i]
AllThose(w, ts, S) == \A i \in DOMAIN ts \cap S : \E k \in 1..Len(w) : w[k] = ts[i]

\* The chosen elements, no other, and all of them.
LEMMA ThoseAre ==
  ASSUME NEW X, NEW ts \in Seq(X), NEW S
  PROVE  /\ Those(ts, S) \in Seq(X)
         /\ OnlyThose(Those(ts, S), ts, S)
         /\ AllThose(Those(ts, S), ts, S)
<1>1. PICK ss : ss = [i \in DOMAIN ts |-> IF i \in S THEN <<ts[i]>> ELSE <<>>]
  OBVIOUS
<1>2. DOMAIN ts = 1..Len(ts) /\ Len(ts) \in Nat
  OBVIOUS
<1>3. ss \in Seq(Seq(X)) /\ Len(ss) = Len(ts)
  <2>1. \A i \in 1..Len(ts) : (IF i \in S THEN <<ts[i]>> ELSE <<>>) \in Seq(X)
    OBVIOUS
  <2>2. ss \in [1..Len(ts) -> Seq(X)]
    BY <1>1, <1>2, <2>1
  <2>3. QED BY <1>2, <2>2
<1>4. Those(ts, S) = Flat(ss)
  BY <1>1, Zenon DEF Those
<1>5. Flat(ss) \in Seq(X)
  BY <1>3, JoinedIsSeq, Zenon
<1>6. ASSUME NEW k \in 1..Len(Flat(ss))
      PROVE  \E i \in DOMAIN ts \cap S : Flat(ss)[k] = ts[i]
  <2>0. PICK i \in 1..Len(ss) : \E j \in 1..Len(ss[i]) : Flat(ss)[k] = ss[i][j]
    BY <1>3, JoinedFrom, Zenon
  <2>1. PICK j \in 1..Len(ss[i]) : Flat(ss)[k] = ss[i][j]
    BY <2>0
  <2>2. ss[i] = IF i \in S THEN <<ts[i]>> ELSE <<>>
    BY <1>1, <1>2, <1>3
  <2>3. i \in S
    <3>1. CASE i \notin S
      BY <2>1, <2>2, <3>1
    <3>2. QED BY <3>1
  <2>4. ss[i] = <<ts[i]>> /\ j = 1
    BY <2>1, <2>2, <2>3
  <2>5. i \in DOMAIN ts \cap S
    BY <2>3, <1>2, <1>3
  <2>6. ss[i][j] = ts[i]
    BY <2>4
  <2>7. QED BY <2>1, <2>5, <2>6, Zenon
<1>7. ASSUME NEW i \in DOMAIN ts \cap S
      PROVE  \E k \in 1..Len(Flat(ss)) : Flat(ss)[k] = ts[i]
  <2>1. ss[i] = <<ts[i]>> /\ i \in 1..Len(ss)
    BY <1>1, <1>2, <1>3
  <2>2. 1 \in 1..Len(ss[i]) /\ ss[i][1] = ts[i]
    BY <2>1
  <2>3. ss \in Seq(Seq(X))
    BY <1>3
  <2>4. \A j \in 1..Len(ss[i]) : \E k \in 1..Len(Flat(ss)) : Flat(ss)[k] = ss[i][j]
    BY <2>1, <2>3, JoinedHas, Zenon
  <2>5. QED BY <2>2, <2>4, Zenon
<1>8. QED BY <1>4, <1>5, <1>6, <1>7 DEF OnlyThose, AllThose

\* The same for products.
IsProducts(f, dims, n) == f = [i \in 0..n |-> IF i = 0 THEN 1 ELSE f[i - 1] * dims[i]]

\* The recursive definition defines a function, by a least counterexample.
LEMMA ProductsExist ==
  ASSUME NEW dims, NEW n \in Nat
  PROVE  \E f : IsProducts(f, dims, n)
<1> DEFINE T == {k \in Nat : ~ \E f : IsProducts(f, dims, k)}
<1>1. SUFFICES ASSUME T # {} PROVE FALSE
  BY Zenon
<1>2. PICK m \in T : \A k \in T : m <= k
  <2> HIDE DEF T
  <2>1. T \in SUBSET Nat
    BY DEF T
  <2>2. QED BY <1>1, <2>1, LeastNat, Zenon
<1>3. m \in Nat /\ ~ \E f : IsProducts(f, dims, m)
  BY Zenon
<1>4. CASE m = 0
  <2>1. PICK f : f = [i \in 0..0 |-> 1]
    OBVIOUS
  <2>2. IsProducts(f, dims, 0)
    BY <2>1 DEF IsProducts
  <2>3. QED BY <2>2, <1>3, <1>4
<1>5. CASE m # 0
  <2>1. m - 1 \in Nat /\ m - 1 \notin T
    BY <1>2, <1>3, <1>5
  <2>2. PICK f : IsProducts(f, dims, m - 1)
    BY <2>1, Zenon
  <2>3. PICK g : g = [i \in 0..m |-> IF i = m THEN f[m - 1] * dims[m] ELSE f[i]]
    OBVIOUS
  <2>4. \A i \in 0..(m - 1) : f[i] = IF i = 0 THEN 1 ELSE f[i - 1] * dims[i]
    BY <2>2, Zenon DEF IsProducts
  <2>5. \A i \in 0..m : g[i] = IF i = 0 THEN 1 ELSE g[i - 1] * dims[i]
    <3> SUFFICES ASSUME NEW i \in 0..m PROVE g[i] = IF i = 0 THEN 1 ELSE g[i - 1] * dims[i]
      OBVIOUS
    <3>1. CASE i = m
      <4>1. m - 1 \in 0..m /\ m - 1 # m /\ i # 0
        BY <1>3, <1>5, <3>1
      <4>2. QED BY <2>3, <4>1, <3>1, Zenon
    <3>2. CASE i # m /\ i = 0
      BY <2>3, <2>4, <3>2, <1>3, <1>5
    <3>3. CASE i # m /\ i # 0
      <4>1. i \in 0..(m - 1) /\ i - 1 \in 0..m /\ i - 1 # m
        BY <1>3, <3>3
      <4>2. g[i] = f[i] /\ g[i - 1] = f[i - 1]
        BY <2>3, <4>1, <3>3, Zenon
      <4>3. QED BY <2>4, <4>1, <4>2, <3>3, Zenon
    <3>4. QED BY <3>1, <3>2, <3>3
  <2>6. IsProducts(g, dims, m)
    BY <2>3, <2>5 DEF IsProducts
  <2>7. QED BY <2>6, <1>3
<1>6. QED BY <1>4, <1>5

\* The empty product is one, and each dim multiplies the one before.
LEMMA ProductsAre ==
  ASSUME NEW dims, Len(dims) \in Nat
  PROVE  /\ Products(dims)[0] = 1
         /\ \A i \in 1..Len(dims) : Products(dims)[i] = Products(dims)[i - 1] * dims[i]
<1>1. PICK f : IsProducts(f, dims, Len(dims))
  BY ProductsExist
<1>2. Products(dims) = CHOOSE p : p = [i \in 0..Len(dims) |-> IF i = 0 THEN 1 ELSE p[i - 1] * dims[i]]
  BY Zenon DEF Products
<1>3. IsProducts(Products(dims), dims, Len(dims))
  BY <1>1, <1>2, Zenon DEF IsProducts
<1>4. \A i \in 0..Len(dims) :
        Products(dims)[i] = IF i = 0 THEN 1 ELSE Products(dims)[i - 1] * dims[i]
  BY <1>3, Zenon DEF IsProducts
<1>5. Products(dims)[0] = 1
  <2>1. 0 \in 0..Len(dims)
    OBVIOUS
  <2>2. QED BY <1>4, <2>1, Zenon
<1>6. ASSUME NEW i \in 1..Len(dims)
      PROVE  Products(dims)[i] = Products(dims)[i - 1] * dims[i]
  <2>1. i \in 0..Len(dims) /\ i # 0
    OBVIOUS
  <2>2. QED BY <1>4, <2>1, Zenon
<1>7. QED BY <1>5, <1>6, Zenon

\* A product of naturals is one.
LEMMA ProductsNat ==
  ASSUME NEW dims \in Seq(Nat)
  PROVE  \A i \in 0..Len(dims) : Products(dims)[i] \in Nat
<1> DEFINE T == {i \in 0..Len(dims) : Products(dims)[i] \notin Nat}
<1>0. Len(dims) \in Nat /\ \A i \in 1..Len(dims) : dims[i] \in Nat
  OBVIOUS
<1>1. SUFFICES ASSUME T # {} PROVE FALSE
  BY Zenon
<1>2. PICK m \in T : \A k \in T : m <= k
  <2> HIDE DEF T
  <2>1. T \in SUBSET Nat
    BY <1>0 DEF T
  <2>2. QED BY <1>1, <2>1, LeastNat, Zenon
<1>3. m \in 0..Len(dims) /\ Products(dims)[m] \notin Nat
  BY Zenon
<1>4. m # 0
  <2>1. Products(dims)[0] = 1
    BY <1>0, ProductsAre, Zenon
  <2>2. QED BY <2>1, <1>3
<1>5. m \in 1..Len(dims) /\ m - 1 \in 0..Len(dims) /\ m - 1 \notin T
  BY <1>0, <1>2, <1>3, <1>4
<1>6. Products(dims)[m - 1] \in Nat /\ dims[m] \in Nat
  BY <1>0, <1>5, Zenon
<1>7. Products(dims)[m] = Products(dims)[m - 1] * dims[m]
  BY <1>0, <1>5, ProductsAre, Zenon
<1>8. PICK p \in Nat : p = Products(dims)[m - 1]
  BY <1>6
<1>9. PICK d \in Nat : d = dims[m]
  BY <1>6
<1>10. p * d \in Nat
  OBVIOUS
<1>11. QED BY <1>3, <1>7, <1>8, <1>9, <1>10

\* The same for sums.
IsSums(f, ns, n) == f = [i \in 0..n |-> IF i = 0 THEN 0 ELSE f[i - 1] + ns[i]]

\* The recursive definition defines a function, by a least counterexample.
LEMMA SumsExist ==
  ASSUME NEW ns, NEW n \in Nat
  PROVE  \E f : IsSums(f, ns, n)
<1> DEFINE T == {k \in Nat : ~ \E f : IsSums(f, ns, k)}
<1>1. SUFFICES ASSUME T # {} PROVE FALSE
  BY Zenon
<1>2. PICK m \in T : \A k \in T : m <= k
  <2> HIDE DEF T
  <2>1. T \in SUBSET Nat
    BY DEF T
  <2>2. QED BY <1>1, <2>1, LeastNat, Zenon
<1>3. m \in Nat /\ ~ \E f : IsSums(f, ns, m)
  BY Zenon
<1>4. CASE m = 0
  <2>1. PICK f : f = [i \in 0..0 |-> 0]
    OBVIOUS
  <2>2. IsSums(f, ns, 0)
    BY <2>1 DEF IsSums
  <2>3. QED BY <2>2, <1>3, <1>4
<1>5. CASE m # 0
  <2>1. m - 1 \in Nat /\ m - 1 \notin T
    BY <1>2, <1>3, <1>5
  <2>2. PICK f : IsSums(f, ns, m - 1)
    BY <2>1, Zenon
  <2>3. PICK g : g = [i \in 0..m |-> IF i = m THEN f[m - 1] + ns[m] ELSE f[i]]
    OBVIOUS
  <2>4. \A i \in 0..(m - 1) : f[i] = IF i = 0 THEN 0 ELSE f[i - 1] + ns[i]
    BY <2>2, Zenon DEF IsSums
  <2>5. \A i \in 0..m : g[i] = IF i = 0 THEN 0 ELSE g[i - 1] + ns[i]
    <3> SUFFICES ASSUME NEW i \in 0..m PROVE g[i] = IF i = 0 THEN 0 ELSE g[i - 1] + ns[i]
      OBVIOUS
    <3>1. CASE i = m
      <4>1. m - 1 \in 0..m /\ m - 1 # m /\ i # 0
        BY <1>3, <1>5, <3>1
      <4>2. QED BY <2>3, <4>1, <3>1, Zenon
    <3>2. CASE i # m /\ i = 0
      BY <2>3, <2>4, <3>2, <1>3, <1>5
    <3>3. CASE i # m /\ i # 0
      <4>1. i \in 0..(m - 1) /\ i - 1 \in 0..m /\ i - 1 # m
        BY <1>3, <3>3
      <4>2. g[i] = f[i] /\ g[i - 1] = f[i - 1]
        BY <2>3, <4>1, <3>3, Zenon
      <4>3. QED BY <2>4, <4>1, <4>2, <3>3, Zenon
    <3>4. QED BY <3>1, <3>2, <3>3
  <2>6. IsSums(g, ns, m)
    BY <2>3, <2>5 DEF IsSums
  <2>7. QED BY <2>6, <1>3
<1>6. QED BY <1>4, <1>5

\* The empty sum is zero, and each number adds to the one before.
LEMMA SumsAre ==
  ASSUME NEW ns, Len(ns) \in Nat
  PROVE  /\ Sums(ns)[0] = 0
         /\ \A i \in 1..Len(ns) : Sums(ns)[i] = Sums(ns)[i - 1] + ns[i]
<1>1. PICK f : IsSums(f, ns, Len(ns))
  BY SumsExist
<1>2. Sums(ns) = CHOOSE s : s = [i \in 0..Len(ns) |-> IF i = 0 THEN 0 ELSE s[i - 1] + ns[i]]
  BY Zenon DEF Sums
<1>3. IsSums(Sums(ns), ns, Len(ns))
  BY <1>1, <1>2, Zenon DEF IsSums
<1>4. \A i \in 0..Len(ns) :
        Sums(ns)[i] = IF i = 0 THEN 0 ELSE Sums(ns)[i - 1] + ns[i]
  BY <1>3, Zenon DEF IsSums
<1>5. Sums(ns)[0] = 0
  <2>1. 0 \in 0..Len(ns)
    OBVIOUS
  <2>2. QED BY <1>4, <2>1, Zenon
<1>6. ASSUME NEW i \in 1..Len(ns)
      PROVE  Sums(ns)[i] = Sums(ns)[i - 1] + ns[i]
  <2>1. i \in 0..Len(ns) /\ i # 0
    OBVIOUS
  <2>2. QED BY <1>4, <2>1, Zenon
<1>7. QED BY <1>5, <1>6, Zenon

\* A sum of naturals is one.
LEMMA SumsNat ==
  ASSUME NEW ns \in Seq(Nat)
  PROVE  \A i \in 0..Len(ns) : Sums(ns)[i] \in Nat
<1> DEFINE T == {i \in 0..Len(ns) : Sums(ns)[i] \notin Nat}
<1>0. Len(ns) \in Nat /\ \A i \in 1..Len(ns) : ns[i] \in Nat
  OBVIOUS
<1>1. SUFFICES ASSUME T # {} PROVE FALSE
  BY Zenon
<1>2. PICK m \in T : \A k \in T : m <= k
  <2> HIDE DEF T
  <2>1. T \in SUBSET Nat
    BY <1>0 DEF T
  <2>2. QED BY <1>1, <2>1, LeastNat, Zenon
<1>3. m \in 0..Len(ns) /\ Sums(ns)[m] \notin Nat
  BY Zenon
<1>4. m # 0
  <2>1. Sums(ns)[0] = 0
    BY <1>0, SumsAre, Zenon
  <2>2. QED BY <2>1, <1>3
<1>5. m \in 1..Len(ns) /\ m - 1 \in 0..Len(ns) /\ m - 1 \notin T
  BY <1>0, <1>2, <1>3, <1>4
<1>6. Sums(ns)[m - 1] \in Nat /\ ns[m] \in Nat
  BY <1>0, <1>5, Zenon
<1>7. Sums(ns)[m] = Sums(ns)[m - 1] + ns[m]
  BY <1>0, <1>5, SumsAre, Zenon
<1>8. PICK p \in Nat : p = Sums(ns)[m - 1]
  BY <1>6
<1>9. PICK d \in Nat : d = ns[m]
  BY <1>6
<1>10. p + d \in Nat
  OBVIOUS
<1>11. QED BY <1>3, <1>7, <1>8, <1>9, <1>10

\* A product of positive numbers is positive.
LEMMA ProductsPositive ==
  ASSUME NEW dims \in Seq(Nat \ {0})
  PROVE  \A i \in 0..Len(dims) : Products(dims)[i] \in Nat \ {0}
<1> DEFINE T == {i \in 0..Len(dims) : Products(dims)[i] \notin Nat \ {0}}
<1>0. Len(dims) \in Nat /\ \A i \in 1..Len(dims) : dims[i] \in Nat \ {0}
  OBVIOUS
<1>1. SUFFICES ASSUME T # {} PROVE FALSE
  BY Zenon
<1>2. PICK m \in T : \A k \in T : m <= k
  <2> HIDE DEF T
  <2>1. T \in SUBSET Nat
    BY <1>0 DEF T
  <2>2. QED BY <1>1, <2>1, LeastNat, Zenon
<1>3. m \in 0..Len(dims) /\ Products(dims)[m] \notin Nat \ {0}
  BY Zenon
<1>4. m # 0
  <2>1. Products(dims)[0] = 1
    BY <1>0, ProductsAre, Zenon
  <2>2. QED BY <2>1, <1>3
<1>5. m \in 1..Len(dims) /\ m - 1 \in 0..Len(dims) /\ m - 1 \notin T
  BY <1>0, <1>2, <1>3, <1>4
<1>6. Products(dims)[m - 1] \in Nat \ {0} /\ dims[m] \in Nat \ {0}
  BY <1>0, <1>5, Zenon
<1>7. Products(dims)[m] = Products(dims)[m - 1] * dims[m]
  BY <1>0, <1>5, ProductsAre, Zenon
<1>8. PICK p \in Nat \ {0} : p = Products(dims)[m - 1]
  BY <1>6
<1>9. PICK d \in Nat \ {0} : d = dims[m]
  BY <1>6
<1>10. p * d \in Nat \ {0}
  OBVIOUS
<1>11. QED BY <1>3, <1>7, <1>8, <1>9, <1>10

\* Sums of naturals grow.
LEMMA SumsGrow ==
  ASSUME NEW ns \in Seq(Nat), NEW i \in 0..Len(ns), NEW j \in i..Len(ns)
  PROVE  Sums(ns)[i] <= Sums(ns)[j]
<1> DEFINE T == {k \in i..Len(ns) : ~(Sums(ns)[i] <= Sums(ns)[k])}
<1>0. Len(ns) \in Nat /\ i \in Nat /\ \A k \in 1..Len(ns) : ns[k] \in Nat
  OBVIOUS
<1>00. \A k \in 0..Len(ns) : Sums(ns)[k] \in Nat
  BY SumsNat
<1>1. SUFFICES ASSUME T # {} PROVE FALSE
  BY Zenon
<1>2. PICK m \in T : \A k \in T : m <= k
  <2> HIDE DEF T
  <2>1. T \in SUBSET Nat
    BY <1>0 DEF T
  <2>2. QED BY <1>1, <2>1, LeastNat, Zenon
<1>3. m \in i..Len(ns) /\ ~(Sums(ns)[i] <= Sums(ns)[m])
  BY Zenon
<1>4. m # i
  BY <1>00, <1>3
<1>5. m \in 1..Len(ns) /\ m - 1 \in i..Len(ns) /\ m - 1 \in 0..Len(ns) /\ m - 1 \notin T
  BY <1>0, <1>2, <1>3, <1>4
<1>6. Sums(ns)[i] <= Sums(ns)[m - 1]
  BY <1>5, Zenon
<1>7. Sums(ns)[m] = Sums(ns)[m - 1] + ns[m]
  BY <1>0, <1>5, SumsAre, Zenon
<1>8. ns[m] \in Nat /\ Sums(ns)[m - 1] \in Nat /\ Sums(ns)[i] \in Nat
  BY <1>0, <1>00, <1>5
<1>9. QED BY <1>3, <1>6, <1>7, <1>8

\* As many eights.
LEMMA SumOfEights ==
  ASSUME NEW ns \in Seq(Nat), \A k \in 1..Len(ns) : ns[k] = 8
  PROVE  Total(ns) = 8 * Len(ns)
<1> DEFINE T == {k \in 0..Len(ns) : Sums(ns)[k] # 8 * k}
<1>0. Len(ns) \in Nat
  OBVIOUS
<1>1. ASSUME T # {} PROVE FALSE
  <2>1. PICK m \in T : \A k \in T : m <= k
    <3> HIDE DEF T
    <3>1. T \in SUBSET Nat
      BY <1>0 DEF T
    <3>2. QED BY <1>1, <3>1, LeastNat, Zenon
  <2>2. m \in 0..Len(ns) /\ Sums(ns)[m] # 8 * m
    BY <2>1
  <2>3. m # 0
    <3>1. Sums(ns)[0] = 0
      BY <1>0, SumsAre, Zenon
    <3>2. QED BY <3>1, <2>2
  <2>4. m \in 1..Len(ns) /\ m - 1 \in 0..Len(ns) /\ m - 1 \notin T
    BY <1>0, <2>1, <2>2, <2>3
  <2>5. Sums(ns)[m - 1] = 8 * (m - 1)
    BY <2>4, Zenon
  <2>6. Sums(ns)[m] = Sums(ns)[m - 1] + ns[m]
    BY <1>0, <2>4, SumsAre, Zenon
  <2>7. QED BY <2>2, <2>4, <2>5, <2>6
<1>2. Len(ns) \in 0..Len(ns) /\ T = {}
  BY <1>0, <1>1
<1>3. QED BY <1>2 DEF Total

-----------------------------------------------------------------------------
\* Pieces behind pieces, and what is sifted of them.

\* Three sequences, one behind the other.
LEMMA Regroup ==
  ASSUME NEW S, NEW x \in Seq(S), NEW y \in Seq(S), NEW z \in Seq(S),
         NEW v, v = x \o y, NEW w, w = y \o z
  PROVE  v \o z = x \o w
<1>1. (x \o y) \o z = x \o (y \o z)
  BY ConcatAssociative
<1>2. QED BY <1>1

\* The joining of two lists of pieces: the first ones as they are, then the others
\* behind all of them.
LEMMA TogetherBoth ==
  ASSUME NEW S, NEW us \in Seq(Seq(S)), NEW vs \in Seq(Seq(S))
  PROVE  \A i \in 0..Len(vs) : Together(us \o vs)[Len(us) + i] = Flat(us) \o Together(vs)[i]
<1> SUFFICES ASSUME NEW ws, ws = us \o vs
             PROVE  \A i \in 0..Len(vs) : Together(ws)[Len(us) + i] = Flat(us) \o Together(vs)[i]
  OBVIOUS
<1>0. /\ Len(us) \in Nat /\ Len(vs) \in Nat /\ Len(ws) \in Nat /\ Len(ws) = Len(us) + Len(vs)
      /\ ws \in Seq(Seq(S))
      /\ \A i \in 1..Len(us) : ws[i] = us[i]
      /\ \A i \in 1..Len(vs) : ws[Len(us) + i] = vs[i]
  OBVIOUS
<1>1. \A i \in 0..Len(us) : Together(ws)[i] = Together(us)[i]
  <2> DEFINE T == {i \in 0..Len(us) : Together(ws)[i] # Together(us)[i]}
  <2>1. SUFFICES ASSUME T # {} PROVE FALSE
    BY Zenon
  <2>2. PICK m \in T : \A k \in T : m <= k
    <3> HIDE DEF T
    <3>1. T \in SUBSET Nat
      BY <1>0 DEF T
    <3>2. QED BY <2>1, <3>1, LeastNat, Zenon
  <2>3. m \in 0..Len(us) /\ Together(ws)[m] # Together(us)[m]
    BY Zenon
  <2>4. m # 0
    <3>1. Together(ws)[0] = <<>> /\ Together(us)[0] = <<>>
      BY <1>0, TogetherIs, Zenon
    <3>2. QED BY <3>1, <2>3
  <2>5. m \in 1..Len(us) /\ m \in 1..Len(ws) /\ m - 1 \in 0..Len(us) /\ m - 1 \notin T
    BY <1>0, <2>2, <2>3, <2>4
  <2>6. Together(ws)[m - 1] = Together(us)[m - 1] /\ ws[m] = us[m]
    BY <1>0, <2>5, Zenon
  <2>7. Together(ws)[m] = Together(ws)[m - 1] \o ws[m]
        /\ Together(us)[m] = Together(us)[m - 1] \o us[m]
    BY <1>0, <2>5, TogetherIs, Zenon
  <2>8. QED BY <2>3, <2>6, <2>7, Zenon
<1>2. \A i \in 0..Len(vs) : Together(ws)[Len(us) + i] = Flat(us) \o Together(vs)[i]
  <2> DEFINE T == {i \in 0..Len(vs) : Together(ws)[Len(us) + i] # Flat(us) \o Together(vs)[i]}
  <2>1. SUFFICES ASSUME T # {} PROVE FALSE
    BY Zenon
  <2>2. PICK m \in T : \A k \in T : m <= k
    <3> HIDE DEF T
    <3>1. T \in SUBSET Nat
      BY <1>0 DEF T
    <3>2. QED BY <2>1, <3>1, LeastNat, Zenon
  <2>3. m \in 0..Len(vs) /\ Together(ws)[Len(us) + m] # Flat(us) \o Together(vs)[m]
    BY Zenon
  <2>4. PICK a : a = Flat(us)
    OBVIOUS
  <2>5. a \in Seq(S)
    BY <2>4, JoinedIsSeq, Zenon
  <2>6. m # 0
    <3>1. Together(vs)[0] = <<>>
      BY <1>0, TogetherIs, Zenon
    <3>2. Len(us) \in 0..Len(us) /\ Len(us) + 0 = Len(us)
      BY <1>0
    <3>3. Together(ws)[Len(us) + 0] = a
      BY <1>1, <2>4, <3>2, Zenon DEF Flat
    <3>4. a \o <<>> = a
      BY <2>5
    <3>5. QED BY <2>3, <2>4, <3>1, <3>3, <3>4
  <2>7. PICK j : j = Len(us) + m
    OBVIOUS
  <2>8. /\ m \in 1..Len(vs) /\ j \in 1..Len(ws) /\ m - 1 \in 0..Len(vs) /\ m - 1 \notin T
        /\ j - 1 = Len(us) + (m - 1)
    <3>1. m \in 1..Len(vs)
      BY <1>0, <2>3, <2>6
    <3>2. m - 1 \in 0..Len(vs) /\ m - 1 < m
      BY <1>0, <3>1
    <3>3. m - 1 \notin T
      <4> HIDE DEF T
      <4>1. \A k \in T : m <= k
        BY <2>2, Zenon
      <4>2. ~(m <= m - 1)
        BY <3>1
      <4>3. QED BY <4>1, <4>2, Zenon
    <3>4. PICK la, lb : la = Len(us) /\ lb = Len(vs) /\ la \in Nat /\ lb \in Nat
      BY <1>0
    <3>5. Len(ws) = la + lb /\ m \in 1..lb /\ j = la + m
      BY <1>0, <2>7, <3>1, <3>4
    <3>6. j \in 1..(la + lb) /\ j - 1 = la + (m - 1)
      BY <3>4, <3>5
    <3>7. QED BY <3>1, <3>2, <3>3, <3>4, <3>5, <3>6
  <2>9. PICK b : b = Together(vs)[m - 1]
    OBVIOUS
  <2>10. PICK c : c = vs[m]
    OBVIOUS
  <2>11. b \in Seq(S) /\ c \in Seq(S)
    BY <2>8, <2>9, <2>10, TogetherSeqs
  <2>12. Together(ws)[Len(us) + (m - 1)] = a \o b
    BY <2>4, <2>8, <2>9, Zenon
  <2>13. ws[j] = c
    BY <1>0, <2>7, <2>8, <2>10
  <2>14. Together(ws)[j] = Together(ws)[j - 1] \o ws[j]
    BY <1>0, <2>8, TogetherIs, Zenon
  <2>15. PICK ab : ab = a \o b
    OBVIOUS
  <2>16. PICK bc : bc = b \o c
    OBVIOUS
  <2>17. Together(ws)[j] = ab \o c
    BY <2>8, <2>12, <2>13, <2>14, <2>15, Zenon
  <2>18. Together(vs)[m] = bc
    BY <1>0, <2>8, <2>9, <2>10, <2>16, TogetherIs, Zenon
  <2>19. ab \o c = a \o bc
    <3>1. a \in Seq(S) /\ b \in Seq(S) /\ c \in Seq(S)
      BY <2>5, <2>11
    <3> HIDE DEF T
    <3>2. QED BY ONLY <3>1, <2>15, <2>16, Regroup
  <2>20. QED BY <2>3, <2>4, <2>7, <2>17, <2>18, <2>19, Zenon
<1>3. QED BY <1>2, Zenon

\* Joining two lists of pieces is joining what each joins to.
LEMMA FlatBoth ==
  ASSUME NEW S, NEW us \in Seq(Seq(S)), NEW vs \in Seq(Seq(S))
  PROVE  Flat(us \o vs) = Flat(us) \o Flat(vs)
<1>1. PICK ws : ws = us \o vs
  OBVIOUS
<1>2. Len(ws) = Len(us) + Len(vs) /\ Len(vs) \in 0..Len(vs)
  BY <1>1
<1>3. Together(ws)[Len(us) + Len(vs)] = Flat(us) \o Together(vs)[Len(vs)]
  <2>1. \A i \in 0..Len(vs) : Together(us \o vs)[Len(us) + i] = Flat(us) \o Together(vs)[i]
    BY TogetherBoth, Zenon
  <2>2. QED BY <1>1, <1>2, <2>1, Zenon
<1>4. QED BY <1>1, <1>2, <1>3, Zenon DEF Flat

\* One piece is what it joins to, and no piece joins to nothing.
LEMMA FlatOne ==
  ASSUME NEW S, NEW x \in Seq(S)
  PROVE  Flat(<<x>>) = x /\ Flat(<<>>) = <<>>
<1>1. PICK ss : ss = <<x>>
  OBVIOUS
<1>2. Len(ss) = 1 /\ ss[1] = x /\ 1 \in 1..Len(ss) /\ Len(ss) \in Nat
  BY <1>1
<1>3. Together(ss)[0] = <<>> /\ Together(ss)[1] = Together(ss)[1 - 1] \o ss[1]
  BY <1>2, TogetherIs, Zenon
<1>4. Together(ss)[1] = x
  <2>1. 1 - 1 = 0 /\ <<>> \o x = x
    OBVIOUS
  <2>2. QED BY <1>2, <1>3, <2>1
<1>5. Flat(<<x>>) = x
  BY <1>1, <1>2, <1>4, Zenon DEF Flat
<1>6. PICK none : none = <<>>
  OBVIOUS
<1>7. Len(none) = 0 /\ Len(none) \in Nat
  BY <1>6
<1>8. Together(none)[0] = <<>>
  BY <1>7, TogetherIs, Zenon
<1>9. Flat(none) = <<>>
  BY <1>7, <1>8, Zenon DEF Flat
<1>10. QED BY <1>5, <1>6, <1>9, Zenon

StartOf(s, S, m, f) == f \in Seq(S) /\ Len(f) = m /\ \A i \in 1..m : f[i] = s[i]

\* Pieces of one element each join to the sequence of these elements.
LEMMA FlatSingles ==
  ASSUME NEW S, NEW s \in Seq(S), NEW ss, ss = [i \in DOMAIN s |-> <<s[i]>>]
  PROVE  ss \in Seq(Seq(S)) /\ Flat(ss) = s
<1>0. Len(s) \in Nat /\ DOMAIN s = 1..Len(s) /\ \A i \in 1..Len(s) : s[i] \in S
  OBVIOUS
<1>1. ss \in Seq(Seq(S)) /\ Len(ss) = Len(s) /\ \A i \in 1..Len(s) : ss[i] = <<s[i]>>
  <2>1. \A i \in 1..Len(s) : <<s[i]>> \in Seq(S)
    OBVIOUS
  <2>2. ss \in [1..Len(s) -> Seq(S)]
    BY <1>0, <2>1
  <2>3. QED BY <1>0, <2>2
<1> DEFINE T == {m \in 0..Len(s) : ~StartOf(s, S, m, Together(ss)[m])}
<1>2. ASSUME T # {} PROVE FALSE
  <2>1. PICK m \in T : \A k \in T : m <= k
    <3> HIDE DEF T
    <3>1. T \in SUBSET Nat
      BY <1>0 DEF T
    <3>2. QED BY <1>2, <3>1, LeastNat, Zenon
  <2>2. m \in 0..Len(s) /\ ~StartOf(s, S, m, Together(ss)[m])
    BY <2>1, Zenon
  <2>3. m # 0
    <3>1. Together(ss)[0] = <<>>
      BY <1>0, <1>1, TogetherIs, Zenon
    <3>2. StartOf(s, S, 0, <<>>)
      BY DEF StartOf
    <3>3. QED BY <3>1, <3>2, <2>2, Zenon
  <2>4. m \in 1..Len(s) /\ m - 1 \in 0..Len(s) /\ m - 1 \notin T
    BY <1>0, <2>1, <2>2, <2>3
  <2>5. PICK f : f = Together(ss)[m - 1]
    OBVIOUS
  <2>6. StartOf(s, S, m - 1, f)
    BY <2>4, <2>5, Zenon
  <2>7. Together(ss)[m] = f \o <<s[m]>>
    <3>1. Together(ss)[m] = Together(ss)[m - 1] \o ss[m]
      BY <1>0, <1>1, <2>4, TogetherIs, Zenon
    <3>2. QED BY <1>1, <2>4, <2>5, <3>1, Zenon
  <2>8. StartOf(s, S, m, f \o <<s[m]>>)
    <3>1. f \in Seq(S) /\ Len(f) = m - 1 /\ \A i \in 1..(m - 1) : f[i] = s[i]
      BY <2>6 DEF StartOf
    <3>2. s[m] \in S
      BY <1>0, <2>4
    <3>3. PICK g : g = f \o <<s[m]>>
      OBVIOUS
    <3>4. g \in Seq(S) /\ Len(g) = m /\ g[m] = s[m] /\ \A i \in 1..(m - 1) : g[i] = f[i]
      <4>1. g \in Seq(S) /\ Len(g) = m
        BY <2>4, <3>1, <3>2, <3>3
      <4>2. PICK k \in Nat : k = Len(f)
        BY <3>1
      <4>3. m = k + 1 /\ \A i \in 1..(m - 1) : i \in 1..k
        BY <2>4, <3>1, <4>2
      <4>4. g[k + 1] = s[m] /\ \A i \in 1..k : g[i] = f[i]
        BY <3>1, <3>2, <3>3, <4>2
      <4>5. QED BY <4>1, <4>3, <4>4
    <3>5. \A i \in 1..m : g[i] = s[i]
      BY <2>4, <3>1, <3>4
    <3>6. QED BY <3>3, <3>4, <3>5 DEF StartOf
  <2>9. QED BY <2>2, <2>7, <2>8, Zenon
<1>3. Len(s) \in 0..Len(s) /\ Len(s) \notin T
  <2>1. Len(s) \in 0..Len(s)
    BY <1>0
  <2>2. QED BY <1>2, <2>1, Zenon
<1>4. StartOf(s, S, Len(s), Together(ss)[Len(s)])
  BY <1>3, Zenon
<1>5. PICK g : g = Together(ss)[Len(s)]
  OBVIOUS
<1>6. g = s
  <2>1. g \in Seq(S) /\ Len(g) = Len(s) /\ \A i \in 1..Len(s) : g[i] = s[i]
    BY <1>4, <1>5 DEF StartOf
  <2>2. QED BY <2>1, SeqEqual, Zenon
<1>7. QED BY <1>1, <1>5, <1>6, Zenon DEF Flat

\* Each element as a piece of its own, or none where it is not in A.
Sieve(s, A) == [i \in DOMAIN s |-> IF i \in {j \in DOMAIN s : s[j] \in A} THEN <<s[i]>> ELSE <<>>]

\* Sifting is joining these.
LEMMA SiftedIs ==
  ASSUME NEW S, NEW s \in Seq(S), NEW A
  PROVE  /\ Sifted(s, A) = Flat(Sieve(s, A))
         /\ Sieve(s, A) \in Seq(Seq(S)) /\ Len(Sieve(s, A)) = Len(s)
         /\ \A i \in 1..Len(s) : Sieve(s, A)[i] = IF s[i] \in A THEN <<s[i]>> ELSE <<>>
         /\ Sifted(s, A) \in Seq(S)
         /\ \A k \in 1..Len(Sifted(s, A)) : Sifted(s, A)[k] \in A
<1>0. Len(s) \in Nat /\ DOMAIN s = 1..Len(s) /\ \A i \in 1..Len(s) : s[i] \in S
  OBVIOUS
<1>1. PICK v : v = Sieve(s, A)
  OBVIOUS
<1>2. \A i \in 1..Len(s) : v[i] = IF s[i] \in A THEN <<s[i]>> ELSE <<>>
  BY <1>0, <1>1 DEF Sieve
<1>3. v \in [1..Len(s) -> Seq(S)]
  <2>1. \A i \in 1..Len(s) : (IF s[i] \in A THEN <<s[i]>> ELSE <<>>) \in Seq(S)
    BY <1>0
  <2>2. v = [i \in 1..Len(s) |-> v[i]]
    BY <1>0, <1>1 DEF Sieve
  <2>3. QED BY <1>2, <2>1, <2>2
<1>4. v \in Seq(Seq(S)) /\ Len(v) = Len(s)
  BY <1>0, <1>3
<1>5. Sifted(s, A) = Flat(v)
  BY <1>1, Zenon DEF Sifted, Those, Sieve
<1>6. Flat(v) \in Seq(S)
  BY <1>4, JoinedIsSeq, Zenon
<1>7. ASSUME NEW k \in 1..Len(Flat(v)) PROVE Flat(v)[k] \in A
  <2>1. PICK i \in 1..Len(v) : \E j \in 1..Len(v[i]) : Flat(v)[k] = v[i][j]
    BY <1>4, JoinedFrom, Zenon
  <2>2. PICK j \in 1..Len(v[i]) : Flat(v)[k] = v[i][j]
    BY <2>1
  <2>3. v[i] = IF s[i] \in A THEN <<s[i]>> ELSE <<>>
    BY <1>2, <1>4
  <2>4. s[i] \in A
    <3>1. CASE s[i] \notin A
      BY <2>2, <2>3, <3>1
    <3>2. QED BY <3>1
  <2>5. v[i] = <<s[i]>> /\ j = 1
    BY <2>2, <2>3, <2>4
  <2>6. QED BY <2>2, <2>4, <2>5
<1>8. QED BY <1>1, <1>2, <1>4, <1>5, <1>6, <1>7, Zenon

\* Sifting two sequences one behind the other is sifting each.
LEMMA SiftedBoth ==
  ASSUME NEW S, NEW s \in Seq(S), NEW t \in Seq(S), NEW A
  PROVE  Sifted(s \o t, A) = Sifted(s, A) \o Sifted(t, A)
<1>1. PICK w : w = s \o t
  OBVIOUS
<1>2. /\ w \in Seq(S) /\ Len(w) = Len(s) + Len(t) /\ Len(s) \in Nat /\ Len(t) \in Nat
      /\ \A i \in 1..Len(s) : w[i] = s[i]
      /\ \A i \in 1..Len(t) : w[Len(s) + i] = t[i]
  BY <1>1
<1>3. PICK a : a = Sieve(s, A)
  OBVIOUS
<1>4. PICK b : b = Sieve(t, A)
  OBVIOUS
<1>5. PICK c : c = Sieve(w, A)
  OBVIOUS
<1>6. /\ a \in Seq(Seq(S)) /\ Len(a) = Len(s)
      /\ \A i \in 1..Len(s) : a[i] = IF s[i] \in A THEN <<s[i]>> ELSE <<>>
  BY <1>3, SiftedIs, Zenon
<1>7. /\ b \in Seq(Seq(S)) /\ Len(b) = Len(t)
      /\ \A i \in 1..Len(t) : b[i] = IF t[i] \in A THEN <<t[i]>> ELSE <<>>
  BY <1>4, SiftedIs, Zenon
<1>8. /\ c \in Seq(Seq(S)) /\ Len(c) = Len(w)
      /\ \A i \in 1..Len(w) : c[i] = IF w[i] \in A THEN <<w[i]>> ELSE <<>>
  <2>1. w \in Seq(S)
    BY <1>2
  <2>2. QED BY <2>1, <1>5, SiftedIs, Zenon
<1>9. c = a \o b
  <2>1. PICK d : d = a \o b
    OBVIOUS
  <2>2. /\ d \in Seq(Seq(S)) /\ Len(d) = Len(a) + Len(b)
        /\ \A i \in 1..Len(a) : d[i] = a[i]
        /\ \A i \in 1..Len(b) : d[Len(a) + i] = b[i]
    <3>1. a \in Seq(Seq(S)) /\ b \in Seq(Seq(S))
      BY <1>6, <1>7
    <3>2. QED BY <2>1, <3>1
  <2>3. Len(c) = Len(d)
    BY <1>2, <1>6, <1>7, <1>8, <2>2
  <2>4. ASSUME NEW i \in 1..Len(c) PROVE c[i] = d[i]
    <3>1. CASE i <= Len(s)
      <4>1. i \in 1..Len(w) /\ i \in Nat \ {0}
        BY <1>2, <1>8, <2>4
      <4>2. i \in 1..Len(s) /\ i \in 1..Len(a)
        BY <1>2, <1>6, <3>1, <4>1
      <4>3. c[i] = (IF w[i] \in A THEN <<w[i]>> ELSE <<>>) /\ w[i] = s[i]
        BY <1>2, <1>8, <4>1, <4>2, Zenon
      <4>4. d[i] = (IF s[i] \in A THEN <<s[i]>> ELSE <<>>)
        BY <1>6, <2>2, <4>2, Zenon
      <4>5. QED BY <4>3, <4>4
    <3>2. CASE ~(i <= Len(s))
      <4>1. PICK j \in 1..Len(t) : i = Len(s) + j
        <5>1. i - Len(s) \in 1..Len(t) /\ i = Len(s) + (i - Len(s))
          BY <1>2, <1>8, <3>2
        <5>2. QED BY <5>1
      <4>2. c[i] = (IF w[i] \in A THEN <<w[i]>> ELSE <<>>) /\ w[i] = t[j]
        BY <1>2, <1>8, <4>1
      <4>3. d[i] = b[j] /\ b[j] = IF t[j] \in A THEN <<t[j]>> ELSE <<>>
        BY <1>6, <1>7, <2>2, <4>1
      <4>4. QED BY <4>2, <4>3
    <3>3. QED BY <3>1, <3>2
  <2>5. c = d
    BY <1>8, <2>2, <2>3, <2>4, SeqEqual, Zenon
  <2>6. QED BY <2>1, <2>5
<1>10. Flat(c) = Flat(a) \o Flat(b)
  BY <1>6, <1>7, <1>9, FlatBoth, Zenon
<1>11. Sifted(w, A) = Flat(c) /\ Sifted(s, A) = Flat(a) /\ Sifted(t, A) = Flat(b)
  BY <1>2, <1>3, <1>4, <1>5, SiftedIs, Zenon
<1>12. QED BY <1>1, <1>10, <1>11, Zenon

\* Sifting keeps what is in A, and all where all is.
LEMMA SiftedAll ==
  ASSUME NEW S, NEW s \in Seq(S), NEW A, \A i \in 1..Len(s) : s[i] \in A
  PROVE  Sifted(s, A) = s
<1>1. PICK ss : ss = [i \in DOMAIN s |-> <<s[i]>>]
  OBVIOUS
<1>2. DOMAIN s = 1..Len(s)
  OBVIOUS
<1>3. Sieve(s, A) = ss
  <2>1. \A i \in DOMAIN s : (IF i \in {j \in DOMAIN s : s[j] \in A} THEN <<s[i]>> ELSE <<>>) = <<s[i]>>
    BY <1>2
  <2>2. QED BY <1>1, <2>1 DEF Sieve
<1>4. Flat(ss) = s
  BY <1>1, FlatSingles, Zenon
<1>5. QED BY <1>3, <1>4, SiftedIs, Zenon

-----------------------------------------------------------------------------
\* Each chosen element as a piece of its own, and nothing for the others.
Marked(ts, S) == [i \in DOMAIN ts |-> IF i \in S THEN <<ts[i]>> ELSE <<>>]

\* Where the i-th element of a sequence stands among the chosen ones.
PlaceOf(ts, S, i) == Len(Together(Marked(ts, S))[i - 1]) + 1

\* What is chosen is the concatenation of the marked elements.
LEMMA MarkedIs ==
  ASSUME NEW X, NEW ts \in Seq(X), NEW S
  PROVE  /\ Those(ts, S) = Flat(Marked(ts, S))
         /\ Marked(ts, S) \in Seq(Seq(X)) /\ Len(Marked(ts, S)) = Len(ts)
         /\ \A i \in 1..Len(ts) : Marked(ts, S)[i] = IF i \in S THEN <<ts[i]>> ELSE <<>>
<1>0. Len(ts) \in Nat /\ DOMAIN ts = 1..Len(ts) /\ \A i \in 1..Len(ts) : ts[i] \in X
  OBVIOUS
<1>1. PICK v : v = Marked(ts, S)
  OBVIOUS
<1>2. \A i \in 1..Len(ts) : v[i] = IF i \in S THEN <<ts[i]>> ELSE <<>>
  BY <1>0, <1>1 DEF Marked
<1>3. v \in [1..Len(ts) -> Seq(X)]
  <2>1. \A i \in 1..Len(ts) : (IF i \in S THEN <<ts[i]>> ELSE <<>>) \in Seq(X)
    BY <1>0
  <2>2. v = [i \in 1..Len(ts) |-> v[i]]
    BY <1>0, <1>1 DEF Marked
  <2>3. QED BY <1>2, <2>1, <2>2
<1>4. v \in Seq(Seq(X)) /\ Len(v) = Len(ts)
  BY <1>0, <1>3
<1>5. Those(ts, S) = Flat(v)
  BY <1>1, Zenon DEF Those, Marked
<1>6. QED BY <1>1, <1>2, <1>4, <1>5, Zenon

\* A chosen element stands at its place.
LEMMA PlaceHolds ==
  ASSUME NEW X, NEW ts \in Seq(X), NEW S, NEW i \in 1..Len(ts), i \in S
  PROVE  /\ PlaceOf(ts, S, i) \in 1..Len(Those(ts, S))
         /\ Those(ts, S)[PlaceOf(ts, S, i)] = ts[i]
         /\ Len(Together(Marked(ts, S))[i]) = PlaceOf(ts, S, i)
<1>1. PICK v : v = Marked(ts, S)
  OBVIOUS
<1>2. v \in Seq(Seq(X)) /\ Len(v) = Len(ts) /\ v[i] = <<ts[i]>> /\ Those(ts, S) = Flat(v)
  BY <1>1, MarkedIs
<1>3. PICK a : a = Together(v)[i - 1]
  OBVIOUS
<1>4. PICK b : b = Together(v)[i]
  OBVIOUS
<1>5. PICK d : d = Flat(v)
  OBVIOUS
<1>6. i \in 1..Len(v) /\ i \in 0..Len(v) /\ i - 1 \in 0..Len(v) /\ Len(v) \in i..Len(v) /\ Len(v) \in Nat
  BY <1>2
<1>7. a \in Seq(X) /\ b \in Seq(X) /\ d \in Seq(X)
  BY <1>2, <1>3, <1>4, <1>5, <1>6, TogetherSeqs, JoinedIsSeq
<1>8. b = a \o <<ts[i]>>
  BY <1>2, <1>3, <1>4, <1>6, TogetherIs, Zenon
<1>9. ts[i] \in X
  OBVIOUS
<1>10. Len(b) = Len(a) + 1 /\ b[Len(a) + 1] = ts[i] /\ Len(a) \in Nat
  BY <1>7, <1>8, <1>9
<1>11. StandsIn(v, i, Len(v))
  BY <1>2, <1>6, TogetherStands, Zenon
<1>12. Len(b) <= Len(d) /\ \A k \in 1..Len(b) : d[k] = b[k]
  BY <1>4, <1>5, <1>11 DEF StandsIn, Flat
<1>13. Len(a) + 1 \in 1..Len(b) /\ Len(a) + 1 \in 1..Len(d)
  BY <1>7, <1>10, <1>12
<1>14. d[Len(a) + 1] = ts[i]
  BY <1>10, <1>12, <1>13
<1>15. PlaceOf(ts, S, i) = Len(a) + 1
  BY <1>1, <1>3 DEF PlaceOf
<1>16. QED BY <1>1, <1>2, <1>4, <1>5, <1>10, <1>13, <1>14, <1>15

\* Later elements have later places.
LEMMA PlacesGrow ==
  ASSUME NEW X, NEW ts \in Seq(X), NEW S, NEW i \in 1..Len(ts), i \in S,
         NEW j \in 1..Len(ts), i < j
  PROVE  PlaceOf(ts, S, i) < PlaceOf(ts, S, j)
<1>1. PICK v : v = Marked(ts, S)
  OBVIOUS
<1>2. v \in Seq(Seq(X)) /\ Len(v) = Len(ts)
  BY <1>1, MarkedIs
<1>3. PICK p : p = PlaceOf(ts, S, i)
  OBVIOUS
<1>4. Len(Together(v)[i]) = p /\ p \in Nat
  BY <1>1, <1>3, PlaceHolds
<1>5. i \in 0..Len(v) /\ j - 1 \in i..Len(v) /\ j - 1 \in 0..Len(v)
  BY <1>2
<1>6. StandsIn(v, i, j - 1)
  BY <1>2, <1>5, TogetherStands, Zenon
<1>7. PICK c : c = Together(v)[j - 1]
  OBVIOUS
<1>8. c \in Seq(X)
  BY <1>2, <1>5, <1>7, TogetherSeqs
<1>9. p <= Len(c) /\ Len(c) \in Nat
  BY <1>4, <1>6, <1>7, <1>8 DEF StandsIn
<1>10. PlaceOf(ts, S, j) = Len(c) + 1
  BY <1>1, <1>7 DEF PlaceOf
<1>11. QED BY <1>3, <1>4, <1>9, <1>10

\* Elements that are not chosen add nothing.
LEMMA NoneMarked ==
  ASSUME NEW X, NEW ts \in Seq(X), NEW S, NEW i \in 0..Len(ts), NEW j \in i..Len(ts),
         \A k \in (i + 1)..j : k \notin S
  PROVE  Together(Marked(ts, S))[j] = Together(Marked(ts, S))[i]
<1>1. PICK v : v = Marked(ts, S)
  OBVIOUS
<1>2. /\ v \in Seq(Seq(X)) /\ Len(v) = Len(ts) /\ Len(ts) \in Nat
      /\ \A k \in 1..Len(ts) : v[k] = IF k \in S THEN <<ts[k]>> ELSE <<>>
  BY <1>1, MarkedIs
<1>3. \A k \in 1..Len(ts) : Together(v)[k] = Together(v)[k - 1] \o v[k]
  BY <1>2, TogetherIs
<1> DEFINE T == {k \in i..j : Together(v)[k] # Together(v)[i]}
<1>4. ASSUME T # {} PROVE FALSE
  <2>1. PICK m \in T : \A k \in T : m <= k
    <3> HIDE DEF T
    <3>1. T \in SUBSET Nat
      BY <1>2 DEF T
    <3>2. QED BY <1>4, <3>1, LeastNat, Zenon
  <2>2. m \in i..j /\ Together(v)[m] # Together(v)[i]
    BY <2>1, Zenon
  <2>3. m # i
    BY <2>2
  <2>4. m \in (i + 1)..j /\ m \in 1..Len(ts) /\ m - 1 \in i..j /\ m - 1 < m /\ m - 1 \in 0..Len(ts)
    BY <1>2, <2>2, <2>3
  <2>5. m - 1 \notin T
    <3> HIDE DEF T
    <3>1. ~(m <= m - 1)
      BY <2>4
    <3>2. QED BY <2>1, <3>1, Zenon
  <2>6. Together(v)[m - 1] = Together(v)[i]
    BY <2>4, <2>5, Zenon
  <2>7. v[m] = <<>>
    BY <1>2, <2>4
  <2>8. PICK a : a = Together(v)[m - 1]
    OBVIOUS
  <2>9. a \in Seq(X)
    BY <1>2, <2>4, <2>8, TogetherSeqs
  <2>10. a \o <<>> = a
    BY <2>9
  <2>11. Together(v)[m] = a \o <<>>
    BY <1>3, <2>4, <2>7, <2>8, Zenon
  <2>12. QED BY <2>2, <2>6, <2>8, <2>10, <2>11, Zenon
<1>5. j \notin T
  BY <1>4
<1>6. QED BY <1>1, <1>5

\* Every place is that of a chosen element.
LEMMA PlacesAreAll ==
  ASSUME NEW X, NEW ts \in Seq(X), NEW S, NEW k \in 1..Len(Those(ts, S))
  PROVE  \E i \in 1..Len(ts) : i \in S /\ PlaceOf(ts, S, i) = k
<1>1. PICK v : v = Marked(ts, S)
  OBVIOUS
<1>2. /\ v \in Seq(Seq(X)) /\ Len(v) = Len(ts) /\ Len(ts) \in Nat /\ Those(ts, S) = Flat(v)
      /\ \A i \in 1..Len(ts) : v[i] = IF i \in S THEN <<ts[i]>> ELSE <<>>
  BY <1>1, MarkedIs
<1>3. /\ Together(v)[0] = <<>>
      /\ \A i \in 1..Len(ts) : Together(v)[i] = Together(v)[i - 1] \o v[i]
  BY <1>2, TogetherIs
<1>4. \A i \in 0..Len(ts) : Together(v)[i] \in Seq(X)
  BY <1>2, TogetherSeqs
<1> DEFINE T == {m \in 0..Len(ts) : k <= Len(Together(v)[m])}
<1>5. Len(ts) \in T
  BY <1>2 DEF Flat
<1>6. PICK m \in T : \A o \in T : m <= o
  <2> HIDE DEF T
  <2>1. T \in SUBSET Nat
    BY <1>2 DEF T
  <2>2. T # {}
    BY <1>5
  <2>3. QED BY <2>1, <2>2, LeastNat, Zenon
<1>7. m \in 0..Len(ts) /\ k <= Len(Together(v)[m])
  BY <1>6, Zenon
<1>8. m # 0
  BY <1>3, <1>7
<1>9. m \in 1..Len(ts) /\ m - 1 \in 0..Len(ts) /\ m - 1 < m
  BY <1>2, <1>7, <1>8
<1>10. m - 1 \notin T
  <2> HIDE DEF T
  <2>1. ~(m <= m - 1)
    BY <1>9
  <2>2. QED BY <1>6, <2>1, Zenon
<1>11. PICK a : a = Together(v)[m - 1]
  OBVIOUS
<1>12. a \in Seq(X) /\ Len(a) \in Nat
  BY <1>4, <1>9, <1>11
<1>13. ~(k <= Len(a))
  BY <1>9, <1>10, <1>11
<1>14. CASE m \notin S
  <2>1. Together(v)[m] = a \o <<>>
    BY <1>2, <1>3, <1>9, <1>11, <1>14
  <2>2. a \o <<>> = a
    BY <1>12
  <2>3. QED BY <1>7, <1>13, <2>1, <2>2
<1>15. CASE m \in S
  <2>1. Together(v)[m] = a \o <<ts[m]>>
    BY <1>2, <1>3, <1>9, <1>11, <1>15
  <2>2. Len(a \o <<ts[m]>>) = Len(a) + 1
    <3>1. ts[m] \in X
      BY <1>9
    <3>2. QED BY <1>12, <3>1
  <2>3. k = Len(a) + 1
    BY <1>7, <1>12, <1>13, <2>1, <2>2
  <2>4. PlaceOf(ts, S, m) = Len(a) + 1
    BY <1>1, <1>11 DEF PlaceOf
  <2>5. QED BY <1>9, <1>15, <2>3, <2>4
<1>16. QED BY <1>14, <1>15

-----------------------------------------------------------------------------
\* Of the pieces bs, those at l and r become one at l; between them there is nothing.
Fused(bs, cs, l, r, a, b, c) ==
  /\ bs[l] = <<a>> /\ bs[r] = <<b>> /\ cs[l] = <<c>> /\ cs[r] = <<>>
  /\ \A k \in 1..Len(bs) : k # l /\ k # r => cs[k] = bs[k]
  /\ \A k \in 1..Len(bs) : l < k /\ k < r => bs[k] = <<>>

\* Left of them both are the same.
LEMMA FusedLeft ==
  ASSUME NEW S, NEW bs \in Seq(Seq(S)), NEW cs \in Seq(Seq(S)), Len(cs) = Len(bs),
         NEW l \in 1..Len(bs), NEW r \in 1..Len(bs), l < r, NEW a, NEW b, NEW c,
         Fused(bs, cs, l, r, a, b, c)
  PROVE  \A k \in 0..(l - 1) : Together(cs)[k] = Together(bs)[k]
<1>0. Len(bs) \in Nat
  OBVIOUS
<1>1. /\ Together(bs)[0] = <<>> /\ Together(cs)[0] = <<>>
      /\ \A i \in 1..Len(bs) : Together(bs)[i] = Together(bs)[i - 1] \o bs[i]
      /\ \A i \in 1..Len(bs) : Together(cs)[i] = Together(cs)[i - 1] \o cs[i]
  <2>1. Len(cs) \in Nat
    BY <1>0
  <2>2. QED BY <1>0, <2>1, TogetherIs
<1> DEFINE T == {k \in 0..(l - 1) : Together(cs)[k] # Together(bs)[k]}
<1>2. ASSUME T # {} PROVE FALSE
  <2>1. PICK m \in T : \A k \in T : m <= k
    <3> HIDE DEF T
    <3>1. T \in SUBSET Nat
      BY <1>0 DEF T
    <3>2. QED BY <1>2, <3>1, LeastNat, Zenon
  <2>2. m \in 0..(l - 1) /\ Together(cs)[m] # Together(bs)[m]
    BY <2>1, Zenon
  <2>3. m # 0
    BY <1>1, <2>2
  <2>4. m \in 1..Len(bs) /\ m # l /\ m # r /\ m - 1 \in 0..(l - 1) /\ m - 1 < m
    BY <1>0, <2>2, <2>3
  <2>5. m - 1 \notin T
    <3> HIDE DEF T
    <3>1. ~(m <= m - 1)
      BY <2>4
    <3>2. QED BY <2>1, <3>1, Zenon
  <2>6. Together(cs)[m - 1] = Together(bs)[m - 1]
    BY <2>4, <2>5, Zenon
  <2>7. cs[m] = bs[m]
    BY <2>4, Zenon DEF Fused
  <2>8. QED BY <1>1, <2>2, <2>4, <2>6, <2>7, Zenon
<1>3. QED BY <1>2, Zenon

\* Between them nothing is added to the first of them.
LEMMA FusedBetween ==
  ASSUME NEW S, NEW bs \in Seq(Seq(S)), NEW cs \in Seq(Seq(S)), Len(cs) = Len(bs),
         NEW l \in 1..Len(bs), NEW r \in 1..Len(bs), l < r, NEW a, NEW b, NEW c,
         Fused(bs, cs, l, r, a, b, c)
  PROVE  \A k \in l..(r - 1) : /\ Together(bs)[k] = Together(bs)[l]
                               /\ Together(cs)[k] = Together(cs)[l]
<1>0. Len(bs) \in Nat
  OBVIOUS
<1>1. /\ \A i \in 1..Len(bs) : Together(bs)[i] = Together(bs)[i - 1] \o bs[i]
      /\ \A i \in 1..Len(bs) : Together(cs)[i] = Together(cs)[i - 1] \o cs[i]
  <2>1. Len(cs) \in Nat
    BY <1>0
  <2>2. QED BY <1>0, <2>1, TogetherIs
<1>2. \A i \in 0..Len(bs) : Together(bs)[i] \in Seq(S) /\ Together(cs)[i] \in Seq(S)
  BY TogetherSeqs
<1> DEFINE T == {k \in l..(r - 1) : ~(/\ Together(bs)[k] = Together(bs)[l]
                                      /\ Together(cs)[k] = Together(cs)[l])}
<1>3. ASSUME T # {} PROVE FALSE
  <2>1. PICK m \in T : \A k \in T : m <= k
    <3> HIDE DEF T
    <3>1. T \in SUBSET Nat
      BY <1>0 DEF T
    <3>2. QED BY <1>3, <3>1, LeastNat, Zenon
  <2>2. m \in l..(r - 1) /\ ~(Together(bs)[m] = Together(bs)[l] /\ Together(cs)[m] = Together(cs)[l])
    BY <2>1, Zenon
  <2>3. m # l
    BY <2>2
  <2>4. /\ m \in 1..Len(bs) /\ m # l /\ m # r /\ l < m /\ m < r /\ m - 1 \in l..(r - 1)
        /\ m - 1 < m /\ m - 1 \in 0..Len(bs)
    BY <1>0, <2>2, <2>3
  <2>5. m - 1 \notin T
    <3> HIDE DEF T
    <3>1. ~(m <= m - 1)
      BY <2>4
    <3>2. QED BY <2>1, <3>1, Zenon
  <2>6. Together(bs)[m - 1] = Together(bs)[l] /\ Together(cs)[m - 1] = Together(cs)[l]
    BY <2>4, <2>5, Zenon
  <2>7. cs[m] = <<>> /\ bs[m] = <<>>
    BY <2>4, Zenon DEF Fused
  <2>8. PICK x : x = Together(bs)[m - 1]
    OBVIOUS
  <2>9. PICK y : y = Together(cs)[m - 1]
    OBVIOUS
  <2>10. x \o <<>> = x /\ y \o <<>> = y
    <3>1. x \in Seq(S) /\ y \in Seq(S)
      BY <1>2, <2>4, <2>8, <2>9
    <3>2. QED BY <3>1
  <2>11. Together(bs)[m] = x /\ Together(cs)[m] = y
    BY <1>1, <2>4, <2>7, <2>8, <2>9, <2>10, Zenon
  <2>12. QED BY <2>2, <2>6, <2>8, <2>9, <2>11, Zenon
<1>4. QED BY <1>3, Zenon

\* One sequence is another with a third behind it, and with a fourth behind both.
Follows(f, x, q) == f = x \o q

LEMMA FollowsMore ==
  ASSUME NEW S, NEW x \in Seq(S), NEW q \in Seq(S), NEW d \in Seq(S), NEW f, Follows(f, x, q)
  PROVE  Follows(f \o d, x, q \o d)
<1>1. (x \o q) \o d = x \o (q \o d)
  BY ConcatAssociative
<1>2. QED BY <1>1 DEF Follows

\* What follows after the first r pieces, up to the k-th, is the same in both.
SameTail(S, bs, cs, r, k) ==
  \E q \in Seq(S) : /\ Together(bs)[k] = Together(bs)[r] \o q
                     /\ Together(cs)[k] = Together(cs)[r] \o q

\* Right of them the same follows in both.
LEMMA FusedRight ==
  ASSUME NEW S, NEW bs \in Seq(Seq(S)), NEW cs \in Seq(Seq(S)), Len(cs) = Len(bs),
         NEW l \in 1..Len(bs), NEW r \in 1..Len(bs), l < r, NEW a, NEW b, NEW c,
         Fused(bs, cs, l, r, a, b, c)
  PROVE  \A k \in r..Len(bs) : SameTail(S, bs, cs, r, k)
<1>0. Len(bs) \in Nat /\ r \in Nat \ {0}
  OBVIOUS
<1>1. /\ \A i \in 1..Len(bs) : Together(bs)[i] = Together(bs)[i - 1] \o bs[i]
      /\ \A i \in 1..Len(bs) : Together(cs)[i] = Together(cs)[i - 1] \o cs[i]
  <2>1. Len(cs) \in Nat
    BY <1>0
  <2>2. QED BY <1>0, <2>1, TogetherIs
<1>2. \A i \in 0..Len(bs) : Together(bs)[i] \in Seq(S) /\ Together(cs)[i] \in Seq(S)
  BY TogetherSeqs
<1>3. PICK x : x = Together(bs)[r]
  OBVIOUS
<1>4. PICK y : y = Together(cs)[r]
  OBVIOUS
<1>5. x \in Seq(S) /\ y \in Seq(S)
  BY <1>0, <1>2, <1>3, <1>4
<1> DEFINE H(k) == \E q \in Seq(S) : Together(bs)[k] = x \o q /\ Together(cs)[k] = y \o q
           T == {k \in r..Len(bs) : ~H(k)}
<1>6. ASSUME T # {} PROVE FALSE
  <2>1. PICK m \in T : \A k \in T : m <= k
    <3> HIDE DEF T
    <3>1. T \in SUBSET Nat
      BY <1>0 DEF T
    <3>2. QED BY <1>6, <3>1, LeastNat, Zenon
  <2>2. m \in r..Len(bs) /\ ~H(m)
    BY <2>1, Zenon
  <2>3. m # r
    <3>1. <<>> \in Seq(S) /\ x \o <<>> = x /\ y \o <<>> = y
      BY <1>5
    <3>2. H(r)
      BY <1>3, <1>4, <3>1, Zenon
    <3>3. QED BY <2>2, <3>2, Zenon
  <2>4. /\ m \in 1..Len(bs) /\ m # l /\ m # r /\ m - 1 \in r..Len(bs) /\ m - 1 < m
    BY <1>0, <2>2, <2>3
  <2>5. m - 1 \notin T
    <3> HIDE DEF T
    <3>1. ~(m <= m - 1)
      BY <2>4
    <3>2. QED BY <2>1, <3>1, Zenon
  <2>6. PICK q \in Seq(S) : Together(bs)[m - 1] = x \o q /\ Together(cs)[m - 1] = y \o q
    BY <2>4, <2>5, Zenon
  <2>7. PICK d : d = bs[m]
    OBVIOUS
  <2>8. d \in Seq(S) /\ cs[m] = d
    <3>1. cs[m] = bs[m]
      BY <2>4, Zenon DEF Fused
    <3>2. bs[m] \in Seq(S)
      BY <2>4
    <3>3. QED BY <2>7, <3>1, <3>2
  <2>9. PICK f : f = Together(bs)[m - 1]
    OBVIOUS
  <2>10. PICK g : g = Together(cs)[m - 1]
    OBVIOUS
  <2>11. Follows(f \o d, x, q \o d) /\ Follows(g \o d, y, q \o d)
    <3>1. Follows(f, x, q) /\ Follows(g, y, q)
      BY <2>6, <2>9, <2>10 DEF Follows
    <3>2. QED BY <1>5, <2>8, <3>1, FollowsMore, Zenon
  <2>12. q \o d \in Seq(S)
    BY <2>8
  <2>13. Together(bs)[m] = f \o d /\ Together(cs)[m] = g \o d
    BY <1>1, <2>4, <2>7, <2>8, <2>9, <2>10, Zenon
  <2>14. H(m)
    BY <2>11, <2>12, <2>13, Zenon DEF Follows
  <2>15. QED BY <2>2, <2>14, Zenon
<1>7. \A k \in r..Len(bs) : H(k)
  BY <1>6, Zenon
<1>8. QED BY <1>3, <1>4, <1>7, Zenon DEF SameTail

\* In a sequence, c stands for the two elements after the first h.
OneForTwo(new, old, h, c) == new = SubSeq(old, 1, h) \o <<c>> \o SubSeq(old, h + 3, Len(old))

\* What is joined of them: the same but for the two, which have become one.
LEMMA TwoBecomeOne ==
  ASSUME NEW S, NEW bs \in Seq(Seq(S)), NEW cs \in Seq(Seq(S)), Len(cs) = Len(bs),
         NEW l \in 1..Len(bs), NEW r \in 1..Len(bs), l < r,
         NEW a \in S, NEW b \in S, NEW c \in S,
         Fused(bs, cs, l, r, a, b, c)
  PROVE  OneForTwo(Flat(cs), Flat(bs), Len(Together(bs)[l - 1]), c)
<1>0. Len(bs) \in Nat /\ l \in Nat \ {0} /\ r \in Nat \ {0}
      /\ l - 1 \in 0..(l - 1) /\ l - 1 \in 0..Len(bs) /\ r - 1 \in l..(r - 1) /\ Len(bs) \in r..Len(bs)
  OBVIOUS
<1>1. /\ \A i \in 1..Len(bs) : Together(bs)[i] = Together(bs)[i - 1] \o bs[i]
      /\ \A i \in 1..Len(bs) : Together(cs)[i] = Together(cs)[i - 1] \o cs[i]
  <2>1. Len(cs) \in Nat
    BY <1>0
  <2>2. QED BY <1>0, <2>1, TogetherIs
<1>2. \A i \in 0..Len(bs) : Together(bs)[i] \in Seq(S)
  BY TogetherSeqs
<1>3. PICK x : x = Together(bs)[l - 1]
  OBVIOUS
<1>4. x \in Seq(S) /\ Together(cs)[l - 1] = x
  <2>1. x \in Seq(S)
    BY <1>0, <1>2, <1>3
  <2>2. Together(cs)[l - 1] = x
    BY <1>0, <1>3, FusedLeft, Zenon
  <2>3. QED BY <2>1, <2>2
<1>5. Together(bs)[l] = x \o <<a>> /\ Together(cs)[l] = x \o <<c>>
  BY <1>1, <1>3, <1>4 DEF Fused
<1>6. Together(bs)[r - 1] = x \o <<a>> /\ Together(cs)[r - 1] = x \o <<c>>
  <2>1. \A k \in l..(r - 1) : /\ Together(bs)[k] = Together(bs)[l]
                               /\ Together(cs)[k] = Together(cs)[l]
    BY FusedBetween
  <2>2. QED BY <1>0, <1>5, <2>1, Zenon
<1>7. PICK y : y = (x \o <<a>>) \o <<b>>
  OBVIOUS
<1>8. PICK z : z = x \o <<c>>
  OBVIOUS
<1>9. Together(bs)[r] = y
  BY <1>1, <1>6, <1>7 DEF Fused
<1>10. Together(cs)[r] = z
  <2>1. z \o <<>> = z
    BY <1>4, <1>8
  <2>2. Together(cs)[r] = z \o <<>>
    BY <1>1, <1>6, <1>8, Zenon DEF Fused
  <2>3. QED BY <2>1, <2>2
<1>11. PICK q \in Seq(S) : /\ Together(bs)[Len(bs)] = y \o q
                           /\ Together(cs)[Len(bs)] = z \o q
  <2>1. \A k \in r..Len(bs) : SameTail(S, bs, cs, r, k)
    BY FusedRight, Zenon
  <2>2. SameTail(S, bs, cs, r, Len(bs))
    BY <1>0, <2>1, Zenon
  <2>3. QED BY <1>9, <1>10, <2>2, Zenon DEF SameTail
<1>12. PICK f : f = Flat(bs)
  OBVIOUS
<1>13. f = y \o q /\ Flat(cs) = z \o q
  BY <1>11, <1>12 DEF Flat
<1>14. PICK h : h = Len(x)
  OBVIOUS
<1>15. PICK w : w = Len(q)
  OBVIOUS
<1>16. h \in Nat /\ w \in Nat /\ y \in Seq(S) /\ z \in Seq(S) /\ Len(y) = h + 2 /\ f \in Seq(S)
       /\ Len(f) = (h + 2) + w
  <2>1. h \in Nat /\ w \in Nat
    BY <1>4, <1>14, <1>15
  <2>2. x \o <<a>> \in Seq(S) /\ Len(x \o <<a>>) = h + 1
    BY <1>4, <1>14
  <2>3. PICK u : u = x \o <<a>>
    OBVIOUS
  <2>4. y \in Seq(S) /\ Len(y) = h + 2
    <3>1. u \in Seq(S) /\ Len(u) = h + 1 /\ y = u \o <<b>>
      BY <1>7, <2>2, <2>3
    <3>2. y \in Seq(S) /\ Len(y) = (h + 1) + 1
      BY <3>1
    <3>3. QED BY <2>1, <3>2
  <2>5. z \in Seq(S)
    BY <1>4, <1>8
  <2>6. f \in Seq(S) /\ Len(f) = Len(y) + w
    <3>1. y \in Seq(S) /\ q \in Seq(S) /\ f = y \o q
      BY <1>13, <2>4
    <3>2. f \in Seq(S) /\ Len(f) = Len(y) + Len(q)
      BY ONLY <3>1
    <3>3. QED BY <1>15, <3>2
  <2>7. QED BY <2>1, <2>4, <2>5, <2>6
<1>17. SubSeq(f, 1, h) = x
  <2>1. \A k \in 1..h : f[k] = x[k]
    <3>1. TAKE k \in 1..h
    <3>2. k \in 1..Len(x) /\ k \in 1..(h + 1) /\ k \in 1..(h + 2)
      <4>1. k \in 1..h /\ h \in Nat
        BY <1>16
      <4>2. k \in 1..(h + 1) /\ k \in 1..(h + 2)
        BY ONLY <4>1
      <4>3. QED BY <1>14, <4>1, <4>2
    <3>3. PICK u : u = x \o <<a>>
      OBVIOUS
    <3>4. u \in Seq(S) /\ Len(u) = h + 1 /\ u[k] = x[k]
      BY <1>4, <1>14, <3>2, <3>3
    <3>5. y[k] = u[k]
      BY <1>7, <3>2, <3>3, <3>4
    <3>6. f[k] = y[k]
      BY <1>13, <1>16, <3>2
    <3>7. QED BY <3>4, <3>5, <3>6
  <2>2. PICK v : v = SubSeq(f, 1, h)
    OBVIOUS
  <2>3. v \in Seq(S) /\ Len(v) = h /\ \A k \in 1..h : v[k] = f[k]
    BY <1>16, <2>2
  <2>4. QED BY <1>4, <1>14, <2>1, <2>2, <2>3
<1>18. SubSeq(f, h + 3, Len(f)) = q
  <2>1. \A k \in 1..w : f[(h + 2) + k] = q[k]
    <3>1. y \in Seq(S) /\ q \in Seq(S) /\ f = y \o q /\ Len(y) = h + 2 /\ Len(q) = w
      BY <1>13, <1>15, <1>16
    <3>2. \A k \in 1..Len(q) : f[Len(y) + k] = q[k]
      BY ONLY <3>1, ConcatProperties
    <3>3. QED BY <3>1, <3>2
  <2>2. PICK v : v = SubSeq(f, h + 3, Len(f))
    OBVIOUS
  <2>3. v \in Seq(S) /\ Len(v) = w /\ \A k \in 1..w : v[k] = f[(h + 2) + k]
    <3>1. f \in Seq(S) /\ h \in Nat /\ w \in Nat /\ Len(f) = (h + 2) + w /\ v = SubSeq(f, h + 3, Len(f))
      BY <1>16, <2>2
    <3>2. h + 3 \in 1..(Len(f) + 1) /\ Len(f) \in Nat /\ Len(f) - (h + 3) + 1 = w
      BY ONLY <3>1
    <3>3. \A k \in 1..w : (h + 3) + k - 1 = (h + 2) + k /\ (h + 2) + k \in 1..Len(f)
      BY ONLY <3>1
    <3>4. v \in Seq(S) /\ Len(v) = w /\ \A k \in 1..w : v[k] = f[(h + 3) + k - 1]
      BY ONLY <3>1, <3>2, <3>3
    <3>5. \A k \in 1..w : v[k] = f[(h + 2) + k]
      BY <3>3, <3>4, Zenon
    <3>6. QED BY <3>4, <3>5
  <2>4. v \in Seq(S) /\ q \in Seq(S) /\ Len(v) = Len(q) /\ \A k \in 1..Len(v) : v[k] = q[k]
    BY <1>15, <2>1, <2>3
  <2>5. v = q
    BY ONLY <2>4, SeqEqual
  <2>6. QED BY <2>2, <2>5
<1>19. OneForTwo(Flat(cs), f, h, c)
  BY <1>8, <1>13, <1>17, <1>18 DEF OneForTwo
<1>20. Len(Together(bs)[l - 1]) = h
  BY <1>3, <1>14
<1>21. QED BY <1>12, <1>19, <1>20
=============================================================================
