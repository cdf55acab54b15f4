--------------------------- MODULE VulkanHost_proof ---------------------------
(***************************************************************************)
(* The life of the objects that the host side of src/vk.rs makes:            *)
(* BuffersSound, whatever calls are made, fail or lose the device, and in    *)
(* whatever order the device runs what it was given.                         *)
(*                                                                           *)
(* The argument.  A call is a sequence of driver calls, so what has to be    *)
(* known in the middle of one is that the rest of it can be made.  An        *)
(* abstract state keeps of the real one how long each object is, what a      *)
(* field holds, what is recorded and the fence that is waited for; Does says *)
(* which driver calls may be made in it.  A program leads from one abstract  *)
(* state to another when a set of pairs of a state and a rest of the         *)
(* program, closed under the next call, contains it (Leads).  The invariant  *)
(* VkInv: there is an abstract state that mirrors the real one, and what is  *)
(* left of the call leads from it to one where everything is held by a       *)
(* field.  That it is kept is a lemma for each driver call, and that a call  *)
(* can be made is a lemma for each function of Gpu.                          *)
(***************************************************************************)
EXTENDS VulkanHost, Pieces_proof, FiniteSetTheorems, TLAPS

\* Something that is a sequence.
IsSeq(p) == \E X : p \in Seq(X)

\* Two sequences have a set of elements in common.
LEMMA SeqOfBoth ==
  ASSUME NEW p, NEW q, IsSeq(p), IsSeq(q)
  PROVE  \E X : p \in Seq(X) /\ q \in Seq(X)
<1>1. PICK X : p \in Seq(X)
  BY DEF IsSeq
<1>2. PICK Y : q \in Seq(Y)
  BY DEF IsSeq
<1>3. PICK Z : Z = X \cup Y
  OBVIOUS
<1>4. p \in Seq(Z) /\ q \in Seq(Z)
  BY <1>1, <1>2, <1>3
<1>5. QED BY <1>4

\* A program goes on with another: its first call is the first of both, and the rest
\* of it goes on with the other.
LEMMA OneBehindOther ==
  ASSUME NEW p, NEW q, IsSeq(p), IsSeq(q)
  PROVE  /\ IsSeq(p \o q)
         /\ p = <<>> => p \o q = q
         /\ p # <<>> => /\ p \o q # <<>> /\ (p \o q)[1] = p[1]
                        /\ Tail(p \o q) = Tail(p) \o q /\ IsSeq(Tail(p))
<1>1. PICK X : p \in Seq(X) /\ q \in Seq(X)
  BY SeqOfBoth
<1>2. IsSeq(p \o q)
  BY <1>1 DEF IsSeq
<1>3. p = <<>> => p \o q = q
  BY <1>1
<1>4. ASSUME p # <<>>
      PROVE  /\ p \o q # <<>> /\ (p \o q)[1] = p[1]
             /\ Tail(p \o q) = Tail(p) \o q /\ IsSeq(Tail(p))
  <2>1. Len(p) \in Nat /\ Len(q) \in Nat /\ Len(p) > 0
    BY <1>1, <1>4
  <2>2. p \o q \in Seq(X) /\ Len(p \o q) = Len(p) + Len(q)
    BY <1>1
  <2>3. (p \o q)[1] = p[1] /\ p \o q # <<>>
    BY <1>1, <2>1, <2>2
  <2>4. Tail(p) \in Seq(X) /\ Len(Tail(p)) = Len(p) - 1
    BY <1>1, <1>4
  <2>5. Tail(p \o q) = Tail(p) \o q
    <3>1. PICK a : a = Tail(p \o q)
      OBVIOUS
    <3>2. PICK b : b = Tail(p) \o q
      OBVIOUS
    <3>3. a \in Seq(X) /\ Len(a) = Len(p) + Len(q) - 1 /\ \A i \in 1..Len(a) : a[i] = (p \o q)[i + 1]
      BY <2>1, <2>2, <2>3, <3>1
    <3>4. b \in Seq(X) /\ Len(b) = Len(p) + Len(q) - 1
      BY <1>1, <2>1, <2>4, <3>2
    <3>5. \A i \in 1..Len(a) : a[i] = b[i]
      <4>1. TAKE i \in 1..Len(a)
      <4>2. CASE i <= Len(p) - 1
        <5>1. i \in 1..Len(Tail(p)) /\ i + 1 \in 1..Len(p)
          BY <2>1, <2>4, <4>2, <3>3
        <5>2. b[i] = Tail(p)[i]
          BY <1>1, <2>4, <3>2, <5>1
        <5>3. Tail(p)[i] = p[i + 1]
          BY <1>1, <1>4, <5>1
        <5>4. (p \o q)[i + 1] = p[i + 1]
          BY <1>1, <5>1
        <5>5. QED BY <3>3, <5>2, <5>3, <5>4
      <4>3. CASE ~(i <= Len(p) - 1)
        <5>1. i - (Len(p) - 1) \in 1..Len(q) /\ i + 1 > Len(p) /\ i + 1 <= Len(p) + Len(q)
          BY <2>1, <3>3, <4>3
        <5>2. b[i] = q[i - (Len(p) - 1)]
          BY <1>1, <2>1, <2>4, <3>2, <4>3, <5>1
        <5>3. (p \o q)[i + 1] = q[(i + 1) - Len(p)]
          BY <1>1, <2>1, <2>2, <5>1
        <5>4. (i + 1) - Len(p) = i - (Len(p) - 1)
          BY <2>1, <3>3
        <5>5. QED BY <3>3, <5>2, <5>3, <5>4
      <4>4. QED BY <4>2, <4>3
    <3>6. a = b
      BY <3>3, <3>4, <3>5, SeqEqual
    <3>7. QED BY <3>1, <3>2, <3>6
  <2>6. QED BY <2>3, <2>4, <2>5 DEF IsSeq
<1>5. QED BY <1>2, <1>3, <1>4

-----------------------------------------------------------------------------
Fences == {"fence", "mv_fence"}

\* What the driver calls make of an abstract state: the objects alive with their
\* lengths, those a field holds, the cache, the commands recorded, the fences that are
\* unsignalled, and the one that is waited for.
St(len, held, cache, rec, clear, busy) ==
  [len |-> len, own |-> held, cached |-> cache, rec |-> rec, clear |-> clear, busy |-> busy]

\* No object is held that is not alive, a tensor has its rows, and a cache its objects.
Sound(s) ==
  /\ s.len \in [DOMAIN s.len -> Nat] /\ s.own \subseteq DOMAIN s.len
  /\ \A t \in Tensors \cap s.own : Shape[t].rows <= s.len[t]
  /\ s.cached # <<>> =>
       /\ CacheObjects \cup {"device"} \subseteq s.own
       /\ s.cached[2] \in Nat /\ Fills(s.cached[2]) /\ s.cached[2] <= s.len["mv_y"]

\* A command has its objects, and room for what it writes.
FitsIn(c, s) ==
  /\ c.pool \subseteq DOMAIN s.len
  /\ \A j \in DOMAIN c.ins : c.ins[j][1] \in DOMAIN s.len
  /\ \A out \in c.outs : /\ out[1] \in DOMAIN s.len \ Fences
                         /\ out[2] <= s.len[out[1]]

MadeIn(s, o, n) ==
  St([p \in DOMAIN s.len \cup {o} |-> IF p = o THEN n ELSE s.len[p]], s.own, s.cached, s.rec,
     IF o \in Fences THEN s.clear \cup {o} ELSE s.clear, s.busy)
HeldIn(s, os) == St(s.len, s.own \cup os, s.cached, s.rec, s.clear, s.busy)
FreedIn(s, os) ==
  St([p \in DOMAIN s.len \ os |-> s.len[p]], s.own \ os,
     IF "mv_x" \in os THEN <<>> ELSE s.cached, s.rec, s.clear \ os, s.busy)

\* One driver call.  Only a wait follows a submission.
Does(s, op, t) ==
  \/ /\ op.op = "make" /\ s.busy = "none" /\ op.len \in Nat /\ (op.o \in Fences => op.len = 0)
     /\ t = MadeIn(s, op.o, op.len)
  \/ /\ op.op = "ensure" /\ s.busy = "none" /\ op.len \in Nat /\ op.o \notin Fences
     /\ t = IF op.o \in s.own THEN s ELSE HeldIn(MadeIn(s, op.o, op.len), {op.o})
  \/ /\ op.op = "staging" /\ s.busy = "none" /\ op.len \in Nat
     /\ t = IF "staging" \in s.own /\ s.len["staging"] >= op.len THEN s
            ELSE HeldIn(MadeIn(s, "staging", op.len), {"staging"})
  \/ op.op = "keep" /\ s.busy = "none" /\ t = HeldIn(s, op.os)
  \/ /\ op.op = "cache" /\ s.busy = "none"
     /\ t = St(s.len, s.own, <<op.ne0, op.rows>>, s.rec, s.clear, s.busy)
  \/ op.op = "put" /\ s.busy = "none" /\ op.b \notin Fences /\ t = s
  \/ /\ op.op = "begin" /\ s.busy = "none"
     /\ t = St(s.len, s.own, s.cached, {}, s.clear, s.busy)
  \/ /\ op.op = "record" /\ s.busy = "none"
     /\ t = St(s.len, s.own, s.cached, s.rec \cup {op.c}, s.clear, s.busy)
  \/ /\ op.op = "submit" /\ s.busy = "none" /\ op.fence \in Fences /\ op.fence \in s.clear
     /\ {op.cb, op.fence} \subseteq DOMAIN s.len
     /\ \A c \in s.rec : FitsIn(c, s)
     /\ t = St(s.len, s.own, s.cached, s.rec, s.clear \ {op.fence}, op.fence)
  \/ /\ op.op = "wait" /\ op.fence = s.busy
     /\ t = St(s.len, s.own, s.cached, s.rec, s.clear, "none")
  \/ /\ op.op = "reset" /\ s.busy = "none" /\ op.fence \in Fences \cap DOMAIN s.len
     /\ t = St(s.len, s.own, s.cached, s.rec, s.clear \cup {op.fence}, s.busy)
  \/ op.op = "free" /\ s.busy = "none" /\ t = FreedIn(s, op.os)
  \/ op.op \in {"read", "reject", "idle"} /\ s.busy = "none" /\ t = s

\* A program leads from one state to another: in each state in between its next call is
\* one that may be made there, everything is sound and the cache is one of C.
Closed(C, R, t) ==
  \A r \in R :
    /\ IsSeq(r[2]) /\ Sound(r[1]) /\ r[1].cached \in C
    /\ r[2] = <<>> => r[1] = t
    /\ r[2] # <<>> => \E u : Does(r[1], r[2][1], u) /\ <<u, Tail(r[2])>> \in R
Leads(C, s, p, t) == \E R : <<s, p>> \in R /\ Closed(C, R, t)

\* The empty program leads nowhere else.
LEMMA LeadsNone ==
  ASSUME NEW C, NEW s, Sound(s), s.cached \in C
  PROVE  Leads(C, s, <<>>, s)
<1>1. IsSeq(<<>>)
  <2>1. <<>> \in Seq({})
    OBVIOUS
  <2>2. QED BY <2>1 DEF IsSeq
<1>2. Closed(C, {<<s, <<>>>>}, s)
  BY <1>1 DEF Closed
<1>3. QED BY <1>2 DEF Leads

\* A single driver call.
LEMMA LeadsOne ==
  ASSUME NEW C, NEW s, NEW t, NEW op, Sound(s), Sound(t), s.cached \in C, t.cached \in C,
         Does(s, op, t)
  PROVE  Leads(C, s, <<op>>, t)
<1>1. IsSeq(<<>>) /\ IsSeq(<<op>>)
  <2>1. <<>> \in Seq({op}) /\ <<op>> \in Seq({op})
    OBVIOUS
  <2>2. QED BY <2>1 DEF IsSeq
<1>2. <<op>> # <<>> /\ <<op>>[1] = op /\ Tail(<<op>>) = <<>>
  OBVIOUS
<1>3. PICK R : R = {<<s, <<op>>>>, <<t, <<>>>>}
  OBVIOUS
<1>4. ASSUME NEW r \in R
      PROVE  /\ IsSeq(r[2]) /\ Sound(r[1]) /\ r[1].cached \in C
             /\ r[2] = <<>> => r[1] = t
             /\ r[2] # <<>> => \E u : Does(r[1], r[2][1], u) /\ <<u, Tail(r[2])>> \in R
  <2>1. CASE r = <<s, <<op>>>>
    <3>1. r[1] = s /\ r[2] = <<op>>
      BY <2>1
    <3>2. Does(r[1], r[2][1], t) /\ <<t, Tail(r[2])>> \in R
      BY <1>2, <1>3, <3>1
    <3>3. QED BY <1>1, <1>2, <3>1, <3>2
  <2>2. CASE r = <<t, <<>>>>
    BY <1>1, <2>2
  <2>3. QED BY <1>3, <2>1, <2>2
<1>5. QED BY <1>3, <1>4 DEF Leads, Closed

\* One program after the other.
LEMMA LeadsOn ==
  ASSUME NEW C, NEW s, NEW t, NEW u, NEW p, NEW q, Leads(C, s, p, t), Leads(C, t, q, u)
  PROVE  Leads(C, s, p \o q, u)
<1>1. PICK A : <<s, p>> \in A /\ Closed(C, A, t)
  BY DEF Leads
<1>2. PICK B : <<t, q>> \in B /\ Closed(C, B, u)
  BY DEF Leads
<1>3. IsSeq(q)
  BY <1>2 DEF Closed
<1>4. PICK R : R = {<<r[1], r[2] \o q>> : r \in A} \cup B
  OBVIOUS
<1>5. <<s, p \o q>> \in R
  <2>1. PICK r : r = <<s, p>>
    OBVIOUS
  <2>2. r \in A /\ r[1] = s /\ r[2] = p
    BY <1>1, <2>1
  <2>3. <<r[1], r[2] \o q>> \in R
    BY <1>4, <2>2
  <2>4. QED BY <2>2, <2>3
<1>6. ASSUME NEW x \in R
      PROVE  /\ IsSeq(x[2]) /\ Sound(x[1]) /\ x[1].cached \in C
             /\ x[2] = <<>> => x[1] = u
             /\ x[2] # <<>> => \E v : Does(x[1], x[2][1], v) /\ <<v, Tail(x[2])>> \in R
  <2>1. CASE x \in B
    BY <1>2, <1>4, <2>1 DEF Closed
  <2>2. CASE x \notin B
    <3>1. PICK r \in A : x = <<r[1], r[2] \o q>>
      BY <1>4, <2>2
    <3>2. x[1] = r[1] /\ x[2] = r[2] \o q
      BY <3>1
    <3>3. IsSeq(r[2]) /\ Sound(r[1]) /\ r[1].cached \in C
      BY <1>1 DEF Closed
    <3>4. r[2] # <<>>
      <4>1. ASSUME r[2] = <<>> PROVE FALSE
        <5>1. r[1] = t
          BY <1>1, <4>1 DEF Closed
        <5>2. r[2] \o q = q
          BY <1>3, <3>3, <4>1, OneBehindOther
        <5>3. x = <<t, q>>
          BY <3>1, <5>1, <5>2
        <5>4. QED BY <1>2, <2>2, <5>3
      <4>2. QED BY <4>1
    <3>5. /\ IsSeq(r[2] \o q) /\ r[2] \o q # <<>> /\ (r[2] \o q)[1] = r[2][1]
          /\ Tail(r[2] \o q) = Tail(r[2]) \o q
      BY <1>3, <3>3, <3>4, OneBehindOther
    <3>6. PICK v : Does(r[1], r[2][1], v) /\ <<v, Tail(r[2])>> \in A
      BY <1>1, <3>4 DEF Closed
    <3>7. <<v, Tail(r[2]) \o q>> \in R
      <4>1. PICK y : y = <<v, Tail(r[2])>>
        OBVIOUS
      <4>2. y \in A /\ y[1] = v /\ y[2] = Tail(r[2])
        BY <3>6, <4>1
      <4>3. <<y[1], y[2] \o q>> \in R
        BY <1>4, <4>2
      <4>4. QED BY <4>2, <4>3
    <3>8. QED BY <3>2, <3>3, <3>5, <3>6, <3>7
  <2>3. QED BY <2>1, <2>2
<1>7. Closed(C, R, u)
  BY <1>6 DEF Closed
<1>8. QED BY <1>5, <1>7 DEF Leads

\* A step along it.
LEMMA LeadsOff ==
  ASSUME NEW C, NEW s, NEW t, NEW p, Leads(C, s, p, t)
  PROVE  /\ IsSeq(p) /\ Sound(s) /\ s.cached \in C
         /\ p = <<>> => s = t
         /\ p # <<>> => \E u : Does(s, p[1], u) /\ Leads(C, u, Tail(p), t)
<1>1. PICK R : <<s, p>> \in R /\ Closed(C, R, t)
  BY DEF Leads
<1>2. PICK r : r = <<s, p>>
  OBVIOUS
<1>3. r \in R /\ r[1] = s /\ r[2] = p
  BY <1>1, <1>2
<1>4. /\ IsSeq(p) /\ Sound(s) /\ s.cached \in C
      /\ p = <<>> => s = t
      /\ p # <<>> => \E u : Does(s, p[1], u) /\ <<u, Tail(p)>> \in R
  BY <1>1, <1>3 DEF Closed
<1>5. QED BY <1>1, <1>4 DEF Leads

-----------------------------------------------------------------------------
\* What a caller knows of a state: of K, pairs of a name and a length, that these objects
\* are alive and at least so long; of F, that what no field holds is among it.
Has(K, F, s) ==
  /\ Sound(s) /\ s.busy = "none" /\ DOMAIN s.len \subseteq s.own \cup F
  /\ \A k \in K : k[1] \in DOMAIN s.len /\ k[2] <= s.len[k[1]]

\* From where K and F are known a program leads to where L and G are, whatever the
\* state, and keeps the cache as it is.
Lives(K, F, p, L, G) ==
  \A s : Has(K, F, s) =>
    \E t : Leads({s.cached}, s, p, t) /\ Has(L, G, t) /\ t.cached = s.cached

\* The empty program keeps what is known.
LEMMA LivesNone ==
  ASSUME NEW K, NEW F, NEW L, NEW G, L \subseteq K, F \subseteq G
  PROVE  Lives(K, F, <<>>, L, G)
<1>1. SUFFICES ASSUME NEW s, Has(K, F, s)
               PROVE  Leads({s.cached}, s, <<>>, s) /\ Has(L, G, s)
  BY DEF Lives
<1>2. Has(L, G, s)
  BY <1>1 DEF Has
<1>3. Leads({s.cached}, s, <<>>, s)
  BY <1>1, LeadsNone DEF Has
<1>4. QED BY <1>2, <1>3

\* One program after the other.
LEMMA LivesOn ==
  ASSUME NEW K, NEW F, NEW p, NEW L, NEW G, NEW q, NEW M, NEW H,
         Lives(K, F, p, L, G), Lives(L, G, q, M, H)
  PROVE  Lives(K, F, p \o q, M, H)
<1>1. SUFFICES ASSUME NEW s, Has(K, F, s)
               PROVE  \E u : Leads({s.cached}, s, p \o q, u) /\ Has(M, H, u) /\ u.cached = s.cached
  BY DEF Lives
<1>2. PICK t : Leads({s.cached}, s, p, t) /\ Has(L, G, t) /\ t.cached = s.cached
  BY <1>1 DEF Lives
<1>3. PICK u : Leads({t.cached}, t, q, u) /\ Has(M, H, u) /\ u.cached = t.cached
  BY <1>2 DEF Lives
<1>4. Leads({s.cached}, s, p \o q, u)
  BY <1>2, <1>3, LeadsOn
<1>5. QED BY <1>2, <1>3, <1>4

\* Less may be said before and after.
LEMMA LivesLess ==
  ASSUME NEW K, NEW F, NEW p, NEW L, NEW G, NEW M, NEW H,
         Lives(K, F, p, L, G), M \subseteq L, G \subseteq H
  PROVE  Lives(K, F, p, M, H)
<1>1. \A t : Has(L, G, t) => Has(M, H, t)
  BY DEF Has
<1>2. QED BY <1>1 DEF Lives

\* One driver call more.
Can(L, G, op, M, H) ==
  \A t : Has(L, G, t) => \E u : Does(t, op, u) /\ Has(M, H, u) /\ u.cached = t.cached

\* A program and one driver call that may be made after it.
LEMMA ThenOne ==
  ASSUME NEW K, NEW F, NEW p, NEW L, NEW G, NEW op, NEW M, NEW H,
         Lives(K, F, p, L, G), Can(L, G, op, M, H)
  PROVE  Lives(K, F, p \o <<op>>, M, H)
<1>1. SUFFICES ASSUME NEW t, Has(L, G, t)
               PROVE  \E u : Leads({t.cached}, t, <<op>>, u) /\ Has(M, H, u) /\ u.cached = t.cached
  <2>1. Lives(L, G, <<op>>, M, H)
    BY <1>1 DEF Lives
  <2>2. QED BY <2>1, LivesOn
<1>2. PICK u : Does(t, op, u) /\ Has(M, H, u) /\ u.cached = t.cached
  BY <1>1 DEF Can
<1>3. Leads({t.cached}, t, <<op>>, u)
  BY <1>1, <1>2, LeadsOne DEF Has
<1>4. QED BY <1>2, <1>3

-----------------------------------------------------------------------------
\* The names that are neither tensors nor the cache's, nor fences.
Plain(o) == o \notin Tensors \cup CacheObjects \cup Fences /\ o # "staging"
Fresh(o, K) == \A k \in K : k[1] # o

\* A buffer is made: it is known then, and held by no field.
LEMMA ThenMake ==
  ASSUME NEW K, NEW F, NEW p, NEW L, NEW G, Lives(K, F, p, L, G),
         NEW o, NEW n \in Nat, Plain(o), Fresh(o, L)
  PROVE  Lives(K, F, p \o Buffer(o, n), L \cup {<<o, n>>}, G \cup {o})
<1>1. ASSUME NEW s, Has(L, G, s)
      PROVE  \E u : /\ Does(s, [op |-> "make", o |-> o, len |-> n], u)
                    /\ Has(L \cup {<<o, n>>}, G \cup {o}, u) /\ u.cached = s.cached
  <2>1. PICK u : u = MadeIn(s, o, n)
    OBVIOUS
  <2>2. /\ u.len = [q \in DOMAIN s.len \cup {o} |-> IF q = o THEN n ELSE s.len[q]]
        /\ u.own = s.own /\ u.cached = s.cached /\ u.busy = s.busy
    BY <2>1 DEF MadeIn, St
  <2>3. Sound(s) /\ s.busy = "none"
    BY <1>1 DEF Has
  <2>4. /\ DOMAIN u.len = DOMAIN s.len \cup {o}
        /\ \A q \in DOMAIN s.len : q # o => u.len[q] = s.len[q]
        /\ u.len[o] = n
    BY <2>2
  <2>5. Sound(u)
    <3>1. u.len \in [DOMAIN u.len -> Nat] /\ u.own \subseteq DOMAIN u.len
      BY <2>2, <2>3, <2>4 DEF Sound
    <3>2. \A t \in Tensors \cap u.own : Shape[t].rows <= u.len[t]
      BY <2>2, <2>3, <2>4 DEF Sound, Plain
    <3>3. u.cached # <<>> =>
            /\ CacheObjects \cup {"device"} \subseteq u.own
            /\ u.cached[2] \in Nat /\ Fills(u.cached[2]) /\ u.cached[2] <= u.len["mv_y"]
      <4>1. "mv_y" # o /\ "mv_y" \in CacheObjects
        BY DEF Plain, CacheObjects
      <4>2. QED BY <2>2, <2>3, <2>4, <4>1 DEF Sound
    <3>4. QED BY <3>1, <3>2, <3>3 DEF Sound
  <2>6. Does(s, [op |-> "make", o |-> o, len |-> n], u)
    <3>1. PICK op : op = [op |-> "make", o |-> o, len |-> n]
      OBVIOUS
    <3>2. op.op = "make" /\ op.o = o /\ op.len = n
      BY <3>1
    <3>3. o \notin Fences
      BY DEF Plain
    <3>4. Does(s, op, u)
      BY <2>1, <2>3, <3>2, <3>3 DEF Does
    <3>5. QED BY <3>1, <3>4
  <2>7. ASSUME NEW k \in L \cup {<<o, n>>}
        PROVE  k[1] \in DOMAIN u.len /\ k[2] <= u.len[k[1]]
    <3>1. CASE k = <<o, n>>
      BY <2>4, <3>1
    <3>2. CASE k \in L
      <4>1. k[1] # o /\ k[1] \in DOMAIN s.len /\ k[2] <= s.len[k[1]]
        BY <1>1, <3>2 DEF Has, Fresh
      <4>2. QED BY <2>4, <4>1
    <3>3. QED BY <3>1, <3>2
  <2>8. DOMAIN u.len \subseteq u.own \cup (G \cup {o})
    BY <1>1, <2>2, <2>4 DEF Has
  <2>9. QED BY <2>2, <2>3, <2>5, <2>6, <2>7, <2>8 DEF Has
<1>2. Can(L, G, [op |-> "make", o |-> o, len |-> n], L \cup {<<o, n>>}, G \cup {o})
  BY <1>1 DEF Can
<1>3. QED BY <1>2, ThenOne DEF Buffer

\* An object without floats is made.
LEMMA ThenObject ==
  ASSUME NEW K, NEW F, NEW p, NEW L, NEW G, Lives(K, F, p, L, G),
         NEW o, Plain(o), Fresh(o, L)
  PROVE  Lives(K, F, p \o Make(o), L \cup {<<o, 0>>}, G \cup {o})
<1>1. Make(o) = Buffer(o, 0)
  BY DEF Make, Buffer
<1>2. QED BY <1>1, ThenMake

\* An object that a field keeps, made when it is not there.
LEMMA ThenEnsure ==
  ASSUME NEW K, NEW F, NEW p, NEW L, NEW G, Lives(K, F, p, L, G),
         NEW o, NEW n \in Nat, Plain(o), Fresh(o, L)
  PROVE  Lives(K, F, p \o Ensure(o, n), L, G)
<1>1. ASSUME NEW s, Has(L, G, s)
      PROVE  \E u : /\ Does(s, [op |-> "ensure", o |-> o, len |-> n], u)
                    /\ Has(L, G, u) /\ u.cached = s.cached
  <2>0. PICK op : op = [op |-> "ensure", o |-> o, len |-> n]
    OBVIOUS
  <2>1. op.op = "ensure" /\ op.o = o /\ op.len = n /\ o \notin Fences /\ s.busy = "none" /\ Sound(s)
    BY <1>1, <2>0 DEF Plain, Has
  <2>2. CASE o \in s.own
    <3>1. Does(s, op, s)
      BY <2>1, <2>2 DEF Does
    <3>2. QED BY <1>1, <2>0, <3>1
  <2>3. CASE o \notin s.own
    <3>1. PICK u : u = HeldIn(MadeIn(s, o, n), {o})
      OBVIOUS
    <3>2. /\ u.len = [q \in DOMAIN s.len \cup {o} |-> IF q = o THEN n ELSE s.len[q]]
          /\ u.own = s.own \cup {o} /\ u.cached = s.cached /\ u.busy = s.busy
      BY <3>1 DEF HeldIn, MadeIn, St
    <3>3. /\ DOMAIN u.len = DOMAIN s.len \cup {o}
          /\ \A q \in DOMAIN s.len : q # o => u.len[q] = s.len[q]
          /\ u.len[o] = n
      BY <3>2
    <3>4. Sound(u)
      <4>1. u.len \in [DOMAIN u.len -> Nat] /\ u.own \subseteq DOMAIN u.len
        BY <2>1, <3>2, <3>3 DEF Sound
      <4>2. \A t \in Tensors \cap u.own : Shape[t].rows <= u.len[t]
        BY <2>1, <3>2, <3>3 DEF Sound, Plain
      <4>3. u.cached # <<>> =>
              /\ CacheObjects \cup {"device"} \subseteq u.own
              /\ u.cached[2] \in Nat /\ Fills(u.cached[2]) /\ u.cached[2] <= u.len["mv_y"]
        <5>1. "mv_y" # o /\ "mv_y" \in CacheObjects
          BY DEF Plain, CacheObjects
        <5>2. QED BY <2>1, <3>2, <3>3, <5>1 DEF Sound
      <4>4. QED BY <4>1, <4>2, <4>3 DEF Sound
    <3>5. Does(s, op, u)
      BY <2>1, <2>3, <3>1 DEF Does
    <3>6. \A k \in L : k[1] \in DOMAIN u.len /\ k[2] <= u.len[k[1]]
      <4>1. TAKE k \in L
      <4>2. k[1] # o /\ k[1] \in DOMAIN s.len /\ k[2] <= s.len[k[1]]
        BY <1>1 DEF Has, Fresh
      <4>3. QED BY <3>3, <4>2
    <3>7. DOMAIN u.len \subseteq u.own \cup G
      BY <1>1, <3>2, <3>3 DEF Has
    <3>8. QED BY <2>0, <2>1, <3>2, <3>4, <3>5, <3>6, <3>7 DEF Has
  <2>4. QED BY <2>2, <2>3
<1>2. Can(L, G, [op |-> "ensure", o |-> o, len |-> n], L, G)
  BY <1>1 DEF Can
<1>3. QED BY <1>2, ThenOne DEF Ensure

\* A staging buffer that is long enough.
LEMMA ThenStaging ==
  ASSUME NEW K, NEW F, NEW p, NEW L, NEW G, Lives(K, F, p, L, G),
         NEW n \in Nat, Fresh("staging", L)
  PROVE  Lives(K, F, p \o Staging(n), L \cup {<<"staging", n>>}, G)
<1>0. "staging" \notin Tensors \cup CacheObjects \cup Fences
  BY TensorsAreNamedApart DEF HostObjects, CacheObjects, Fences
<1>1. ASSUME NEW s, Has(L, G, s)
      PROVE  \E u : /\ Does(s, [op |-> "staging", len |-> n], u)
                    /\ Has(L \cup {<<"staging", n>>}, G, u) /\ u.cached = s.cached
  <2>0. PICK op : op = [op |-> "staging", len |-> n]
    OBVIOUS
  <2>1. op.op = "staging" /\ op.len = n /\ s.busy = "none" /\ Sound(s)
    BY <1>1, <2>0 DEF Has
  <2>2. CASE "staging" \in s.own /\ s.len["staging"] >= n
    <3>1. Does(s, op, s)
      BY <2>1, <2>2 DEF Does
    <3>2. \A k \in L \cup {<<"staging", n>>} : k[1] \in DOMAIN s.len /\ k[2] <= s.len[k[1]]
      <4>1. "staging" \in DOMAIN s.len /\ s.len["staging"] \in Nat
        BY <2>1, <2>2 DEF Sound
      <4>2. QED BY <1>1, <2>2, <4>1 DEF Has
    <3>3. Has(L \cup {<<"staging", n>>}, G, s)
      BY <1>1, <3>2 DEF Has
    <3>4. QED BY <2>0, <3>1, <3>3
  <2>3. CASE ~("staging" \in s.own /\ s.len["staging"] >= n)
    <3>1. PICK u : u = HeldIn(MadeIn(s, "staging", n), {"staging"})
      OBVIOUS
    <3>2. /\ u.len = [q \in DOMAIN s.len \cup {"staging"} |-> IF q = "staging" THEN n ELSE s.len[q]]
          /\ u.own = s.own \cup {"staging"} /\ u.cached = s.cached /\ u.busy = s.busy
      BY <3>1 DEF HeldIn, MadeIn, St
    <3>3. /\ DOMAIN u.len = DOMAIN s.len \cup {"staging"}
          /\ \A q \in DOMAIN s.len : q # "staging" => u.len[q] = s.len[q]
          /\ u.len["staging"] = n
      BY <3>2
    <3>4. Sound(u)
      <4>1. u.len \in [DOMAIN u.len -> Nat] /\ u.own \subseteq DOMAIN u.len
        BY <2>1, <3>2, <3>3 DEF Sound
      <4>2. \A t \in Tensors \cap u.own : Shape[t].rows <= u.len[t]
        BY <1>0, <2>1, <3>2, <3>3 DEF Sound
      <4>3. u.cached # <<>> =>
              /\ CacheObjects \cup {"device"} \subseteq u.own
              /\ u.cached[2] \in Nat /\ Fills(u.cached[2]) /\ u.cached[2] <= u.len["mv_y"]
        <5>1. "mv_y" \in CacheObjects
          BY DEF CacheObjects
        <5>2. QED BY <2>1, <3>2, <3>3, <5>1 DEF Sound
      <4>4. QED BY <4>1, <4>2, <4>3 DEF Sound
    <3>5. Does(s, op, u)
      BY <2>1, <2>3, <3>1 DEF Does
    <3>6. \A k \in L \cup {<<"staging", n>>} : k[1] \in DOMAIN u.len /\ k[2] <= u.len[k[1]]
      <4>1. TAKE k \in L \cup {<<"staging", n>>}
      <4>2. CASE k \in L
        <5>1. k[1] # "staging" /\ k[1] \in DOMAIN s.len /\ k[2] <= s.len[k[1]]
          BY <1>1, <4>2 DEF Has, Fresh
        <5>2. QED BY <3>3, <5>1
      <4>3. CASE k = <<"staging", n>>
        BY <3>3, <4>3
      <4>4. QED BY <4>2, <4>3
    <3>7. DOMAIN u.len \subseteq u.own \cup G
      BY <1>1, <3>2, <3>3 DEF Has
    <3>8. QED BY <2>0, <2>1, <3>2, <3>4, <3>5, <3>6, <3>7 DEF Has
  <2>4. QED BY <2>2, <2>3
<1>2. Can(L, G, [op |-> "staging", len |-> n], L \cup {<<"staging", n>>}, G)
  BY <1>1 DEF Can
<1>3. QED BY <1>2, ThenOne DEF Staging

\* What a field is given: objects that are alive, tensors with all their rows.
LEMMA ThenKeep ==
  ASSUME NEW K, NEW F, NEW p, NEW L, NEW G, Lives(K, F, p, L, G), NEW os, NEW H,
         \A o \in os : \E k \in L : k[1] = o,
         \A t \in Tensors \cap os : <<t, Shape[t].rows>> \in L,
         G \subseteq H \cup os
  PROVE  Lives(K, F, p \o Keep(os), L, H)
<1>1. ASSUME NEW s, Has(L, G, s)
      PROVE  \E u : Does(s, [op |-> "keep", os |-> os], u) /\ Has(L, H, u) /\ u.cached = s.cached
  <2>0. PICK op : op = [op |-> "keep", os |-> os]
    OBVIOUS
  <2>1. op.op = "keep" /\ op.os = os /\ s.busy = "none" /\ Sound(s)
    BY <1>1, <2>0 DEF Has
  <2>2. PICK u : u = HeldIn(s, os)
    OBVIOUS
  <2>3. u.len = s.len /\ u.own = s.own \cup os /\ u.cached = s.cached /\ u.busy = s.busy
    BY <2>2 DEF HeldIn, St
  <2>4. Does(s, op, u)
    BY <2>1, <2>2 DEF Does
  <2>5. Sound(u)
    <3>1. u.len \in [DOMAIN u.len -> Nat] /\ u.own \subseteq DOMAIN u.len
      BY <1>1, <2>1, <2>3 DEF Sound, Has
    <3>2. \A t \in Tensors \cap u.own : Shape[t].rows <= u.len[t]
      <4>1. TAKE t \in Tensors \cap u.own
      <4>2. CASE t \in s.own
        BY <2>1, <2>3, <4>2 DEF Sound
      <4>3. CASE t \in os
        <5>1. PICK k \in L : k = <<t, Shape[t].rows>>
          BY <4>3
        <5>2. k[1] = t /\ k[2] = Shape[t].rows
          BY <5>1
        <5>3. k[2] <= s.len[k[1]]
          BY <1>1 DEF Has
        <5>4. QED BY <2>3, <5>2, <5>3
      <4>4. QED BY <2>3, <4>2, <4>3
    <3>3. QED BY <2>1, <2>3, <3>1, <3>2 DEF Sound
  <2>6. Has(L, H, u)
    BY <1>1, <2>3, <2>5 DEF Has
  <2>7. QED BY <2>0, <2>3, <2>4, <2>6
<1>2. Can(L, G, [op |-> "keep", os |-> os], L, H)
  BY <1>1 DEF Can
<1>3. QED BY <1>2, ThenOne DEF Keep

\* Calls that change the contents of a buffer, read one, or refuse the arguments.
LEMMA ThenPut ==
  ASSUME NEW K, NEW F, NEW p, NEW L, NEW G, Lives(K, F, p, L, G), NEW b, NEW data, b \notin Fences
  PROVE  Lives(K, F, p \o Put(b, data), L, G)
<1>1. ASSUME NEW s, Has(L, G, s)
      PROVE  Does(s, [op |-> "put", b |-> b, data |-> data], s)
  <2>1. PICK op : op = [op |-> "put", b |-> b, data |-> data]
    OBVIOUS
  <2>2. op.op = "put" /\ op.b = b /\ s.busy = "none"
    BY <1>1, <2>1 DEF Has
  <2>3. QED BY <2>1, <2>2 DEF Does
<1>2. Can(L, G, [op |-> "put", b |-> b, data |-> data], L, G)
  BY <1>1 DEF Can
<1>3. QED BY <1>2, ThenOne DEF Put

\* A buffer is read.
LEMMA ThenRead ==
  ASSUME NEW K, NEW F, NEW p, NEW L, NEW G, Lives(K, F, p, L, G), NEW b, NEW n
  PROVE  Lives(K, F, p \o CopyOut(b, n), L, G)
<1>1. ASSUME NEW s, Has(L, G, s)
      PROVE  Does(s, [op |-> "read", b |-> b, n |-> n], s)
  <2>1. PICK op : op = [op |-> "read", b |-> b, n |-> n]
    OBVIOUS
  <2>2. op.op = "read" /\ s.busy = "none"
    BY <1>1, <2>1 DEF Has
  <2>3. QED BY <2>1, <2>2 DEF Does
<1>2. Can(L, G, [op |-> "read", b |-> b, n |-> n], L, G)
  BY <1>1 DEF Can
<1>3. QED BY <1>2, ThenOne DEF CopyOut

\* The arguments are refused.
LEMMA ThenReject ==
  ASSUME NEW K, NEW F, NEW p, NEW L, NEW G, Lives(K, F, p, L, G)
  PROVE  Lives(K, F, p \o Reject, L, G)
<1>1. ASSUME NEW s, Has(L, G, s)
      PROVE  Does(s, [op |-> "reject"], s)
  <2>1. PICK op : op = [op |-> "reject"]
    OBVIOUS
  <2>2. op.op = "reject" /\ s.busy = "none"
    BY <1>1, <2>1 DEF Has
  <2>3. QED BY <2>1, <2>2 DEF Does
<1>2. Can(L, G, [op |-> "reject"], L, G)
  BY <1>1 DEF Can
<1>3. QED BY <1>2, ThenOne DEF Reject

\* What is freed is not the cache's; what is known of the rest stays known.
LEMMA ThenFree ==
  ASSUME NEW K, NEW F, NEW p, NEW L, NEW G, Lives(K, F, p, L, G), NEW os, NEW M, NEW H,
         os \cap (CacheObjects \cup {"device"}) = {},
         M \subseteq L, \A k \in M : k[1] \notin os, G \subseteq H \cup os
  PROVE  Lives(K, F, p \o Free(os), M, H)
<1>0. "mv_x" \notin os /\ "mv_y" \notin os
  BY DEF CacheObjects
<1>1. ASSUME NEW s, Has(L, G, s)
      PROVE  \E u : Does(s, [op |-> "free", os |-> os], u) /\ Has(M, H, u) /\ u.cached = s.cached
  <2>0. PICK op : op = [op |-> "free", os |-> os]
    OBVIOUS
  <2>1. op.op = "free" /\ op.os = os /\ s.busy = "none" /\ Sound(s)
    BY <1>1, <2>0 DEF Has
  <2>2. PICK u : u = FreedIn(s, os)
    OBVIOUS
  <2>3. /\ u.len = [q \in DOMAIN s.len \ os |-> s.len[q]] /\ u.own = s.own \ os
        /\ u.cached = s.cached /\ u.busy = s.busy
    BY <1>0, <2>2 DEF FreedIn, St
  <2>4. Does(s, op, u)
    BY <2>1, <2>2 DEF Does
  <2>5. Sound(u)
    <3>1. u.len \in [DOMAIN u.len -> Nat] /\ u.own \subseteq DOMAIN u.len
      BY <2>1, <2>3 DEF Sound
    <3>2. \A t \in Tensors \cap u.own : Shape[t].rows <= u.len[t]
      BY <2>1, <2>3 DEF Sound
    <3>3. u.cached # <<>> =>
            /\ CacheObjects \cup {"device"} \subseteq u.own
            /\ u.cached[2] \in Nat /\ Fills(u.cached[2]) /\ u.cached[2] <= u.len["mv_y"]
      <4>1. "mv_y" \in CacheObjects
        BY DEF CacheObjects
      <4>2. QED BY <1>0, <2>1, <2>3, <4>1 DEF Sound
    <3>4. QED BY <3>1, <3>2, <3>3 DEF Sound
  <2>6. Has(M, H, u)
    <3>1. DOMAIN u.len \subseteq u.own \cup H
      BY <1>1, <2>3 DEF Has
    <3>2. \A k \in M : k[1] \in DOMAIN u.len /\ k[2] <= u.len[k[1]]
      BY <1>1, <2>3 DEF Has
    <3>3. QED BY <2>1, <2>3, <2>5, <3>1, <3>2 DEF Has
  <2>7. QED BY <2>0, <2>3, <2>4, <2>6
<1>2. Can(L, G, [op |-> "free", os |-> os], M, H)
  BY <1>1 DEF Can
<1>3. QED BY <1>2, ThenOne DEF Free

\* A command for which enough is known.
FitsK(c, L) ==
  /\ \A o \in c.pool : \E k \in L : k[1] = o
  /\ \A j \in DOMAIN c.ins : \E k \in L : k[1] = c.ins[j][1]
  /\ \A out \in c.outs : /\ out[1] \notin Fences
                         /\ \E k \in L : k[1] = out[1] /\ {out[2], k[2]} \subseteq Nat /\ out[2] <= k[2]

\* A command for which enough is known fits where that is known.
LEMMA FitsThere ==
  ASSUME NEW c, NEW L, NEW G, NEW s, Has(L, G, s), FitsK(c, L)
  PROVE  FitsIn(c, s)
<1>1. \A k \in L : k[1] \in DOMAIN s.len /\ k[2] <= s.len[k[1]]
  BY DEF Has
<1>2. s.len \in [DOMAIN s.len -> Nat]
  BY DEF Has, Sound
<1>3. ASSUME NEW out \in c.outs
      PROVE  out[1] \in DOMAIN s.len \ Fences /\ out[2] <= s.len[out[1]]
  <2>1. PICK k \in L : k[1] = out[1] /\ {out[2], k[2]} \subseteq Nat /\ out[2] <= k[2]
    BY DEF FitsK
  <2>2. out[1] \notin Fences /\ out[1] \in DOMAIN s.len /\ k[2] <= s.len[out[1]]
    BY <1>1, <2>1 DEF FitsK
  <2>3. s.len[out[1]] \in Nat
    BY <1>2, <2>2
  <2>4. QED BY <2>1, <2>2, <2>3
<1>4. c.pool \subseteq DOMAIN s.len
  BY <1>1 DEF FitsK
<1>5. \A j \in DOMAIN c.ins : c.ins[j][1] \in DOMAIN s.len
  BY <1>1 DEF FitsK
<1>6. QED BY <1>3, <1>4, <1>5 DEF FitsIn

\* The same but for the commands recorded.
Same(s, t) ==
  t.len = s.len /\ t.own = s.own /\ t.cached = s.cached /\ t.clear = s.clear /\ t.busy = s.busy

\* One call after the other records one command after the other.
Records(s, p, X) == \E t : Leads({s.cached}, s, p, t) /\ Same(s, t) /\ t.rec \subseteq X

\* A command more is recorded.
LEMMA RecordsOne ==
  ASSUME NEW s, NEW p, NEW X, NEW c \in X, Sound(s), s.busy = "none", Records(s, p, X)
  PROVE  Records(s, p \o RecordAll(c), X)
<1>1. PICK t : Leads({s.cached}, s, p, t) /\ Same(s, t) /\ t.rec \subseteq X
  BY DEF Records
<1>2. PICK op : op = [op |-> "record", c |-> c]
  OBVIOUS
<1>3. op.op = "record" /\ op.c = c /\ RecordAll(c) = <<op>>
  BY <1>2 DEF RecordAll
<1>4. PICK u : u = St(t.len, t.own, t.cached, t.rec \cup {c}, t.clear, t.busy)
  OBVIOUS
<1>5. Same(s, u) /\ u.rec \subseteq X
  BY <1>1, <1>4 DEF Same, St
<1>6. Does(t, op, u)
  BY <1>1, <1>3, <1>4 DEF Does, Same
<1>7. Sound(t) /\ Sound(u) /\ t.cached = s.cached /\ u.cached = s.cached
  BY <1>1, <1>5 DEF Same, Sound
<1>8. Leads({s.cached}, t, <<op>>, u)
  BY <1>6, <1>7, LeadsOne
<1>9. Leads({s.cached}, s, p \o <<op>>, u)
  BY <1>1, <1>8, LeadsOn
<1>10. QED BY <1>3, <1>5, <1>9 DEF Records

RecordingOf(cs) == [i \in 1..Len(cs) |-> RecordAll(cs[i])]

\* All commands of a sequence are recorded.
LEMMA RecordsAll ==
  ASSUME NEW X, NEW cs \in Seq(X), NEW s, Sound(s), s.busy = "none", s.rec \subseteq X
  PROVE  Records(s, Flat(RecordingOf(cs)), X)
<1>1. PICK rs : rs = RecordingOf(cs)
  OBVIOUS
<1>2. Len(cs) \in Nat /\ Len(rs) = Len(cs) /\ \A i \in 1..Len(cs) : rs[i] = RecordAll(cs[i])
  <2>1. rs = [i \in 1..Len(cs) |-> RecordAll(cs[i])] /\ Len(cs) \in Nat
    BY <1>1 DEF RecordingOf
  <2>2. PICK Z : Z = {RecordAll(cs[i]) : i \in 1..Len(cs)}
    OBVIOUS
  <2>3. rs \in Seq(Z) /\ Len(rs) = Len(cs)
    BY <2>1, <2>2
  <2>4. QED BY <2>1, <2>3
<1>3. Together(rs)[0] = <<>> /\ \A i \in 1..Len(rs) : Together(rs)[i] = Together(rs)[i - 1] \o rs[i]
  BY <1>2, TogetherIs
<1> DEFINE T == {i \in 0..Len(cs) : ~Records(s, Together(rs)[i], X)}
<1>4. ASSUME T # {} PROVE FALSE
  <2>1. PICK m \in T : \A k \in T : m <= k
    <3> HIDE DEF T
    <3>1. T \in SUBSET Nat
      BY <1>2 DEF T
    <3>2. QED BY <1>4, <3>1, LeastNat, Zenon
  <2>2. m \in 0..Len(cs) /\ ~Records(s, Together(rs)[m], X)
    BY <2>1, Zenon
  <2>3. m # 0
    <3>1. Leads({s.cached}, s, <<>>, s) /\ Same(s, s)
      BY LeadsNone DEF Same
    <3>2. Records(s, <<>>, X)
      BY <3>1 DEF Records
    <3>3. QED BY <1>3, <2>2, <3>2
  <2>4. m \in 1..Len(cs) /\ m - 1 \in 0..Len(cs)
    BY <1>2, <2>2, <2>3
  <2>5. m - 1 \notin T
    <3> HIDE DEF T
    <3>1. ~(m <= m - 1)
      BY <2>4
    <3>2. QED BY <2>1, <3>1, Zenon
  <2>6. Records(s, Together(rs)[m - 1], X)
    BY <2>4, <2>5, Zenon
  <2>7. cs[m] \in X
    BY <2>4
  <2>8. Records(s, Together(rs)[m - 1] \o RecordAll(cs[m]), X)
    BY <2>6, <2>7, RecordsOne
  <2>9. Together(rs)[m] = Together(rs)[m - 1] \o RecordAll(cs[m])
    BY <1>2, <1>3, <2>4
  <2>10. QED BY <2>2, <2>8, <2>9
<1>5. Len(cs) \in 0..Len(cs)
  BY <1>2
<1>6. Records(s, Together(rs)[Len(cs)], X)
  BY <1>4, <1>5, Zenon
<1>7. QED BY <1>1, <1>2, <1>6 DEF Flat

\* A command buffer is recorded, submitted with a new fence, and waited for.
LEMMA ThenLaunch ==
  ASSUME NEW K, NEW F, NEW p, NEW L, NEW G, Lives(K, F, p, L, G), NEW X, NEW cs \in Seq(X),
         \A c \in X : FitsK(c, L), \E k \in L : k[1] = "cb", Fresh("fence", L)
  PROVE  Lives(K, F, p \o Launch(cs), L \cup {<<"fence", 0>>}, G \cup {"fence"})
<1>0. "fence" \notin Tensors /\ "fence" \notin CacheObjects /\ "fence" # "mv_y" /\ "fence" \in Fences
  BY TensorsAreNamedApart DEF HostObjects, CacheObjects, Fences
<1>1. SUFFICES ASSUME NEW s, Has(L, G, s)
               PROVE  \E t : /\ Leads({s.cached}, s, Launch(cs), t)
                             /\ Has(L \cup {<<"fence", 0>>}, G \cup {"fence"}, t)
                             /\ t.cached = s.cached
  <2>1. Lives(L, G, Launch(cs), L \cup {<<"fence", 0>>}, G \cup {"fence"})
    BY <1>1 DEF Lives
  <2>2. QED BY <2>1, LivesOn
<1>2. Sound(s) /\ s.busy = "none"
  BY <1>1 DEF Has
\* Begin.
<1>3. PICK a : a = St(s.len, s.own, s.cached, {}, s.clear, s.busy)
  OBVIOUS
<1>4. Same(s, a) /\ a.rec = {} /\ Sound(a)
  BY <1>2, <1>3 DEF Same, St, Sound
<1>5. Leads({s.cached}, s, Begin, a)
  <2>1. PICK op : op = [op |-> "begin"]
    OBVIOUS
  <2>2. op.op = "begin" /\ Begin = <<op>>
    BY <2>1 DEF Begin
  <2>3. Does(s, op, a)
    BY <1>2, <1>3, <2>2 DEF Does
  <2>4. QED BY <1>2, <1>4, <2>2, <2>3, LeadsOne DEF Same
\* The commands.
<1>6. PICK b : Leads({s.cached}, a, Flat(RecordingOf(cs)), b) /\ Same(a, b) /\ b.rec \subseteq X
  <2>1. Records(a, Flat(RecordingOf(cs)), X)
    BY <1>2, <1>4, RecordsAll DEF Same
  <2>2. QED BY <1>4, <2>1 DEF Records, Same
<1>7. Same(s, b) /\ Sound(b)
  BY <1>4, <1>6 DEF Same, Sound
\* The fence.
<1>8. PICK d : d = MadeIn(b, "fence", 0)
  OBVIOUS
<1>9. /\ d.len = [q \in DOMAIN s.len \cup {"fence"} |-> IF q = "fence" THEN 0 ELSE s.len[q]]
      /\ d.own = s.own /\ d.cached = s.cached /\ d.rec = b.rec /\ "fence" \in d.clear /\ d.busy = "none"
  BY <1>0, <1>2, <1>7, <1>8 DEF MadeIn, St, Same
<1>10. /\ DOMAIN d.len = DOMAIN s.len \cup {"fence"} /\ d.len["fence"] = 0
       /\ \A q \in DOMAIN s.len : q # "fence" => d.len[q] = s.len[q]
  BY <1>9
<1>11. Sound(d)
  <2>1. d.len \in [DOMAIN d.len -> Nat] /\ d.own \subseteq DOMAIN d.len
    BY <1>2, <1>9, <1>10 DEF Sound
  <2>2. \A t \in Tensors \cap d.own : Shape[t].rows <= d.len[t]
    BY <1>0, <1>2, <1>9, <1>10 DEF Sound
  <2>3. d.cached # <<>> =>
          /\ CacheObjects \cup {"device"} \subseteq d.own
          /\ d.cached[2] \in Nat /\ Fills(d.cached[2]) /\ d.cached[2] <= d.len["mv_y"]
    <3>1. "mv_y" \in CacheObjects
      BY DEF CacheObjects
    <3>2. QED BY <1>0, <1>2, <1>9, <1>10, <3>1 DEF Sound
  <2>4. QED BY <2>1, <2>2, <2>3 DEF Sound
<1>12. Has(L \cup {<<"fence", 0>>}, G \cup {"fence"}, d)
  <2>1. DOMAIN d.len \subseteq d.own \cup (G \cup {"fence"})
    BY <1>1, <1>9, <1>10 DEF Has
  <2>2. \A k \in L \cup {<<"fence", 0>>} : k[1] \in DOMAIN d.len /\ k[2] <= d.len[k[1]]
    <3>1. TAKE k \in L \cup {<<"fence", 0>>}
    <3>2. CASE k = <<"fence", 0>>
      BY <1>10, <3>2
    <3>3. CASE k \in L
      <4>1. k[1] # "fence" /\ k[1] \in DOMAIN s.len /\ k[2] <= s.len[k[1]]
        BY <1>1, <3>3 DEF Has, Fresh
      <4>2. QED BY <1>10, <4>1
    <3>4. QED BY <3>2, <3>3
  <2>3. QED BY <1>9, <1>11, <2>1, <2>2 DEF Has
<1>13. Leads({s.cached}, b, Make("fence"), d)
  <2>1. PICK op : op = [op |-> "make", o |-> "fence", len |-> 0]
    OBVIOUS
  <2>2. op.op = "make" /\ op.o = "fence" /\ op.len = 0 /\ Make("fence") = <<op>>
    BY <2>1 DEF Make
  <2>3. b.busy = "none"
    BY <1>2, <1>7 DEF Same
  <2>4. Does(b, op, d)
    BY <1>8, <2>2, <2>3 DEF Does
  <2>5. b.cached = s.cached
    BY <1>7 DEF Same
  <2>6. QED BY <1>7, <1>9, <1>11, <2>2, <2>4, <2>5, LeadsOne
\* Submitted.
<1>14. PICK e : e = St(d.len, d.own, d.cached, d.rec, d.clear \ {"fence"}, "fence")
  OBVIOUS
<1>15. e.len = d.len /\ e.own = d.own /\ e.cached = s.cached /\ Sound(e) /\ e.busy = "fence"
  BY <1>9, <1>11, <1>14 DEF St, Sound
<1>16. Leads({s.cached}, d, SubmitAll("cb", "fence"), e)
  <2>1. PICK op : op = [op |-> "submit", cb |-> "cb", fence |-> "fence"]
    OBVIOUS
  <2>2. op.op = "submit" /\ op.cb = "cb" /\ op.fence = "fence" /\ SubmitAll("cb", "fence") = <<op>>
    BY <2>1 DEF SubmitAll
  <2>3. {"cb", "fence"} \subseteq DOMAIN d.len
    <3>1. PICK k \in L : k[1] = "cb"
      OBVIOUS
    <3>2. k[1] \in DOMAIN s.len
      BY <1>1 DEF Has
    <3>3. QED BY <1>10, <3>1, <3>2
  <2>4. \A c \in d.rec : FitsIn(c, d)
    <3>1. TAKE c \in d.rec
    <3>2. c \in X
      BY <1>6, <1>9
    <3>3. FitsK(c, L \cup {<<"fence", 0>>})
      <4>1. FitsK(c, L)
        BY <3>2
      <4>2. QED BY <4>1 DEF FitsK
    <3>4. QED BY <1>12, <3>3, FitsThere
  <2>5. Does(d, op, e)
    BY <1>0, <1>9, <1>14, <2>2, <2>3, <2>4 DEF Does
  <2>6. QED BY <1>9, <1>11, <1>15, <2>2, <2>5, LeadsOne
\* Waited for.
<1>17. PICK f : f = St(e.len, e.own, e.cached, e.rec, e.clear, "none")
  OBVIOUS
<1>18. f.len = d.len /\ f.own = d.own /\ f.cached = s.cached /\ Sound(f) /\ f.busy = "none"
  BY <1>15, <1>17 DEF St, Sound
<1>19. Leads({s.cached}, e, Wait("fence"), f)
  <2>1. PICK op : op = [op |-> "wait", fence |-> "fence"]
    OBVIOUS
  <2>2. op.op = "wait" /\ op.fence = "fence" /\ Wait("fence") = <<op>>
    BY <2>1 DEF Wait
  <2>3. Does(e, op, f)
    BY <1>15, <1>17, <2>2 DEF Does
  <2>4. QED BY <1>15, <1>18, <2>2, <2>3, LeadsOne
<1>20. Has(L \cup {<<"fence", 0>>}, G \cup {"fence"}, f)
  BY <1>12, <1>18 DEF Has
<1>21. Leads({s.cached}, s, Launch(cs), f)
  <2>1. Leads({s.cached}, s, Begin \o Flat(RecordingOf(cs)), b)
    BY <1>5, <1>6, LeadsOn
  <2>2. Leads({s.cached}, s, Begin \o Flat(RecordingOf(cs)) \o Make("fence"), d)
    BY <1>13, <2>1, LeadsOn
  <2>3. Leads({s.cached}, s, Begin \o Flat(RecordingOf(cs)) \o Make("fence") \o SubmitAll("cb", "fence"), e)
    BY <1>16, <2>2, LeadsOn
  <2>4. Leads({s.cached}, s, Begin \o Flat(RecordingOf(cs)) \o Make("fence") \o SubmitAll("cb", "fence")
                             \o Wait("fence"), f)
    BY <1>19, <2>3, LeadsOn
  <2>5. QED BY <2>4 DEF Launch, RecordingOf
<1>22. QED BY <1>18, <1>20, <1>21

\* A program after the empty one is the program.
LEMMA Lone ==
  ASSUME NEW K, NEW F, NEW p, NEW L, NEW G, IsSeq(p), Lives(K, F, <<>> \o p, L, G)
  PROVE  Lives(K, F, p, L, G)
<1>1. IsSeq(<<>>)
  <2>1. <<>> \in Seq({})
    OBVIOUS
  <2>2. QED BY <2>1 DEF IsSeq
<1>2. <<>> \o p = p
  BY <1>1, OneBehindOther
<1>3. QED BY <1>2

\* A single call is a program.
LEMMA OneIsSeq == ASSUME NEW op PROVE IsSeq(<<op>>)
<1>1. <<op>> \in Seq({op})
  OBVIOUS
<1>2. QED BY <1>1 DEF IsSeq

\* The names of the functions' own objects.
LEMMA PlainNames ==
  \A o \in HostObjects \ (CacheObjects \cup Fences \cup {"staging"}) : Plain(o)
BY TensorsAreNamedApart DEF Plain

\* MakeSet: the table of parameters and a descriptor pool.
LEMMA ThenSet ==
  ASSUME NEW K, NEW F, NEW p, NEW L, NEW G, Lives(K, F, p, L, G),
         NEW pool, Plain(pool), Fresh(pool, L), Fresh("params", L)
  PROVE  Lives(K, F, p \o MakeSet(pool), L \cup {<<pool, 0>>}, G \cup {pool})
<1>1. Lives(L, G, <<>>, L, G)
  BY LivesNone
<1>2. Plain("params")
  BY PlainNames DEF HostObjects, CacheObjects, Fences
<1>3. ParamsMax \in Nat
  BY VulkanHostAssumption
<1>4. Lives(L, G, <<>> \o Ensure("params", ParamsMax), L, G)
  BY <1>1, <1>2, <1>3, ThenEnsure
<1>5. Lives(L, G, Params, L, G)
  <2>1. IsSeq(Ensure("params", ParamsMax))
    BY OneIsSeq DEF Ensure
  <2>2. QED BY <1>4, <2>1, Lone DEF Params
<1>6. Lives(L, G, Params \o Make(pool), L \cup {<<pool, 0>>}, G \cup {pool})
  BY <1>5, ThenObject
<1>7. QED BY <1>6, LivesOn DEF MakeSet

\* RunRegistered: a kernel is run and its fence and command buffer freed.
LEMMA ThenRun ==
  ASSUME NEW K, NEW F, NEW p, NEW L, NEW G, Lives(K, F, p, L, G),
         NEW c, FitsK(c, L), Fresh("cb", L), Fresh("fence", L)
  PROVE  Lives(K, F, p \o RunRegistered(c), L, G)
<1>1. Lives(L, G, <<>>, L, G)
  BY LivesNone
<1>2. Plain("cb")
  BY PlainNames DEF HostObjects, CacheObjects, Fences
<1>3. Lives(L, G, <<>> \o Make("cb"), L \cup {<<"cb", 0>>}, G \cup {"cb"})
  BY <1>1, <1>2, ThenObject
<1>4. Lives(L, G, Make("cb"), L \cup {<<"cb", 0>>}, G \cup {"cb"})
  <2>1. IsSeq(Make("cb"))
    BY OneIsSeq DEF Make
  <2>2. QED BY <1>3, <2>1, Lone
<1>5. PICK M : M = L \cup {<<"cb", 0>>}
  OBVIOUS
<1>6. FitsK(c, M) /\ (\E k \in M : k[1] = "cb") /\ Fresh("fence", M)
  <2>1. FitsK(c, M)
    BY <1>5 DEF FitsK
  <2>2. PICK k : k = <<"cb", 0>>
    OBVIOUS
  <2>3. k \in M /\ k[1] = "cb"
    BY <1>5, <2>2
  <2>4. Fresh("fence", M)
    BY <1>5 DEF Fresh
  <2>5. QED BY <2>1, <2>3, <2>4
<1>7. PICK cs : cs = <<c>>
  OBVIOUS
<1>8. Lives(L, G, Make("cb") \o Launch(<<c>>), M \cup {<<"fence", 0>>}, (G \cup {"cb"}) \cup {"fence"})
  <2>1. PICK X : X = {c}
    OBVIOUS
  <2>2. cs \in Seq(X) /\ \A d \in X : FitsK(d, M)
    BY <1>6, <1>7, <2>1
  <2>3. Lives(L, G, Make("cb"), M, G \cup {"cb"})
    BY <1>4, <1>5
  <2>4. Lives(L, G, Make("cb") \o Launch(cs), M \cup {<<"fence", 0>>}, (G \cup {"cb"}) \cup {"fence"})
    BY <1>6, <2>2, <2>3, ThenLaunch, Zenon
  <2>5. QED BY <1>7, <2>4
<1>9. Lives(L, G, Make("cb") \o Launch(<<c>>) \o Free({"fence", "cb"}), L, G)
  <2>1. {"fence", "cb"} \cap (CacheObjects \cup {"device"}) = {}
    BY DEF CacheObjects
  <2>2. L \subseteq M \cup {<<"fence", 0>>} /\ \A k \in L : k[1] \notin {"fence", "cb"}
    BY <1>5 DEF Fresh
  <2>3. (G \cup {"cb"}) \cup {"fence"} \subseteq G \cup {"fence", "cb"}
    OBVIOUS
  <2>4. QED BY <1>8, <2>1, <2>2, <2>3, ThenFree
<1>10. QED BY <1>9, LivesOn DEF RunRegistered

\* Transfer: a copy that is within both of its ends.
LEMMA ThenTransfer ==
  ASSUME NEW K, NEW F, NEW p, NEW L, NEW G, Lives(K, F, p, L, G),
         NEW from, NEW to, NEW n \in Nat, NEW m \in Nat, n <= m,
         \E k \in L : k[1] = from, <<to, m>> \in L, to \notin Fences,
         Fresh("cb", L), Fresh("fence", L)
  PROVE  Lives(K, F, p \o Transfer(from, to, n), L, G)
<1>1. PICK c : c = Copied(from, to, n)
  OBVIOUS
<1>2. c.pool = {} /\ c.ins = <<<<from, n>>>> /\ c.outs = {<<to, n>>}
  BY <1>1 DEF Copied
<1>3. FitsK(c, L)
  <2>1. \A j \in DOMAIN c.ins : c.ins[j][1] = from
    BY <1>2
  <2>2. ASSUME NEW out \in c.outs
        PROVE  /\ out[1] \notin Fences
               /\ \E k \in L : k[1] = out[1] /\ {out[2], k[2]} \subseteq Nat /\ out[2] <= k[2]
    <3>1. out[1] = to /\ out[2] = n
      BY <1>2
    <3>2. PICK k : k = <<to, m>>
      OBVIOUS
    <3>3. k \in L /\ k[1] = to /\ k[2] = m
      BY <3>2
    <3>4. QED BY <3>1, <3>3
  <2>3. QED BY <1>2, <2>1, <2>2 DEF FitsK
<1>4. RunRegistered(c) = Transfer(from, to, n)
  BY <1>1, Zenon DEF RunRegistered, Transfer
<1>5. Lives(K, F, p \o RunRegistered(c), L, G)
  BY <1>3, ThenRun
<1>6. QED BY <1>4, <1>5

\* An upload through the staging buffer, refused when it is too long.
LEMMA UploadRuns ==
  ASSUME NEW L, NEW G, NEW b, NEW data, NEW n \in Nat, Len(data) \in Nat, <<b, n>> \in L,
         b \notin Fences, Fresh("staging", L), Fresh("cb", L), Fresh("fence", L)
  PROVE  Lives(L, G, StageUpload(b, data, n), L, G)
<1>1. Lives(L, G, <<>>, L, G)
  BY LivesNone
<1>2. CASE Len(data) > n
  <2>1. Lives(L, G, <<>> \o Reject, L, G)
    BY <1>1, ThenReject
  <2>2. IsSeq(Reject)
    BY OneIsSeq DEF Reject
  <2>3. Lives(L, G, Reject, L, G)
    BY <2>1, <2>2, Lone
  <2>4. StageUpload(b, data, n) = Reject
    BY <1>2 DEF StageUpload
  <2>5. QED BY <2>3, <2>4
<1>3. CASE ~(Len(data) > n)
  <2>1. PICK m : m = Len(data)
    OBVIOUS
  <2>2. PICK M : M = L \cup {<<"staging", m>>}
    OBVIOUS
  <2>3. m \in Nat /\ m <= n
    BY <1>3, <2>1
  <2>4. Lives(L, G, <<>> \o Staging(m), M, G)
    BY <1>1, <2>2, <2>3, ThenStaging
  <2>5. Lives(L, G, Staging(m), M, G)
    <3>1. IsSeq(Staging(m))
      BY OneIsSeq DEF Staging
    <3>2. QED BY <2>4, <3>1, Lone
  <2>6. Lives(L, G, Staging(m) \o Put("staging", data), M, G)
    <3>1. "staging" \notin Fences
      BY DEF Fences
    <3>2. QED BY <2>5, <3>1, ThenPut
  <2>7. Lives(L, G, Staging(m) \o Put("staging", data) \o Transfer("staging", b, m), M, G)
    <3>1. \E k \in M : k[1] = "staging"
      <4>1. PICK k : k = <<"staging", m>>
        OBVIOUS
      <4>2. k \in M /\ k[1] = "staging"
        BY <2>2, <4>1
      <4>3. QED BY <4>2
    <3>2. <<b, n>> \in M /\ Fresh("cb", M) /\ Fresh("fence", M)
      BY <2>2 DEF Fresh
    <3>3. QED BY <2>3, <2>6, <3>1, <3>2, ThenTransfer
  <2>8. StageUpload(b, data, n) = Staging(m) \o Put("staging", data) \o Transfer("staging", b, m)
    BY <1>3, <2>1, Zenon DEF StageUpload
  <2>9. Lives(L, G, StageUpload(b, data, n), L, G)
    <3>1. L \subseteq M /\ G \subseteq G
      BY <2>2
    <3>2. QED BY <2>7, <2>8, <3>1, LivesLess
  <2>10. QED BY <2>9
<1>4. QED BY <1>2, <1>3

\* StageUpload after another program.
LEMMA ThenUpload ==
  ASSUME NEW K, NEW F, NEW p, NEW L, NEW G, Lives(K, F, p, L, G),
         NEW b, NEW data, NEW n \in Nat, Len(data) \in Nat, <<b, n>> \in L,
         b \notin Fences, Fresh("staging", L), Fresh("cb", L), Fresh("fence", L)
  PROVE  Lives(K, F, p \o StageUpload(b, data, n), L, G)
<1>1. Lives(L, G, StageUpload(b, data, n), L, G)
  BY UploadRuns
<1>2. QED BY <1>1, LivesOn

\* A read through it.
LEMMA ReadDevRuns ==
  ASSUME NEW L, NEW G, NEW b, NEW n \in Nat, NEW len, \E k \in L : k[1] = b,
         Fresh("staging", L), Fresh("cb", L), Fresh("fence", L)
  PROVE  Lives(L, G, ReadDev(b, n, len), L, G)
<1>1. Lives(L, G, <<>>, L, G)
  BY LivesNone
<1>2. CASE n > len
  <2>1. Lives(L, G, <<>> \o Reject, L, G)
    BY <1>1, ThenReject
  <2>2. IsSeq(Reject)
    BY OneIsSeq DEF Reject
  <2>3. Lives(L, G, Reject, L, G)
    BY <2>1, <2>2, Lone
  <2>4. ReadDev(b, n, len) = Reject
    BY <1>2, Zenon DEF ReadDev
  <2>5. QED BY <2>3, <2>4
<1>3. CASE ~(n > len)
  <2>2. PICK M : M = L \cup {<<"staging", n>>}
    OBVIOUS
  <2>4. Lives(L, G, <<>> \o Staging(n), M, G)
    BY <1>1, <2>2, ThenStaging
  <2>5. Lives(L, G, Staging(n), M, G)
    <3>1. IsSeq(Staging(n))
      BY OneIsSeq DEF Staging
    <3>2. QED BY <2>4, <3>1, Lone
  <2>6. Lives(L, G, Staging(n) \o Transfer(b, "staging", n), M, G)
    <3>1. \E k \in M : k[1] = b
      BY <2>2
    <3>2. <<"staging", n>> \in M /\ Fresh("cb", M) /\ Fresh("fence", M) /\ "staging" \notin Fences /\ n <= n
      BY <2>2 DEF Fresh, Fences
    <3>3. QED BY <2>5, <3>1, <3>2, ThenTransfer
  <2>7. Lives(L, G, Staging(n) \o Transfer(b, "staging", n) \o CopyOut("staging", n), M, G)
    BY <2>6, ThenRead
  <2>8. ReadDev(b, n, len) = Staging(n) \o Transfer(b, "staging", n) \o CopyOut("staging", n)
    BY <1>3, Zenon DEF ReadDev
  <2>9. Lives(L, G, ReadDev(b, n, len), L, G)
    <3>1. L \subseteq M /\ G \subseteq G
      BY <2>2
    <3>2. QED BY <2>7, <2>8, <3>1, LivesLess
  <2>10. QED BY <2>9
<1>4. QED BY <1>2, <1>3

\* How many floats an input has.
LEMMA FloatsLen ==
  ASSUME NEW name, NEW n \in Nat
  PROVE  Len(Floats(name, n)) = n
<1>1. PICK X : X = {<<name, calls>>}
  OBVIOUS
<1>2. Floats(name, n) \in [1..n -> X]
  BY <1>1 DEF Floats
<1>3. QED BY <1>2

-----------------------------------------------------------------------------
\* A state and its abstraction: the lengths are those of the heap, but for fences; what is
\* queued is waited for with a fence that is not signalled yet, and has its objects.
Mirrors(s, h, held, cache, rec, q) ==
  /\ DOMAIN s.len = DOMAIN h
  /\ \A o \in DOMAIN h : s.len[o] = IF o \in Fences THEN 0 ELSE Len(h[o])
  /\ s.own = held /\ s.cached = cache
  /\ \A i \in 1..Len(rec) : rec[i] \in s.rec
  /\ s.clear \subseteq Fences \cap DOMAIN h /\ (\A f \in s.clear : h[f] = <<>>) /\ s.busy \notin s.clear
  /\ s.busy = "none" => q = <<>>
  /\ q # <<>> => s.busy \in Fences \cap DOMAIN h /\ h[s.busy] = <<>>
  /\ \A i \in 1..Len(q) : /\ q[i].fence = s.busy /\ FitsIn(q[i].c, s)
                          /\ q[i].held \subseteq DOMAIN s.len

AreSequences(h, rec, q) == (\A o \in DOMAIN h : IsSeq(h[o])) /\ IsSeq(rec) /\ IsSeq(q)

\* Equal elements make a sequence of their number.
LEMMA LengthOf ==
  ASSUME NEW n \in Nat, NEW x
  PROVE  IsSeq([i \in 1..n |-> x]) /\ Len([i \in 1..n |-> x]) = n /\ (n = 0 => [i \in 1..n |-> x] = <<>>)
<1>1. [i \in 1..n |-> x] \in Seq({x}) /\ Len([i \in 1..n |-> x]) = n
  <2>1. [i \in 1..n |-> x] \in [1..n -> {x}]
    OBVIOUS
  <2>2. QED BY <2>1
<1>2. PICK e : e = [i \in 1..n |-> x]
  OBVIOUS
<1>3. e \in Seq({x}) /\ Len(e) = n
  BY <1>1, <1>2
<1>4. n = 0 => e = <<>>
  BY <1>3
<1>5. IsSeq(e)
  BY <1>3 DEF IsSeq
<1>6. QED BY <1>2, <1>3, <1>4, <1>5

\* Writing over a buffer keeps its length.
LEMMA OverKeeps ==
  ASSUME NEW old, NEW new, IsSeq(old)
  PROVE  /\ IsSeq(Over(old, new)) /\ Len(Over(old, new)) = Len(old)
         /\ old = <<>> => Over(old, new) = <<>>
<1>1. PICK X : old \in Seq(X)
  BY DEF IsSeq
<1>2. Len(old) \in Nat
  BY <1>1
<1>3. PICK Y : Y = {Over(old, new)[i] : i \in 1..Len(old)}
  OBVIOUS
<1>4. Over(old, new) \in [1..Len(old) -> Y]
  BY <1>3 DEF Over
<1>5. Over(old, new) \in Seq(Y) /\ Len(Over(old, new)) = Len(old)
  BY <1>2, <1>4
<1>6. old = <<>> => Over(old, new) = <<>>
  BY <1>5
<1>7. QED BY <1>5, <1>6 DEF IsSeq

\* An object is made.
MadeOf(h, o, n) == [p \in DOMAIN h \cup {o} |-> IF p = o THEN [i \in 1..n |-> Junk] ELSE h[p]]

\* The mirror of a heap with one more object.
LEMMA MirrorsMade ==
  ASSUME NEW s, NEW h, NEW held, NEW cache, NEW rec, NEW q, Mirrors(s, h, held, cache, rec, q),
         AreSequences(h, rec, q), s.busy = "none", NEW o, NEW n \in Nat, o \in Fences => n = 0
  PROVE  /\ Mirrors(MadeIn(s, o, n), MadeOf(h, o, n), held, cache, rec, q)
         /\ AreSequences(MadeOf(h, o, n), rec, q)
<1>1. PICK g : g = MadeOf(h, o, n)
  OBVIOUS
<1>2. PICK new : new = [i \in 1..n |-> Junk]
  OBVIOUS
<1>3. IsSeq(new) /\ Len(new) = n /\ (n = 0 => new = <<>>)
  BY <1>2, LengthOf
<1>4. /\ DOMAIN g = DOMAIN h \cup {o} /\ g[o] = new
      /\ \A p \in DOMAIN h : p # o => g[p] = h[p]
  BY <1>1, <1>2 DEF MadeOf
<1>5. PICK u : u = MadeIn(s, o, n)
  OBVIOUS
<1>6. /\ u.len = [p \in DOMAIN s.len \cup {o} |-> IF p = o THEN n ELSE s.len[p]]
      /\ u.own = s.own /\ u.cached = s.cached /\ u.rec = s.rec /\ u.busy = s.busy
      /\ u.clear = IF o \in Fences THEN s.clear \cup {o} ELSE s.clear
  BY <1>5 DEF MadeIn, St
<1>7. q = <<>>
  BY DEF Mirrors
<1>8. DOMAIN u.len = DOMAIN g /\ \A p \in DOMAIN g : u.len[p] = IF p \in Fences THEN 0 ELSE Len(g[p])
  BY <1>3, <1>4, <1>6 DEF Mirrors
<1>9. u.clear \subseteq Fences \cap DOMAIN g /\ (\A f \in u.clear : g[f] = <<>>)
  BY <1>3, <1>4, <1>6 DEF Mirrors
<1>10. u.busy \notin u.clear
  <2>1. "none" \notin Fences
    BY DEF Fences
  <2>2. QED BY <1>6, <2>1 DEF Mirrors
<1>11. Mirrors(u, g, held, cache, rec, q)
  <2>1. u.own = held /\ u.cached = cache /\ \A i \in 1..Len(rec) : rec[i] \in u.rec
    BY <1>6 DEF Mirrors
  <2>2. \A i \in 1..Len(q) : FALSE
    BY <1>7
  <2>3. QED BY <1>7, <1>8, <1>9, <1>10, <2>1, <2>2, Zenon DEF Mirrors
<1>12. AreSequences(g, rec, q)
  BY <1>3, <1>4 DEF AreSequences
<1>13. QED BY <1>1, <1>5, <1>11, <1>12

\* A field holds more.
LEMMA MirrorsHeld ==
  ASSUME NEW s, NEW h, NEW held, NEW cache, NEW rec, NEW q, Mirrors(s, h, held, cache, rec, q), NEW os
  PROVE  Mirrors(HeldIn(s, os), h, held \cup os, cache, rec, q)
<1>1. PICK u : u = HeldIn(s, os)
  OBVIOUS
<1>2. /\ u.len = s.len /\ u.own = s.own \cup os /\ u.cached = s.cached /\ u.rec = s.rec
      /\ u.busy = s.busy /\ u.clear = s.clear
  BY <1>1 DEF HeldIn, St
<1>3. Mirrors(u, h, held \cup os, cache, rec, q)
  BY <1>2 DEF Mirrors, FitsIn
<1>4. QED BY <1>1, <1>3

\* Objects go, and with them what held them.
LEMMA MirrorsKept ==
  ASSUME NEW s, NEW h, NEW held, NEW cache, NEW rec, NEW q, Mirrors(s, h, held, cache, rec, q),
         AreSequences(h, rec, q), NEW D, D \subseteq DOMAIN h, NEW held2, NEW cache2, NEW u,
         u = St([o \in D |-> s.len[o]], held2, cache2, s.rec, s.clear \cap D, "none")
  PROVE  /\ Mirrors(u, [o \in D |-> h[o]], held2, cache2, rec, <<>>)
         /\ AreSequences([o \in D |-> h[o]], rec, <<>>)
<1>1. /\ u.len = [o \in D |-> s.len[o]] /\ u.own = held2 /\ u.cached = cache2 /\ u.rec = s.rec
      /\ u.busy = "none" /\ u.clear = s.clear \cap D
  BY DEF St
<1>2. PICK g : g = [o \in D |-> h[o]]
  OBVIOUS
<1>3. DOMAIN g = D /\ \A o \in D : g[o] = h[o] /\ u.len[o] = s.len[o]
  BY <1>1, <1>2
<1>4. IsSeq(<<>>) /\ Len(<<>>) = 0
  <2>1. <<>> \in Seq({})
    OBVIOUS
  <2>2. QED BY <2>1 DEF IsSeq
<1>5. "none" \notin Fences
  BY DEF Fences
<1>6. Mirrors(u, g, held2, cache2, rec, <<>>)
  <2>1. u.own = held2 /\ u.cached = cache2 /\ \A i \in 1..Len(rec) : rec[i] \in u.rec
    BY <1>1 DEF Mirrors
  <2>0. /\ \A o \in DOMAIN h : s.len[o] = IF o \in Fences THEN 0 ELSE Len(h[o])
        /\ s.clear \subseteq Fences /\ \A f \in s.clear : h[f] = <<>>
    BY DEF Mirrors
  <2>2. DOMAIN u.len = DOMAIN g /\ \A o \in DOMAIN g : u.len[o] = IF o \in Fences THEN 0 ELSE Len(g[o])
    <3>1. DOMAIN u.len = D
      BY <1>1
    <3>2. \A o \in D : o \in DOMAIN h
      OBVIOUS
    <3>3. QED BY <1>3, <2>0, <3>1, <3>2
  <2>3. /\ u.clear \subseteq Fences \cap DOMAIN g /\ (\A f \in u.clear : g[f] = <<>>)
        /\ u.busy \notin u.clear
    <3>1. u.clear \subseteq s.clear /\ u.clear \subseteq D /\ u.busy = "none"
      BY <1>1
    <3>2. \A f \in u.clear : f \in D /\ h[f] = <<>>
      BY <2>0, <3>1
    <3>3. \A f \in u.clear : g[f] = <<>>
      BY <1>3, <3>2
    <3>4. QED BY <1>3, <1>5, <2>0, <3>1, <3>3
  <2>4. \A i \in 1..Len(<<>>) : FALSE
    BY <1>4
  <2>5. QED BY <2>1, <2>2, <2>3, <2>4, Zenon DEF Mirrors
<1>7. AreSequences(g, rec, <<>>)
  BY <1>3, <1>4 DEF AreSequences
<1>8. QED BY <1>2, <1>6, <1>7

-----------------------------------------------------------------------------
\* What a call is to leave behind, and the cache it works with: where every device is
\* opened with its cache, that is the widest.
Goal(c, C, t) ==
  /\ c.fn = "drop" => t.own \subseteq {"params"} \cup Tensors
  /\ AlwaysCached =>
       /\ c.fn # "open"
       /\ c.fn = "enable_gpu" => t.cached = <<MaxNe0, MaxRows>>
       /\ c.fn \notin {"enable_gpu", "drop"} => C \subseteq {<<MaxNe0, MaxRows>>}

Rested ==
  /\ result = "ok" /\ hostCall.fn = "drop" => own \subseteq {"params"} \cup Tensors
  /\ AlwaysCached /\ "device" \in own /\ hostCall.fn # "drop" => cached = <<MaxNe0, MaxRows>>

MirrorsNow(s) == Mirrors(s, heap, own, cached, recorded, queue)

\* Between two calls everything is held by a field and the device is idle; in the middle
\* of one the rest of its program leads to such a state.
VkInv ==
  /\ AreSequences(heap, recorded, queue) /\ calls \in Nat
  /\ result # "running" => Rested /\ \E s : MirrorsNow(s) /\ Has({}, {}, s)
  /\ result = "running" =>
       \E C, s, t : MirrorsNow(s) /\ Leads(C, s, todo, t) /\ Has({}, {}, t) /\ Goal(hostCall, C, t)

\* At first nothing is alive.
LEMMA VkStarts == VkInit => VkInv
<1> SUFFICES ASSUME VkInit PROVE VkInv
  OBVIOUS
<1>1. /\ heap = [o \in {} |-> <<>>] /\ own = {} /\ cached = <<>> /\ recorded = <<>> /\ queue = <<>>
      /\ result = "none" /\ calls = 0
  BY DEF VkInit
<1>2. IsSeq(<<>>) /\ Len(<<>>) = 0
  <2>1. <<>> \in Seq({})
    OBVIOUS
  <2>2. QED BY <2>1 DEF IsSeq
<1>3. PICK s : s = St([o \in {} |-> 0], {}, <<>>, {}, {}, "none")
  OBVIOUS
<1>4. /\ s.len = [o \in {} |-> 0] /\ s.own = {} /\ s.cached = <<>> /\ s.clear = {} /\ s.busy = "none"
  BY <1>3 DEF St
<1>5. MirrorsNow(s)
  <2>1. \A i \in 1..Len(<<>>) : FALSE
    BY <1>2
  <2>2. DOMAIN s.len = {} /\ DOMAIN heap = {}
    BY <1>1, <1>4
  <2>3. QED BY <1>1, <1>4, <2>1, <2>2 DEF MirrorsNow, Mirrors
<1>6. Has({}, {}, s)
  BY <1>4 DEF Has, Sound
<1>7. Rested
  BY <1>1 DEF Rested
<1>8. AreSequences(heap, recorded, queue)
  BY <1>1, <1>2 DEF AreSequences
<1>9. QED BY <1>1, <1>5, <1>6, <1>7, <1>8 DEF VkInv

\* Where a running call stands.
Stands(C, s, u, t) ==
  /\ MirrorsNow(s) /\ Sound(s) /\ s.cached \in C
  /\ Does(s, First, u) /\ Leads(C, u, Tail(todo), t) /\ Has({}, {}, t) /\ Goal(hostCall, C, t)

\* A running call that is not at its end stands somewhere.
LEMMA Standing ==
  ASSUME VkInv, result = "running", todo # <<>>
  PROVE  \E C, s, u, t : Stands(C, s, u, t)
<1>1. PICK C, s, t : MirrorsNow(s) /\ Leads(C, s, todo, t) /\ Has({}, {}, t) /\ Goal(hostCall, C, t)
  BY DEF VkInv
<1>2. Sound(s) /\ s.cached \in C /\ \E u : Does(s, todo[1], u) /\ Leads(C, u, Tail(todo), t)
  BY <1>1, LeadsOff
<1>3. QED BY <1>1, <1>2 DEF Stands, First

\* A driver call that does what its program wants.
LEMMA GoesOn ==
  ASSUME VkInv, result = "running", NEW C, NEW s, NEW u, NEW t, Stands(C, s, u, t),
         Mirrors(u, heap', own', cached', recorded', queue'),
         AreSequences(heap', recorded', queue'),
         Advance, UNCHANGED <<calls, hostCall, result>>
  PROVE  VkInv'
<1>1. MirrorsNow(u)' /\ Leads(C, u, todo', t) /\ Has({}, {}, t) /\ Goal(hostCall', C, t)
  BY DEF Stands, MirrorsNow, Advance
<1>2. calls' \in Nat /\ result' = "running"
  BY DEF VkInv
<1>3. QED BY <1>1, <1>2 DEF VkInv

\* The same of a running driver call.
LEMMA RunningStands ==
  ASSUME VkInv, NEW op, Running(op)
  PROVE  result = "running" /\ First.op = op /\ \E C, s, u, t : Stands(C, s, u, t)
BY Standing DEF Running

\* What is known where it stands.
LEMMA Mirrored ==
  ASSUME VkInv, NEW C, NEW s, NEW u, NEW t, Stands(C, s, u, t)
  PROVE  /\ Mirrors(s, heap, own, cached, recorded, queue) /\ AreSequences(heap, recorded, queue)
         /\ Does(s, First, u) /\ Sound(s)
BY DEF Stands, MirrorsNow, VkInv

\* An object is made.
LEMMA MakeKeeps == VkInv /\ MakeObject => VkInv'
<1> SUFFICES ASSUME VkInv, MakeObject PROVE VkInv'
  OBVIOUS
<1>1. result = "running" /\ First.op = "make"
  BY RunningStands DEF MakeObject
<1>2. PICK C, s, u, t : Stands(C, s, u, t)
  BY RunningStands DEF MakeObject
<1>3. /\ s.busy = "none" /\ First.len \in Nat /\ (First.o \in Fences => First.len = 0)
      /\ u = MadeIn(s, First.o, First.len)
  BY <1>1, <1>2, Mirrored DEF Does
<1>4. heap' = MadeOf(heap, First.o, First.len)
  BY DEF MakeObject, Made, MadeOf
<1>5. /\ Mirrors(u, heap', own, cached, recorded, queue)
      /\ AreSequences(heap', recorded, queue)
  BY <1>2, <1>3, <1>4, Mirrored, MirrorsMade
<1>6. QED BY <1>1, <1>2, <1>5, GoesOn DEF MakeObject

\* A field is filled when it is empty.
LEMMA EnsureKeeps == VkInv /\ EnsureObject => VkInv'
<1> SUFFICES ASSUME VkInv, EnsureObject PROVE VkInv'
  OBVIOUS
<1>1. result = "running" /\ First.op = "ensure"
  BY RunningStands DEF EnsureObject
<1>2. PICK C, s, u, t : Stands(C, s, u, t)
  BY RunningStands DEF EnsureObject
<1>3. /\ s.busy = "none" /\ First.len \in Nat /\ First.o \notin Fences
      /\ u = IF First.o \in s.own THEN s ELSE HeldIn(MadeIn(s, First.o, First.len), {First.o})
  BY <1>1, <1>2, Mirrored DEF Does
<1>4. s.own = own
  BY <1>2, Mirrored DEF Mirrors
<1>5. CASE First.o \in own
  <2>1. u = s /\ heap' = heap /\ own' = own
    BY <1>3, <1>4, <1>5 DEF EnsureObject
  <2>2. Mirrors(u, heap', own', cached, recorded, queue) /\ AreSequences(heap', recorded, queue)
    BY <1>2, <2>1, Mirrored
  <2>3. QED BY <1>1, <1>2, <2>2, GoesOn DEF EnsureObject
<1>6. CASE First.o \notin own
  <2>1. /\ u = HeldIn(MadeIn(s, First.o, First.len), {First.o})
        /\ heap' = MadeOf(heap, First.o, First.len) /\ own' = own \cup {First.o}
    BY <1>3, <1>4, <1>6 DEF EnsureObject, Made, MadeOf
  <2>2. PICK v : v = MadeIn(s, First.o, First.len)
    OBVIOUS
  <2>3. Mirrors(v, heap', own, cached, recorded, queue) /\ AreSequences(heap', recorded, queue)
    BY <1>2, <1>3, <2>1, <2>2, Mirrored, MirrorsMade
  <2>4. Mirrors(u, heap', own', cached, recorded, queue)
    BY <2>1, <2>2, <2>3, MirrorsHeld
  <2>5. QED BY <1>1, <1>2, <2>3, <2>4, GoesOn DEF EnsureObject
<1>7. QED BY <1>5, <1>6

\* The staging buffer is long enough where its mirror is.
LEMMA LongEnoughMeans ==
  ASSUME VkInv, NEW s, Mirrors(s, heap, own, cached, recorded, queue), Sound(s), NEW n \in Nat
  PROVE  LongEnough(n) <=> "staging" \in s.own /\ s.len["staging"] >= n
<1>1. s.own = own /\ DOMAIN s.len = DOMAIN heap /\ s.own \subseteq DOMAIN s.len
  BY DEF Mirrors, Sound
<1>2. "staging" \in DOMAIN heap => s.len["staging"] = Len(heap["staging"])
  BY DEF Mirrors, Fences
<1>3. QED BY <1>1, <1>2 DEF LongEnough, LenOf

\* The staging buffer is kept or replaced.
LEMMA StagingKeeps == VkInv /\ EnsureStaging => VkInv'
<1> SUFFICES ASSUME VkInv, EnsureStaging PROVE VkInv'
  OBVIOUS
<1>1. result = "running" /\ First.op = "staging"
  BY RunningStands DEF EnsureStaging
<1>2. PICK C, s, u, t : Stands(C, s, u, t)
  BY RunningStands DEF EnsureStaging
<1>3. /\ s.busy = "none" /\ First.len \in Nat
      /\ u = IF "staging" \in s.own /\ s.len["staging"] >= First.len THEN s
             ELSE HeldIn(MadeIn(s, "staging", First.len), {"staging"})
  BY <1>1, <1>2, Mirrored DEF Does
<1>4. s.own = own /\ "staging" \notin Fences
  BY <1>2, Mirrored DEF Mirrors, Fences
<1>5. LongEnough(First.len) <=> "staging" \in s.own /\ s.len["staging"] >= First.len
  BY <1>2, <1>3, Mirrored, LongEnoughMeans
<1>6. CASE LongEnough(First.len)
  <2>1. u = s /\ heap' = heap /\ own' = own
    BY <1>3, <1>4, <1>5, <1>6 DEF EnsureStaging, LongEnough
  <2>2. Mirrors(u, heap', own', cached, recorded, queue) /\ AreSequences(heap', recorded, queue)
    BY <1>2, <2>1, Mirrored
  <2>3. QED BY <1>1, <1>2, <2>2, GoesOn DEF EnsureStaging
<1>7. CASE ~LongEnough(First.len)
  <2>1. /\ u = HeldIn(MadeIn(s, "staging", First.len), {"staging"})
        /\ heap' = MadeOf(heap, "staging", First.len) /\ own' = own \cup {"staging"}
    BY <1>3, <1>4, <1>5, <1>7 DEF EnsureStaging, Made, MadeOf
  <2>2. PICK v : v = MadeIn(s, "staging", First.len)
    OBVIOUS
  <2>3. Mirrors(v, heap', own, cached, recorded, queue) /\ AreSequences(heap', recorded, queue)
    BY <1>2, <1>3, <1>4, <2>1, <2>2, Mirrored, MirrorsMade
  <2>4. Mirrors(u, heap', own', cached, recorded, queue)
    BY <2>1, <2>2, <2>3, MirrorsHeld
  <2>5. QED BY <1>1, <1>2, <2>3, <2>4, GoesOn DEF EnsureStaging
<1>8. QED BY <1>6, <1>7

\* A field takes what was made.
LEMMA KeepKeeps == VkInv /\ KeepObjects => VkInv'
<1> SUFFICES ASSUME VkInv, KeepObjects PROVE VkInv'
  OBVIOUS
<1>1. result = "running" /\ First.op = "keep"
  BY RunningStands DEF KeepObjects
<1>2. PICK C, s, u, t : Stands(C, s, u, t)
  BY RunningStands DEF KeepObjects
<1>3. u = HeldIn(s, First.os)
  BY <1>1, <1>2, Mirrored DEF Does
<1>4. Mirrors(u, heap, own', cached, recorded, queue) /\ AreSequences(heap, recorded, queue)
  BY <1>2, <1>3, Mirrored, MirrorsHeld DEF KeepObjects
<1>5. QED BY <1>1, <1>2, <1>4, GoesOn DEF KeepObjects

\* The cache is there.
LEMMA CacheKeeps == VkInv /\ KeepCache => VkInv'
<1> SUFFICES ASSUME VkInv, KeepCache PROVE VkInv'
  OBVIOUS
<1>1. result = "running" /\ First.op = "cache"
  BY RunningStands DEF KeepCache
<1>2. PICK C, s, u, t : Stands(C, s, u, t)
  BY RunningStands DEF KeepCache
<1>3. u = St(s.len, s.own, <<First.ne0, First.rows>>, s.rec, s.clear, s.busy)
  BY <1>1, <1>2, Mirrored DEF Does
<1>4. /\ u.len = s.len /\ u.own = s.own /\ u.cached = <<First.ne0, First.rows>>
      /\ u.rec = s.rec /\ u.clear = s.clear /\ u.busy = s.busy
  BY <1>3 DEF St
<1>5. Mirrors(u, heap, own, cached', recorded, queue)
  <2>1. Mirrors(s, heap, own, cached, recorded, queue)
    BY <1>2, Mirrored
  <2>2. \A c : FitsIn(c, s) => FitsIn(c, u)
    BY <1>4 DEF FitsIn
  <2>3. cached' = <<First.ne0, First.rows>>
    BY DEF KeepCache
  <2>4. QED BY <1>4, <2>1, <2>2, <2>3 DEF Mirrors
<1>6. QED BY <1>1, <1>2, <1>5, Mirrored, GoesOn DEF KeepCache

\* A mapped buffer is written.
LEMMA PutKeeps == VkInv /\ PutFloats => VkInv'
<1> SUFFICES ASSUME VkInv, PutFloats PROVE VkInv'
  OBVIOUS
<1>1. result = "running" /\ First.op = "put"
  BY RunningStands DEF PutFloats
<1>2. PICK C, s, u, t : Stands(C, s, u, t)
  BY RunningStands DEF PutFloats
<1>3. u = s /\ s.busy = "none" /\ First.b \notin Fences
  BY <1>1, <1>2, Mirrored DEF Does
<1>4. Mirrors(s, heap, own, cached, recorded, queue) /\ AreSequences(heap, recorded, queue)
  BY <1>2, Mirrored
<1>5. PICK b : b = First.b
  OBVIOUS
<1>6. /\ DOMAIN heap' = DOMAIN heap
      /\ \A o \in DOMAIN heap : o # b => heap'[o] = heap[o]
      /\ b \in DOMAIN heap => heap'[b] = Over(heap[b], First.data)
  BY <1>5 DEF PutFloats
<1>7. b \in DOMAIN heap => IsSeq(heap'[b]) /\ Len(heap'[b]) = Len(heap[b])
  BY <1>4, <1>6, OverKeeps DEF AreSequences
<1>8. AreSequences(heap', recorded, queue)
  BY <1>4, <1>6, <1>7 DEF AreSequences
<1>9. Mirrors(s, heap', own, cached, recorded, queue)
  <2>1. \A o \in DOMAIN heap' : s.len[o] = IF o \in Fences THEN 0 ELSE Len(heap'[o])
    BY <1>4, <1>6, <1>7 DEF Mirrors
  <2>2. \A f \in s.clear : heap'[f] = <<>>
    BY <1>3, <1>4, <1>5, <1>6 DEF Mirrors
  <2>3. queue = <<>>
    BY <1>3, <1>4 DEF Mirrors
  <2>4. QED BY <1>4, <1>6, <2>1, <2>2, <2>3 DEF Mirrors
<1>10. QED BY <1>1, <1>2, <1>3, <1>8, <1>9, GoesOn DEF PutFloats

\* A command buffer is begun.
LEMMA BeginKeeps == VkInv /\ BeginCommands => VkInv'
<1> SUFFICES ASSUME VkInv, BeginCommands PROVE VkInv'
  OBVIOUS
<1>1. result = "running" /\ First.op = "begin"
  BY RunningStands DEF BeginCommands
<1>2. PICK C, s, u, t : Stands(C, s, u, t)
  BY RunningStands DEF BeginCommands
<1>3. u = St(s.len, s.own, s.cached, {}, s.clear, s.busy)
  BY <1>1, <1>2, Mirrored DEF Does
<1>4. /\ u.len = s.len /\ u.own = s.own /\ u.cached = s.cached /\ u.clear = s.clear /\ u.busy = s.busy
  BY <1>3 DEF St
<1>5. Mirrors(s, heap, own, cached, recorded, queue) /\ AreSequences(heap, recorded, queue)
  BY <1>2, Mirrored
<1>6. recorded' = <<>> /\ IsSeq(<<>>) /\ \A i \in 1..Len(<<>>) : FALSE
  <2>1. <<>> \in Seq({}) /\ Len(<<>>) = 0
    OBVIOUS
  <2>2. IsSeq(<<>>)
    BY <2>1 DEF IsSeq
  <2>3. QED BY <2>1, <2>2 DEF BeginCommands
<1>7. Mirrors(u, heap, own, cached, recorded', queue)
  <2>1. \A c : FitsIn(c, s) => FitsIn(c, u)
    BY <1>4 DEF FitsIn
  <2>2. \A i \in 1..Len(recorded') : recorded'[i] \in u.rec
    BY <1>6
  <2>3. QED BY <1>4, <1>5, <2>1, <2>2 DEF Mirrors
<1>8. AreSequences(heap, recorded', queue)
  BY <1>5, <1>6 DEF AreSequences
<1>9. QED BY <1>1, <1>2, <1>7, <1>8, GoesOn DEF BeginCommands

\* A command is recorded.
LEMMA RecordKeeps == VkInv /\ RecordCommand => VkInv'
<1> SUFFICES ASSUME VkInv, RecordCommand PROVE VkInv'
  OBVIOUS
<1>1. result = "running" /\ First.op = "record"
  BY RunningStands DEF RecordCommand
<1>2. PICK C, s, u, t : Stands(C, s, u, t)
  BY RunningStands DEF RecordCommand
<1>3. u = St(s.len, s.own, s.cached, s.rec \cup {First.c}, s.clear, s.busy)
  BY <1>1, <1>2, Mirrored DEF Does
<1>4. /\ u.len = s.len /\ u.own = s.own /\ u.cached = s.cached /\ u.clear = s.clear /\ u.busy = s.busy
      /\ u.rec = s.rec \cup {First.c}
  BY <1>3 DEF St
<1>5. Mirrors(s, heap, own, cached, recorded, queue) /\ AreSequences(heap, recorded, queue)
  BY <1>2, Mirrored
<1>6. recorded' = Append(recorded, First.c)
  BY DEF RecordCommand
<1>7. PICK X : recorded \in Seq(X)
  BY <1>5 DEF AreSequences, IsSeq
<1>8. PICK Y : Y = X \cup {First.c}
  OBVIOUS
<1>9. recorded \in Seq(Y) /\ First.c \in Y
  BY <1>7, <1>8
<1>10. PICK c : c = First.c
  OBVIOUS
<1>11. /\ recorded' \in Seq(Y) /\ Len(recorded) \in Nat /\ Len(recorded') = Len(recorded) + 1
       /\ \A i \in 1..Len(recorded) : recorded'[i] = recorded[i]
       /\ recorded'[Len(recorded) + 1] = c
  BY <1>6, <1>9, <1>10
<1>12. \A i \in 1..Len(recorded') : recorded'[i] \in u.rec
  <2>1. TAKE i \in 1..Len(recorded')
  <2>2. CASE i \in 1..Len(recorded)
    <3>1. recorded[i] \in s.rec
      BY <1>5, <2>2 DEF Mirrors
    <3>2. QED BY <1>4, <1>11, <2>2, <3>1
  <2>3. CASE i \notin 1..Len(recorded)
    <3>1. i = Len(recorded) + 1
      BY <1>11, <2>3
    <3>2. QED BY <1>4, <1>10, <1>11, <3>1
  <2>4. QED BY <2>2, <2>3
<1>13. Mirrors(u, heap, own, cached, recorded', queue)
  <2>1. \A x : FitsIn(x, s) => FitsIn(x, u)
    BY <1>4 DEF FitsIn
  <2>2. QED BY <1>4, <1>5, <1>12, <2>1 DEF Mirrors
<1>14. AreSequences(heap, recorded', queue)
  BY <1>5, <1>11 DEF AreSequences, IsSeq
<1>15. QED BY <1>1, <1>2, <1>13, <1>14, GoesOn DEF RecordCommand

\* The commands are submitted: each has its objects and room.
LEMMA SubmitKeeps == VkInv /\ SubmitCommands => VkInv'
<1> SUFFICES ASSUME VkInv, SubmitCommands PROVE VkInv'
  OBVIOUS
<1>1. result = "running" /\ First.op = "submit"
  BY RunningStands DEF SubmitCommands
<1>2. PICK C, s, u, t : Stands(C, s, u, t)
  BY RunningStands DEF SubmitCommands
<1>3. PICK f : f = First.fence
  OBVIOUS
<1>4. /\ s.busy = "none" /\ f \in Fences /\ f \in s.clear
      /\ {First.cb, f} \subseteq DOMAIN s.len
      /\ \A c \in s.rec : FitsIn(c, s)
      /\ u = St(s.len, s.own, s.cached, s.rec, s.clear \ {f}, f)
  BY <1>1, <1>2, <1>3, Mirrored DEF Does
<1>5. /\ u.len = s.len /\ u.own = s.own /\ u.cached = s.cached /\ u.clear = s.clear \ {f} /\ u.busy = f
      /\ u.rec = s.rec
  BY <1>4 DEF St
<1>6. Mirrors(s, heap, own, cached, recorded, queue) /\ AreSequences(heap, recorded, queue)
  BY <1>2, Mirrored
<1>7. queue = <<>> /\ f \in DOMAIN heap /\ heap[f] = <<>>
  BY <1>4, <1>6 DEF Mirrors
<1>8. PICK new : new = [i \in 1..Len(recorded) |->
         [c |-> recorded[i], held |-> recorded[i].pool \cup {First.cb, First.fence}, fence |-> First.fence]]
  OBVIOUS
<1>9. IsSeq(new) /\ Len(new) = Len(recorded) /\ Len(recorded) \in Nat
  <2>1. Len(recorded) \in Nat
    BY <1>6 DEF AreSequences, IsSeq
  <2>2. PICK X : X = {new[i] : i \in 1..Len(recorded)}
    OBVIOUS
  <2>3. new \in [1..Len(recorded) -> X]
    BY <1>8, <2>2
  <2>4. new \in Seq(X) /\ Len(new) = Len(recorded)
    BY <2>1, <2>3
  <2>5. QED BY <2>1, <2>4 DEF IsSeq
<1>10. queue' = new
  <2>1. queue' = queue \o new
    BY <1>8 DEF SubmitCommands
  <2>2. IsSeq(<<>>)
    BY <1>6, <1>7 DEF AreSequences
  <2>3. QED BY <1>7, <1>9, <2>1, <2>2, OneBehindOther
<1>11. ASSUME NEW i \in 1..Len(queue')
       PROVE  /\ queue'[i].fence = u.busy /\ FitsIn(queue'[i].c, u) /\ queue'[i].held \subseteq DOMAIN u.len
  <2>1. i \in 1..Len(recorded)
    BY <1>9, <1>10
  <2>2. PICK c : c = recorded[i]
    OBVIOUS
  <2>3. c \in s.rec
    BY <1>6, <2>1, <2>2 DEF Mirrors
  <2>4. FitsIn(c, s)
    BY <1>4, <2>3
  <2>5. queue'[i] = [c |-> c, held |-> c.pool \cup {First.cb, f}, fence |-> f]
    BY <1>3, <1>8, <1>10, <2>1, <2>2
  <2>6. queue'[i].c = c /\ queue'[i].held = c.pool \cup {First.cb, f} /\ queue'[i].fence = f
    BY <2>5
  <2>7. FitsIn(c, u)
    BY <1>5, <2>4 DEF FitsIn
  <2>8. c.pool \cup {First.cb, f} \subseteq DOMAIN u.len
    BY <1>4, <1>5, <2>4 DEF FitsIn
  <2>9. QED BY <1>5, <2>6, <2>7, <2>8
<1>12. Mirrors(u, heap, own, cached, recorded, queue')
  <2>1. u.busy # "none"
    BY <1>4, <1>5 DEF Fences
  <2>2. u.busy \notin u.clear /\ u.clear \subseteq s.clear
    BY <1>5
  <2>3. /\ DOMAIN u.len = DOMAIN heap
        /\ \A o \in DOMAIN heap : u.len[o] = IF o \in Fences THEN 0 ELSE Len(heap[o])
        /\ u.own = own /\ u.cached = cached
        /\ \A i \in 1..Len(recorded) : recorded[i] \in u.rec
        /\ u.clear \subseteq Fences \cap DOMAIN heap /\ (\A g \in u.clear : heap[g] = <<>>)
    BY <1>5, <1>6, <2>2 DEF Mirrors
  <2>4. u.busy \in Fences \cap DOMAIN heap /\ heap[u.busy] = <<>>
    BY <1>4, <1>5, <1>7
  <2>5. QED BY <1>11, <2>1, <2>2, <2>3, <2>4, Zenon DEF Mirrors
<1>13. AreSequences(heap, recorded, queue')
  BY <1>6, <1>9, <1>10 DEF AreSequences
<1>14. QED BY <1>1, <1>2, <1>12, <1>13, GoesOn DEF SubmitCommands

\* A fence is waited for.
LEMMA WaitKeeps == VkInv /\ WaitForFence => VkInv'
<1> SUFFICES ASSUME VkInv, WaitForFence PROVE VkInv'
  OBVIOUS
<1>1. result = "running" /\ \E C, s, u, t : Stands(C, s, u, t)
  BY RunningStands DEF WaitForFence
<1>2. PICK C, s, u, t : Stands(C, s, u, t)
  BY <1>1
<1>3. Mirrors(s, heap, own, cached, recorded, queue) /\ AreSequences(heap, recorded, queue)
  BY <1>2, Mirrored
<1>4. queue = <<>>
  <2>1. CASE Running("wait") /\ heap[First.fence] = Signalled
    <3>1. First.op = "wait"
      BY <2>1 DEF Running
    <3>2. First.fence = s.busy
      BY <1>2, <3>1, Mirrored DEF Does
    <3>3. Signalled # <<>>
      BY DEF Signalled
    <3>4. QED BY <1>3, <2>1, <3>2, <3>3 DEF Mirrors
  <2>2. CASE Running("idle") /\ queue = <<>>
    BY <2>2
  <2>3. QED BY <2>1, <2>2 DEF WaitForFence
<1>5. First.op = "wait" \/ First.op = "idle"
  BY DEF WaitForFence, Running
<1>6. u = s \/ u = St(s.len, s.own, s.cached, s.rec, s.clear, "none")
  BY <1>2, <1>5, Mirrored DEF Does
<1>7. /\ u.len = s.len /\ u.own = s.own /\ u.cached = s.cached /\ u.clear = s.clear
      /\ u.rec = s.rec /\ u.busy \in {s.busy, "none"}
  BY <1>6 DEF St
<1>8. Mirrors(u, heap, own, cached, recorded, queue)
  <2>1. "none" \notin Fences
    BY DEF Fences
  <2>2. u.busy \notin u.clear
    BY <1>3, <1>7, <2>1 DEF Mirrors
  <2>3. \A i \in 1..Len(queue) : FALSE
    BY <1>4
  <2>4. /\ DOMAIN u.len = DOMAIN heap
        /\ \A o \in DOMAIN heap : u.len[o] = IF o \in Fences THEN 0 ELSE Len(heap[o])
        /\ u.own = own /\ u.cached = cached
        /\ \A i \in 1..Len(recorded) : recorded[i] \in u.rec
        /\ u.clear \subseteq Fences \cap DOMAIN heap /\ (\A g \in u.clear : heap[g] = <<>>)
    BY <1>3, <1>7 DEF Mirrors
  <2>5. QED BY <1>4, <2>2, <2>3, <2>4, Zenon DEF Mirrors
<1>9. QED BY <1>1, <1>2, <1>3, <1>8, GoesOn DEF WaitForFence

\* A fence is reset.
LEMMA ResetKeeps == VkInv /\ ResetFence => VkInv'
<1> SUFFICES ASSUME VkInv, ResetFence PROVE VkInv'
  OBVIOUS
<1>1. result = "running" /\ First.op = "reset"
  BY RunningStands DEF ResetFence
<1>2. PICK C, s, u, t : Stands(C, s, u, t)
  BY RunningStands DEF ResetFence
<1>3. PICK f : f = First.fence
  OBVIOUS
<1>4. /\ s.busy = "none" /\ f \in Fences \cap DOMAIN s.len
      /\ u = St(s.len, s.own, s.cached, s.rec, s.clear \cup {f}, s.busy)
  BY <1>1, <1>2, <1>3, Mirrored DEF Does
<1>5. /\ u.len = s.len /\ u.own = s.own /\ u.cached = s.cached /\ u.clear = s.clear \cup {f}
      /\ u.rec = s.rec /\ u.busy = "none"
  BY <1>4 DEF St
<1>6. Mirrors(s, heap, own, cached, recorded, queue) /\ AreSequences(heap, recorded, queue)
  BY <1>2, Mirrored
<1>7. /\ DOMAIN heap' = DOMAIN heap
      /\ \A o \in DOMAIN heap : o # f => heap'[o] = heap[o]
      /\ f \in DOMAIN heap /\ heap'[f] = <<>>
  <2>1. DOMAIN s.len = DOMAIN heap
    BY <1>6 DEF Mirrors
  <2>2. heap' = [heap EXCEPT ![f] = <<>>]
    BY <1>3 DEF ResetFence
  <2>3. QED BY <1>4, <2>1, <2>2
<1>8. queue = <<>> /\ "none" \notin Fences /\ \A i \in 1..Len(<<>>) : FALSE
  <2>1. Len(<<>>) = 0
    OBVIOUS
  <2>2. queue = <<>>
    BY <1>4, <1>6 DEF Mirrors
  <2>3. QED BY <2>1, <2>2 DEF Fences
<1>9. IsSeq(<<>>)
  BY <1>6, <1>8 DEF AreSequences
<1>10. AreSequences(heap', recorded, queue)
  BY <1>6, <1>7, <1>9 DEF AreSequences
<1>11. Mirrors(u, heap', own, cached, recorded, queue)
  <2>1. /\ DOMAIN u.len = DOMAIN heap'
        /\ \A o \in DOMAIN heap' : u.len[o] = IF o \in Fences THEN 0 ELSE Len(heap'[o])
    BY <1>4, <1>5, <1>6, <1>7 DEF Mirrors
  <2>2. /\ u.own = own /\ u.cached = cached
        /\ \A i \in 1..Len(recorded) : recorded[i] \in u.rec
    BY <1>5, <1>6 DEF Mirrors
  <2>3. u.clear \subseteq Fences \cap DOMAIN heap' /\ (\A g \in u.clear : heap'[g] = <<>>)
    BY <1>4, <1>5, <1>6, <1>7 DEF Mirrors
  <2>4. u.busy \notin u.clear
    BY <1>5, <1>8, <2>3
  <2>5. QED BY <1>5, <1>8, <2>1, <2>2, <2>3, <2>4, Zenon DEF Mirrors
<1>12. QED BY <1>1, <1>2, <1>10, <1>11, GoesOn DEF ResetFence

\* A buffer is read.
LEMMA ReadFloatsKeeps == VkInv /\ ReadFloats => VkInv'
<1> SUFFICES ASSUME VkInv, ReadFloats PROVE VkInv'
  OBVIOUS
<1>1. result = "running" /\ First.op = "read"
  BY RunningStands DEF ReadFloats
<1>2. PICK C, s, u, t : Stands(C, s, u, t)
  BY RunningStands DEF ReadFloats
<1>3. u = s
  BY <1>1, <1>2, Mirrored DEF Does
<1>4. QED BY <1>1, <1>2, <1>3, Mirrored, GoesOn DEF ReadFloats

\* Objects are freed: the device is idle.
LEMMA FreeKeeps == VkInv /\ FreeObjects => VkInv'
<1> SUFFICES ASSUME VkInv, FreeObjects PROVE VkInv'
  OBVIOUS
<1>1. result = "running" /\ First.op = "free"
  BY RunningStands DEF FreeObjects
<1>2. PICK C, s, u, t : Stands(C, s, u, t)
  BY RunningStands DEF FreeObjects
<1>3. PICK os : os = First.os
  OBVIOUS
<1>4. s.busy = "none" /\ u = FreedIn(s, os)
  BY <1>1, <1>2, <1>3, Mirrored DEF Does
<1>5. Mirrors(s, heap, own, cached, recorded, queue) /\ AreSequences(heap, recorded, queue)
  BY <1>2, Mirrored
<1>6. PICK D : D = DOMAIN heap \ os
  OBVIOUS
<1>7. DOMAIN s.len = DOMAIN heap /\ s.own = own /\ s.cached = cached /\ queue = <<>>
      /\ s.clear \subseteq DOMAIN heap
  BY <1>4, <1>5 DEF Mirrors
<1>8. s.clear \ os = s.clear \cap D /\ D \subseteq DOMAIN heap
  BY <1>6, <1>7
<1>9. u = St([o \in D |-> s.len[o]], own', cached', s.rec, s.clear \cap D, "none")
  BY <1>3, <1>4, <1>6, <1>7, <1>8 DEF FreedIn, FreeObjects
<1>10. heap' = [o \in D |-> heap[o]]
  BY <1>3, <1>6 DEF FreeObjects, Without
<1>11. Mirrors(u, heap', own', cached', recorded, queue) /\ AreSequences(heap', recorded, queue)
  BY <1>5, <1>7, <1>8, <1>9, <1>10, MirrorsKept
<1>12. QED BY <1>1, <1>2, <1>11, GoesOn DEF FreeObjects

\* A call returns.
LEMMA FinishKeeps == VkInv /\ Finish => VkInv'
<1> SUFFICES ASSUME VkInv, Finish PROVE VkInv'
  OBVIOUS
<1>1. result = "running" /\ todo = <<>> /\ result' = "ok"
  BY DEF Finish
<1>2. PICK C, s, t : MirrorsNow(s) /\ Leads(C, s, todo, t) /\ Has({}, {}, t) /\ Goal(hostCall, C, t)
  BY <1>1 DEF VkInv
<1>3. s = t /\ s.cached \in C
  BY <1>1, <1>2, LeadsOff
<1>4. s.own = own /\ s.cached = cached
  BY <1>2 DEF MirrorsNow, Mirrors
<1>5. Rested'
  <2>1. result = "ok" /\ hostCall.fn = "drop" => own \subseteq {"params"} \cup Tensors
    BY <1>2, <1>3, <1>4 DEF Goal
  <2>2. hostCall.fn = "drop" => own \subseteq {"params"} \cup Tensors
    BY <1>2, <1>3, <1>4 DEF Goal
  <2>3. ASSUME AlwaysCached, hostCall.fn # "drop" PROVE cached = <<MaxNe0, MaxRows>>
    BY <1>2, <1>3, <1>4, <2>3 DEF Goal
  <2>4. own' = own /\ cached' = cached /\ hostCall' = hostCall
    BY DEF Finish
  <2>5. QED BY <2>2, <2>3, <2>4 DEF Rested
<1>6. MirrorsNow(s)' /\ Has({}, {}, s)
  BY <1>2, <1>3 DEF MirrorsNow, Finish
<1>7. AreSequences(heap', recorded', queue') /\ calls' \in Nat
  BY DEF Finish, VkInv
<1>8. QED BY <1>1, <1>5, <1>6, <1>7 DEF VkInv

\* A call that is given up leaves what the fields hold.
LEMMA AbandonKeeps ==
  ASSUME VkInv, result = "running", todo # <<>>, NEW gone \in SUBSET {"staging"},
         Abandon(gone), queue' = <<>>
  PROVE  VkInv'
<1>1. PICK C, s, u, t : Stands(C, s, u, t)
  BY Standing
<1>2. Mirrors(s, heap, own, cached, recorded, queue) /\ AreSequences(heap, recorded, queue) /\ Sound(s)
  BY <1>1, Mirrored
<1>3. PICK D : D = own'
  OBVIOUS
<1>4. s.own = own /\ s.cached = cached /\ DOMAIN s.len = DOMAIN heap /\ own \subseteq DOMAIN heap
  BY <1>2 DEF Mirrors, Sound
<1>5. D \subseteq own /\ D \subseteq DOMAIN heap /\ heap' = [o \in D |-> heap[o]]
  BY <1>3, <1>4 DEF Abandon
<1>6. PICK v : v = St([o \in D |-> s.len[o]], own', cached', s.rec, s.clear \cap D, "none")
  OBVIOUS
<1>7. v.len = [o \in D |-> s.len[o]] /\ v.own = D /\ v.cached = cached' /\ v.busy = "none"
  BY <1>3, <1>6 DEF St
<1>8. /\ Mirrors(v, heap', own', cached', recorded, queue')
      /\ AreSequences(heap', recorded, queue')
  BY <1>2, <1>5, <1>6, MirrorsKept
<1>9. Sound(v)
  <2>1. v.len \in [DOMAIN v.len -> Nat] /\ v.own \subseteq DOMAIN v.len
    BY <1>2, <1>4, <1>5, <1>7 DEF Sound
  <2>2. \A o \in Tensors \cap v.own : Shape[o].rows <= v.len[o]
    BY <1>2, <1>4, <1>5, <1>7 DEF Sound
  <2>3. v.cached # <<>> =>
          /\ CacheObjects \cup {"device"} \subseteq v.own
          /\ v.cached[2] \in Nat /\ Fills(v.cached[2]) /\ v.cached[2] <= v.len["mv_y"]
    <3>1. SUFFICES ASSUME v.cached # <<>>
                   PROVE  /\ CacheObjects \cup {"device"} \subseteq v.own
                          /\ v.cached[2] \in Nat /\ Fills(v.cached[2]) /\ v.cached[2] <= v.len["mv_y"]
      OBVIOUS
    <3>2. v.cached = s.cached /\ v.own = own \ gone
      BY <1>3, <1>4, <1>7, <3>1 DEF Abandon
    <3>3. /\ CacheObjects \cup {"device"} \subseteq own
          /\ s.cached[2] \in Nat /\ Fills(s.cached[2]) /\ s.cached[2] <= s.len["mv_y"]
      BY <1>2, <1>4, <3>1, <3>2 DEF Sound
    <3>4. "staging" \notin CacheObjects \cup {"device"} /\ "mv_y" \in CacheObjects
      BY DEF CacheObjects
    <3>5. CacheObjects \cup {"device"} \subseteq v.own
      BY <3>2, <3>3, <3>4
    <3>6. v.len["mv_y"] = s.len["mv_y"]
      BY <1>7, <3>4, <3>5
    <3>7. QED BY <3>2, <3>3, <3>5, <3>6
  <2>4. QED BY <2>1, <2>2, <2>3 DEF Sound
<1>10. Has({}, {}, v)
  BY <1>7, <1>9 DEF Has
<1>11. Rested'
  <2>1. result' = "err" /\ hostCall' = hostCall
    BY DEF Abandon
  <2>2. ASSUME AlwaysCached, "device" \in own', hostCall.fn # "drop"
        PROVE  cached' = <<MaxNe0, MaxRows>>
    <3>1. hostCall.fn \notin {"open", "enable_gpu"} /\ cached' = cached
      BY <2>2 DEF Abandon
    <3>2. Goal(hostCall, C, t) /\ s.cached \in C
      BY <1>1 DEF Stands
    <3>3. C \subseteq {<<MaxNe0, MaxRows>>}
      BY <2>2, <3>1, <3>2 DEF Goal
    <3>4. QED BY <1>4, <3>1, <3>2, <3>3
  <2>3. QED BY <2>1, <2>2 DEF Rested
<1>12. MirrorsNow(v)' /\ calls' \in Nat /\ result' # "running" /\ AreSequences(heap', recorded', queue')
  BY <1>8 DEF MirrorsNow, Abandon, VkInv
<1>13. QED BY <1>10, <1>11, <1>12 DEF VkInv

\* Before a driver call other than a wait the device is idle.
LEMMA IdleBut ==
  ASSUME VkInv, result = "running", todo # <<>>, First.op # "wait"
  PROVE  queue = <<>>
<1>1. PICK C, s, u, t : Stands(C, s, u, t)
  BY Standing
<1>2. Mirrors(s, heap, own, cached, recorded, queue) /\ Does(s, First, u)
  BY <1>1, Mirrored
<1>3. s.busy = "none"
  BY <1>2 DEF Does
<1>4. QED BY <1>2, <1>3 DEF Mirrors

\* The arguments are refused, or the device was lost.
LEMMA RefusedKeeps == VkInv /\ Refused => VkInv'
<1> SUFFICES ASSUME VkInv, Refused PROVE VkInv'
  OBVIOUS
<1>1. result = "running" /\ todo # <<>> /\ First.op \in {"reject", "submit"}
  BY DEF Refused, Running
<1>2. queue' = <<>> /\ Abandon({})
  BY <1>1, IdleBut DEF Refused
<1>3. QED BY <1>1, <1>2, AbandonKeeps

\* A driver call fails.
LEMMA FailsKeeps == VkInv /\ Fails => VkInv'
<1> SUFFICES ASSUME VkInv, Fails PROVE VkInv'
  OBVIOUS
<1>1. /\ result = "running" /\ todo # <<>>
      /\ First.op \in {"make", "begin", "reset", "submit", "ensure", "staging"}
  BY DEF Fails, Running
<1>2. queue' = <<>>
  BY <1>1, IdleBut DEF Fails
<1>3. PICK gone : gone = IF First.op = "staging" THEN {"staging"} ELSE {}
  OBVIOUS
<1>4. gone \in SUBSET {"staging"} /\ Abandon(gone)
  BY <1>3 DEF Fails
<1>5. QED BY <1>1, <1>2, <1>4, AbandonKeeps

\* The device is lost.
LEMMA LostKeeps == VkInv /\ DeviceLost => VkInv'
<1> SUFFICES ASSUME VkInv, DeviceLost PROVE VkInv'
  OBVIOUS
<1>1. result = "running" /\ todo # <<>> /\ queue' = <<>> /\ Abandon({})
  BY DEF DeviceLost, Running
<1>2. QED BY <1>1, AbandonKeeps

\* One taken out of a sequence.
LEMMA TakenOut ==
  ASSUME NEW q, IsSeq(q), NEW i \in 1..Len(q)
  PROVE  /\ IsSeq(RemoveAt(q, i)) /\ Len(q) \in Nat
         /\ \A k \in 1..Len(RemoveAt(q, i)) : \E j \in 1..Len(q) : RemoveAt(q, i)[k] = q[j]
         /\ Len(q) = 1 => RemoveAt(q, i) = <<>>
<1>1. PICK X : q \in Seq(X)
  BY DEF IsSeq
<1>2. PICK Y : Y = {q[j] : j \in 1..Len(q)}
  OBVIOUS
<1>3. Len(q) \in Nat /\ q \in [1..Len(q) -> Y]
  BY <1>1, <1>2
<1>4. q \in Seq(Y)
  BY <1>3
<1>5. PICK r : r = RemoveAt(q, i)
  OBVIOUS
<1>6. PICK a : a = SubSeq(q, 1, i - 1)
  OBVIOUS
<1>7. PICK b : b = SubSeq(q, i + 1, Len(q))
  OBVIOUS
<1>8. a \in Seq(Y) /\ b \in Seq(Y) /\ Len(a) = i - 1 /\ Len(b) = Len(q) - i
  <2>1. \A j \in 1..(i - 1) : q[j] \in Y
    BY <1>2, <1>3
  <2>2. \A j \in (i + 1)..Len(q) : q[j] \in Y
    BY <1>2, <1>3
  <2>3. a \in Seq(Y) /\ Len(a) = IF 1 <= i - 1 THEN i - 1 - 1 + 1 ELSE 0
    BY <1>3, <1>6, <2>1, SubSeqProperties
  <2>4. b \in Seq(Y) /\ Len(b) = IF i + 1 <= Len(q) THEN Len(q) - (i + 1) + 1 ELSE 0
    BY <1>3, <1>7, <2>2, SubSeqProperties
  <2>5. i \in Nat /\ 1 <= i /\ i <= Len(q)
    BY <1>3
  <2>6. Len(a) = i - 1
    BY <2>3, <2>5
  <2>7. Len(b) = Len(q) - i
    <3>1. PICK n : n = Len(q)
      OBVIOUS
    <3>2. n \in Nat /\ i <= n /\ Len(b) = IF i + 1 <= n THEN n - (i + 1) + 1 ELSE 0
      BY <1>3, <2>4, <2>5, <3>1
    <3>3. Len(b) = n - i
      BY <2>5, <3>2
    <3>4. QED BY <3>1, <3>3
  <2>8. QED BY <2>3, <2>4, <2>6, <2>7
<1>9. r = a \o b
  BY <1>5, <1>6, <1>7 DEF RemoveAt
<1>10. r \in Seq(Y) /\ Len(r) = Len(q) - 1
  <2>1. i \in Nat
    BY <1>3
  <2>2. a \o b \in Seq(Y) /\ Len(a \o b) = Len(a) + Len(b)
    BY <1>8
  <2>3. QED BY <1>3, <1>8, <1>9, <2>1, <2>2
<1>11. \A k \in 1..Len(r) : r[k] \in Y
  BY <1>10
<1>12. Len(q) = 1 => r = <<>>
  BY <1>10
<1>13. QED BY <1>2, <1>3, <1>5, <1>10, <1>11, <1>12 DEF IsSeq

\* The device runs a command.
LEMMA DeviceRunsKeeps == VkInv /\ DeviceRuns => VkInv'
<1> SUFFICES ASSUME VkInv, DeviceRuns PROVE VkInv'
  OBVIOUS
<1>1. PICK i \in DOMAIN queue : /\ heap' = Fenced(Outcome(queue[i].c), queue[i].fence)
                                /\ queue' = RemoveAt(queue, i)
  BY DEF DeviceRuns
<1>2. AreSequences(heap, recorded, queue)
  BY DEF VkInv
<1>3. DOMAIN queue = 1..Len(queue) /\ Len(queue) \in Nat /\ queue # <<>>
  <2>1. PICK X : queue \in Seq(X)
    BY <1>2 DEF AreSequences, IsSeq
  <2>2. DOMAIN queue = 1..Len(queue) /\ Len(queue) \in Nat
    BY <2>1
  <2>3. queue # <<>>
    BY <1>1
  <2>4. QED BY <2>2, <2>3
<1>4. result = "running"
  <2>1. ASSUME result # "running" PROVE FALSE
    <3>1. PICK s : MirrorsNow(s) /\ Has({}, {}, s)
      BY <2>1 DEF VkInv
    <3>2. queue = <<>>
      BY <3>1 DEF MirrorsNow, Mirrors, Has
    <3>3. QED BY <1>3, <3>2
  <2>2. QED BY <2>1
<1>5. PICK C, s, t : MirrorsNow(s) /\ Leads(C, s, todo, t) /\ Has({}, {}, t) /\ Goal(hostCall, C, t)
  BY <1>4 DEF VkInv
<1>6. Mirrors(s, heap, own, cached, recorded, queue)
  BY <1>5 DEF MirrorsNow
<1>7. PICK c : c = queue[i].c
  OBVIOUS
<1>8. PICK f : f = queue[i].fence
  OBVIOUS
<1>9. f = s.busy /\ FitsIn(c, s) /\ f \in Fences \cap DOMAIN heap /\ heap[f] = <<>>
  BY <1>1, <1>3, <1>6, <1>7, <1>8 DEF Mirrors
<1>10. PICK h : h = Outcome(c)
  OBVIOUS
<1>11. DOMAIN h = DOMAIN heap
  BY <1>10 DEF Outcome
<1>12. \A o \in DOMAIN heap \cap Fences : h[o] = heap[o]
  <2>1. TAKE o \in DOMAIN heap \cap Fences
  <2>2. ~ \E out \in c.outs : out[1] = o
    BY <1>9 DEF FitsIn
  <2>3. QED BY <1>10, <2>2 DEF Outcome
<1>13. \A o \in DOMAIN heap : IsSeq(h[o]) /\ Len(h[o]) = Len(heap[o])
  <2>1. TAKE o \in DOMAIN heap
  <2>2. IsSeq(heap[o])
    BY <1>2 DEF AreSequences
  <2>3. CASE \E out \in c.outs : out[1] = o
    <3>1. \E new : h[o] = Over(heap[o], new)
      <4>1. PICK n : n = (CHOOSE out \in c.outs : out[1] = o)[2]
        BY Zenon
      <4>2. h[o] = Over(heap[o], IF c.kernel = "copy" THEN Given(c)[1]
                                 ELSE Kernel(c.kernel, c.arg, Given(c), n))
        BY <1>10, <2>3, <4>1 DEF Outcome
      <4>3. QED BY <4>2, Zenon
    <3>2. QED BY <2>2, <3>1, OverKeeps
  <2>4. CASE ~ \E out \in c.outs : out[1] = o
    <3>1. h[o] = heap[o]
      BY <1>10, <2>4 DEF Outcome
    <3>2. QED BY <2>2, <3>1
  <2>5. QED BY <2>3, <2>4
<1>14. PICK left : left = {j \in DOMAIN queue : queue[j].fence = f}
  OBVIOUS
<1>15. left = 1..Len(queue)
  BY <1>3, <1>6, <1>9, <1>14 DEF Mirrors
<1>16. Cardinality(left) = Len(queue)
  <2>1. Cardinality(1..Len(queue)) = IF 1 > Len(queue) THEN 0 ELSE Len(queue) - 1 + 1
    BY <1>3, FS_Interval
  <2>2. Len(queue) >= 1
    BY <1>1, <1>3
  <2>3. QED BY <1>3, <1>15, <2>1, <2>2
<1>17. heap' = [o \in DOMAIN h |-> IF o = f /\ Cardinality(left) = 1 THEN Signalled ELSE h[o]]
  BY <1>1, <1>7, <1>8, <1>10, <1>14 DEF Fenced
<1>18. /\ DOMAIN heap' = DOMAIN heap
       /\ \A o \in DOMAIN heap : o # f => heap'[o] = h[o]
       /\ Len(queue) # 1 => heap'[f] = <<>>
       /\ IsSeq(heap'[f])
  <2>1. DOMAIN heap' = DOMAIN heap /\ \A o \in DOMAIN heap : o # f => heap'[o] = h[o]
    BY <1>11, <1>17
  <2>2. h[f] = <<>> /\ IsSeq(h[f])
    BY <1>9, <1>12, <1>13
  <2>3. IsSeq(Signalled)
    BY OneIsSeq DEF Signalled
  <2>4. Len(queue) # 1 => heap'[f] = h[f]
    BY <1>9, <1>11, <1>16, <1>17
  <2>5. heap'[f] = Signalled \/ heap'[f] = h[f]
    BY <1>9, <1>11, <1>17
  <2>6. QED BY <2>1, <2>2, <2>3, <2>4, <2>5
<1>19. /\ IsSeq(queue')
       /\ \A k \in 1..Len(queue') : \E j \in 1..Len(queue) : queue'[k] = queue[j]
       /\ Len(queue) = 1 => queue' = <<>>
  <2>1. IsSeq(queue) /\ i \in 1..Len(queue)
    BY <1>1, <1>2, <1>3 DEF AreSequences
  <2>2. PICK r : r = RemoveAt(queue, i)
    OBVIOUS
  <2>3. /\ IsSeq(r) /\ (\A k \in 1..Len(r) : \E j \in 1..Len(queue) : r[k] = queue[j])
        /\ Len(queue) = 1 => r = <<>>
    BY <2>1, <2>2, TakenOut
  <2>4. queue' = r
    BY <1>1, <2>2
  <2>5. QED BY <2>3, <2>4
<1>20. AreSequences(heap', recorded', queue')
  <2>1. \A o \in DOMAIN heap' : IsSeq(heap'[o])
    BY <1>13, <1>18
  <2>2. recorded' = recorded
    BY DEF DeviceRuns
  <2>3. QED BY <1>2, <1>19, <2>1, <2>2 DEF AreSequences
<1>21. Mirrors(s, heap', own, cached, recorded, queue')
  <2>1. /\ DOMAIN s.len = DOMAIN heap'
        /\ \A o \in DOMAIN heap' : s.len[o] = IF o \in Fences THEN 0 ELSE Len(heap'[o])
    BY <1>6, <1>9, <1>13, <1>18 DEF Mirrors
  <2>2. s.own = own /\ s.cached = cached /\ \A k \in 1..Len(recorded) : recorded[k] \in s.rec
    BY <1>6 DEF Mirrors
  <2>3. /\ s.clear \subseteq Fences \cap DOMAIN heap' /\ (\A g \in s.clear : heap'[g] = <<>>)
        /\ s.busy \notin s.clear
    <3>1. /\ s.clear \subseteq Fences \cap DOMAIN heap /\ (\A g \in s.clear : heap[g] = <<>>)
          /\ s.busy \notin s.clear
      BY <1>6 DEF Mirrors
    <3>2. QED BY <1>9, <1>12, <1>18, <3>1
  <2>4. s.busy # "none"
    BY <1>9 DEF Fences
  <2>5. queue' # <<>> => s.busy \in Fences \cap DOMAIN heap' /\ heap'[s.busy] = <<>>
    BY <1>9, <1>18, <1>19
  <2>6. ASSUME NEW k \in 1..Len(queue')
        PROVE  queue'[k].fence = s.busy /\ FitsIn(queue'[k].c, s) /\ queue'[k].held \subseteq DOMAIN s.len
    <3>1. PICK j \in 1..Len(queue) : queue'[k] = queue[j]
      BY <1>19
    <3>2. queue[j].fence = s.busy /\ FitsIn(queue[j].c, s) /\ queue[j].held \subseteq DOMAIN s.len
      BY <1>6 DEF Mirrors
    <3>3. QED BY <3>1, <3>2
  <2>7. QED BY <2>1, <2>2, <2>3, <2>4, <2>5, <2>6, Zenon DEF Mirrors
<1>22. MirrorsNow(s)' /\ Leads(C, s, todo', t) /\ Goal(hostCall', C, t) /\ result' = "running" /\ calls' \in Nat
  BY <1>4, <1>5, <1>21 DEF MirrorsNow, DeviceRuns, VkInv
<1>23. QED BY <1>5, <1>20, <1>22 DEF VkInv

\* The names of what the functions make for themselves.
Names ==
  DeviceObjects
  \cup {"module", "params", "cb", "pool", "pool_p", "pool_r", "p1", "p2", "p3",
        "x", "y", "w", "o", "a", "b", "in", "s", "q", "k", "v", "dummy", "partials",
        "pq2_partial", "pq2_rowsum", "pq2_partial_n", "pq2_rowsum_n", "rms_norm", "elem", "norm_rows",
        "softmax_row", "rope_imrope", "gdn_step", "attn_scores", "softmax_inplace", "attn_out"}

\* The names the functions use are plain.
LEMMA AllPlain == \A o \in Names : Plain(o) /\ o \notin Fences
<1>1. Names \subseteq HostObjects \ (CacheObjects \cup Fences \cup {"staging"})
  BY DEF Names, HostObjects, DeviceObjects, CacheObjects, Fences
<1>2. QED BY <1>1, PlainNames

\* A name is among what is known, and has room for n.
Named(o, L) == \E k \in L : k[1] = o
Room(o, n, L) ==
  o \notin Fences /\ \E k \in L : k[1] = o /\ {n, k[2]} \subseteq Nat /\ n <= k[2]

\* A pair names its object.
LEMMA NamedIs ==
  ASSUME NEW o, NEW n, NEW L, <<o, n>> \in L
  PROVE  Named(o, L)
<1>1. PICK k : k = <<o, n>>
  OBVIOUS
<1>2. k \in L /\ k[1] = o
  BY <1>1
<1>3. QED BY <1>2 DEF Named

\* A buffer of m floats has room for n.
LEMMA RoomIs ==
  ASSUME NEW o, NEW n \in Nat, NEW m \in Nat, NEW L, <<o, m>> \in L, n <= m, o \notin Fences
  PROVE  Room(o, n, L)
<1>1. PICK k : k = <<o, m>>
  OBVIOUS
<1>2. k \in L /\ k[1] = o /\ k[2] = m
  BY <1>1
<1>3. QED BY <1>2 DEF Room

\* A dispatch that reads one or two buffers and writes one.
LEMMA FitsOne ==
  ASSUME NEW c, NEW kern, NEW arg, NEW pool, NEW i, NEW n, NEW o, NEW m, NEW L,
         c = Dispatch(kern, arg, pool, <<<<i, n>>>>, {<<o, m>>}),
         Named(pool, L), Named(i, L), Room(o, m, L)
  PROVE  FitsK(c, L)
<1>1. c.pool = {pool} /\ c.ins = <<<<i, n>>>> /\ c.outs = {<<o, m>>}
  BY DEF Dispatch
<1>2. \A j \in DOMAIN c.ins : c.ins[j][1] = i
  BY <1>1
<1>3. \A out \in c.outs : out[1] = o /\ out[2] = m
  BY <1>1
<1>4. QED BY <1>1, <1>2, <1>3 DEF FitsK, Named, Room

\* The same with two buffers read.
LEMMA FitsTwo ==
  ASSUME NEW c, NEW kern, NEW arg, NEW pool, NEW i, NEW n, NEW j, NEW l, NEW o, NEW m, NEW L,
         c = Dispatch(kern, arg, pool, <<<<i, n>>, <<j, l>>>>, {<<o, m>>}),
         Named(pool, L), Named(i, L), Named(j, L), Room(o, m, L)
  PROVE  FitsK(c, L)
<1>1. c.pool = {pool} /\ c.ins = <<<<i, n>>, <<j, l>>>> /\ c.outs = {<<o, m>>}
  BY DEF Dispatch
<1>2. \A k \in DOMAIN c.ins : c.ins[k][1] \in {i, j}
  BY <1>1
<1>3. \A out \in c.outs : out[1] = o /\ out[2] = m
  BY <1>1
<1>4. QED BY <1>1, <1>2, <1>3 DEF FitsK, Named, Room

\* One that writes two.
LEMMA FitsBoth ==
  ASSUME NEW c, NEW kern, NEW arg, NEW pool, NEW i, NEW n, NEW j, NEW l,
         NEW o, NEW m, NEW p, NEW q, NEW L,
         c = Dispatch(kern, arg, pool, <<<<i, n>>, <<j, l>>>>, {<<o, m>>, <<p, q>>}),
         Named(pool, L), Named(i, L), Named(j, L), Room(o, m, L), Room(p, q, L)
  PROVE  FitsK(c, L)
<1>1. c.pool = {pool} /\ c.ins = <<<<i, n>>, <<j, l>>>> /\ c.outs = {<<o, m>>, <<p, q>>}
  BY DEF Dispatch
<1>2. \A k \in DOMAIN c.ins : c.ins[k][1] \in {i, j}
  <2>1. PICK ins : ins = <<<<i, n>>, <<j, l>>>>
    OBVIOUS
  <2>2. \A k \in DOMAIN ins : ins[k][1] \in {i, j}
    BY <2>1
  <2>3. QED BY <1>1, <2>1, <2>2
<1>3. \A out \in c.outs : Room(out[1], out[2], L)
  <2>1. TAKE out \in c.outs
  <2>2. CASE out = <<o, m>>
    <3>1. out[1] = o /\ out[2] = m
      BY <2>2
    <3>2. QED BY <3>1
  <2>3. CASE out = <<p, q>>
    <3>1. out[1] = p /\ out[2] = q
      BY <2>3
    <3>2. QED BY <3>1
  <2>4. QED BY <1>1, <2>2, <2>3
<1>4. QED BY <1>1, <1>2, <1>3 DEF FitsK, Named, Room

\* A barrier fits everywhere.
LEMMA FitsBarrier == ASSUME NEW c, NEW L, c = Barrier PROVE FitsK(c, L)
<1>1. c.pool = {} /\ c.ins = <<>> /\ c.outs = {}
  BY DEF Barrier
<1>2. DOMAIN c.ins = {}
  BY <1>1
<1>3. QED BY <1>1, <1>2 DEF FitsK

\* A call that only refuses its arguments.
LEMMA LivesReject ==
  ASSUME NEW K, NEW F, NEW L, NEW G, L \subseteq K, F \subseteq G
  PROVE  Lives(K, F, Reject, L, G)
<1>1. Lives(K, F, <<>> \o Reject, L, G)
  BY LivesNone, ThenReject
<1>2. IsSeq(Reject)
  BY OneIsSeq DEF Reject
<1>3. QED BY <1>1, <1>2, Lone

\* A tensor's buffer has all its rows.
LEMMA ThenTensor ==
  ASSUME NEW K, NEW F, NEW p, NEW L, NEW G, Lives(K, F, p, L, G),
         NEW o \in Tensors, Fresh(o, L)
  PROVE  Lives(K, F, p \o Buffer(o, Shape[o].rows), L \cup {<<o, Shape[o].rows>>}, G \cup {o})
<1>1. PICK n : n = Shape[o].rows
  OBVIOUS
<1>2. n \in Nat
  BY <1>1, VulkanHostAssumption
<1>3. o \notin CacheObjects /\ o \notin Fences
  BY TensorsAreNamedApart DEF HostObjects, CacheObjects, Fences
<1>4. ASSUME NEW s, Has(L, G, s)
      PROVE  \E u : /\ Does(s, [op |-> "make", o |-> o, len |-> n], u)
                    /\ Has(L \cup {<<o, n>>}, G \cup {o}, u) /\ u.cached = s.cached
  <2>1. PICK u : u = MadeIn(s, o, n)
    OBVIOUS
  <2>2. /\ u.len = [q \in DOMAIN s.len \cup {o} |-> IF q = o THEN n ELSE s.len[q]]
        /\ u.own = s.own /\ u.cached = s.cached /\ u.busy = s.busy
    BY <2>1 DEF MadeIn, St
  <2>3. Sound(s) /\ s.busy = "none"
    BY <1>4 DEF Has
  <2>4. /\ DOMAIN u.len = DOMAIN s.len \cup {o}
        /\ \A q \in DOMAIN s.len : q # o => u.len[q] = s.len[q]
        /\ u.len[o] = n
    BY <2>2
  <2>5. Sound(u)
    <3>1. u.len \in [DOMAIN u.len -> Nat] /\ u.own \subseteq DOMAIN u.len
      BY <1>2, <2>2, <2>3, <2>4 DEF Sound
    <3>2. \A t \in Tensors \cap u.own : Shape[t].rows <= u.len[t]
      <4>1. TAKE t \in Tensors \cap u.own
      <4>2. CASE t = o
        BY <1>1, <1>2, <2>4, <4>2
      <4>3. CASE t # o
        BY <2>2, <2>3, <2>4, <4>3 DEF Sound
      <4>4. QED BY <4>2, <4>3
    <3>3. u.cached # <<>> =>
            /\ CacheObjects \cup {"device"} \subseteq u.own
            /\ u.cached[2] \in Nat /\ Fills(u.cached[2]) /\ u.cached[2] <= u.len["mv_y"]
      <4>1. "mv_y" # o /\ "mv_y" \in CacheObjects
        BY <1>3 DEF CacheObjects
      <4>2. QED BY <2>2, <2>3, <2>4, <4>1 DEF Sound
    <3>4. QED BY <3>1, <3>2, <3>3 DEF Sound
  <2>6. Does(s, [op |-> "make", o |-> o, len |-> n], u)
    <3>1. PICK op : op = [op |-> "make", o |-> o, len |-> n]
      OBVIOUS
    <3>2. op.op = "make" /\ op.o = o /\ op.len = n
      BY <3>1
    <3>3. Does(s, op, u)
      BY <1>2, <1>3, <2>1, <2>3, <3>2 DEF Does
    <3>4. QED BY <3>1, <3>3
  <2>7. ASSUME NEW k \in L \cup {<<o, n>>}
        PROVE  k[1] \in DOMAIN u.len /\ k[2] <= u.len[k[1]]
    <3>1. CASE k = <<o, n>>
      BY <1>2, <2>4, <3>1
    <3>2. CASE k \in L
      <4>1. k[1] # o /\ k[1] \in DOMAIN s.len /\ k[2] <= s.len[k[1]]
        BY <1>4, <3>2 DEF Has, Fresh
      <4>2. QED BY <2>4, <4>1
    <3>3. QED BY <3>1, <3>2
  <2>8. DOMAIN u.len \subseteq u.own \cup (G \cup {o})
    BY <1>4, <2>2, <2>4 DEF Has
  <2>9. QED BY <2>2, <2>3, <2>5, <2>6, <2>7, <2>8 DEF Has
<1>5. Can(L, G, [op |-> "make", o |-> o, len |-> n], L \cup {<<o, n>>}, G \cup {o})
  BY <1>4 DEF Can
<1>6. QED BY <1>1, <1>5, ThenOne DEF Buffer

\* Sizes: lanes of whole workgroups, partial sums, whole rows.
LEMMA CeilNat ==
  ASSUME NEW n \in Nat, NEW d \in Nat, d > 0
  PROVE  CeilDivide(n, d) \in Nat
<1>1. n + d - 1 \in Nat
  OBVIOUS
<1>2. QED BY <1>1 DEF CeilDivide

\* The number of lanes launched for n is a number.
LEMMA LanesNat == ASSUME NEW n \in Nat PROVE Groups(n) * Local \in Nat
<1>1. Local \in Nat /\ Local > 0
  BY VulkanHostAssumption
<1>2. CeilDivide(n, Local) \in Nat
  BY <1>1, CeilNat
<1>3. Groups(n) \in Nat
  BY <1>2 DEF Groups, AtLeastOne
<1>4. QED BY <1>1, <1>3

\* So is the number of partial sums.
LEMMA PartialsNat ==
  ASSUME NEW ne0 \in Nat, NEW rows \in Nat
  PROVE  Partials(ne0, rows) \in Nat
<1>1. Block \in Nat /\ Block > 0
  BY VulkanHostAssumption
<1>2. Blocks(ne0) \in Nat
  BY <1>1, CeilNat DEF Blocks
<1>3. rows * Blocks(ne0) \in Nat
  BY <1>2
<1>4. QED BY <1>3 DEF Partials, AtLeastOne

\* The rows that are whole are no more than there is.
LEMMA WholeRows ==
  ASSUME NEW n \in Nat, NEW r \in Nat, r > 0
  PROVE  (n \div r) * r \in Nat /\ (n \div r) * r <= n
<1>1. n \div r \in Nat /\ n % r \in Nat
  OBVIOUS
<1>2. n = r * (n \div r) + (n % r)
  OBVIOUS
<1>3. PICK q \in Nat : q = n \div r
  BY <1>1
<1>4. q * r \in Nat /\ q * r = r * q
  BY <1>3
<1>5. QED BY <1>1, <1>2, <1>3, <1>4

\* A product grows with its factor.
LEMMA TimesGrows ==
  ASSUME NEW a \in Nat, NEW b \in Nat, NEW c \in Nat, a <= b
  PROVE  a * c \in Nat /\ b * c \in Nat /\ a * c <= b * c
OBVIOUS

\* rms_norm of a row.
LEMMA RmsNormSome ==
  ASSUME NEW n \in Nat, n # 0
  PROVE  Lives({}, {}, RmsNorm(n), {}, {})
<1>1. n \in Nat /\ 0 \in Nat /\ n <= n
  OBVIOUS
<1>2. /\ Plain("rms_norm") /\ "rms_norm" \notin Fences
     /\ Plain("x") /\ "x" \notin Fences
     /\ Plain("w") /\ "w" \notin Fences
     /\ Plain("o") /\ "o" \notin Fences
     /\ Plain("pool") /\ "pool" \notin Fences
     /\ Plain("params") /\ "params" \notin Fences
  BY AllPlain DEF Names, DeviceObjects
<1>3. PICK l0 : l0 = {}
  OBVIOUS
<1>4. PICK g0 : g0 = {}
  OBVIOUS
<1>5. Lives({}, {}, <<>>, l0, g0)
  BY <1>3, <1>4, LivesNone
<1>6. PICK p1 : p1 = Pipeline("rms_norm")
  OBVIOUS
<1>7. Lives({}, {}, p1, l0, g0)
  <2>1. Fresh("rms_norm", l0)
    BY <1>3 DEF Fresh
  <2>2. Lives({}, {}, <<>> \o Pipeline("rms_norm"), l0, g0)
    BY <1>5, <1>2, <1>1, <2>1, ThenEnsure DEF Pipeline
  <2>3. IsSeq(Pipeline("rms_norm"))
    BY OneIsSeq DEF Pipeline, Ensure
  <2>4. QED BY <1>6, <2>2, <2>3, Lone
<1>8. PICK p2 : p2 = p1 \o Buffer("x", n)
  OBVIOUS
<1>9. PICK l1 : l1 = {<<"x", n>>}
  OBVIOUS
<1>10. PICK g1 : g1 = {"x"}
  OBVIOUS
<1>11. Lives({}, {}, p2, l1, g1)
  <2>1. Fresh("x", l0)
    BY <1>3 DEF Fresh
  <2>2. l1 = l0 \cup {<<"x", n>>} /\ g1 = g0 \cup {"x"}
    BY <1>3, <1>9, <1>4, <1>10
  <2>3. QED BY <1>7, <1>2, <1>1, <2>1, <2>2, <1>8, ThenMake
<1>12. PICK p3 : p3 = p2 \o Buffer("w", n)
  OBVIOUS
<1>13. PICK l2 : l2 = {<<"x", n>>, <<"w", n>>}
  OBVIOUS
<1>14. PICK g2 : g2 = {"x", "w"}
  OBVIOUS
<1>15. Lives({}, {}, p3, l2, g2)
  <2>1. Fresh("w", l1)
    BY <1>9 DEF Fresh
  <2>2. l2 = l1 \cup {<<"w", n>>} /\ g2 = g1 \cup {"w"}
    BY <1>9, <1>13, <1>10, <1>14
  <2>3. QED BY <1>11, <1>2, <1>1, <2>1, <2>2, <1>12, ThenMake
<1>16. PICK p4 : p4 = p3 \o Buffer("o", n)
  OBVIOUS
<1>17. PICK l3 : l3 = {<<"x", n>>, <<"w", n>>, <<"o", n>>}
  OBVIOUS
<1>18. PICK g3 : g3 = {"x", "w", "o"}
  OBVIOUS
<1>19. Lives({}, {}, p4, l3, g3)
  <2>1. Fresh("o", l2)
    BY <1>13 DEF Fresh
  <2>2. l3 = l2 \cup {<<"o", n>>} /\ g3 = g2 \cup {"o"}
    BY <1>13, <1>17, <1>14, <1>18
  <2>3. QED BY <1>15, <1>2, <1>1, <2>1, <2>2, <1>16, ThenMake
<1>20. PICK p5 : p5 = p4 \o Put("x", Floats("x", n))
  OBVIOUS
<1>21. Lives({}, {}, p5, l3, g3)
  <2>1. QED BY <1>19, <1>2, <1>20, ThenPut
<1>22. PICK p6 : p6 = p5 \o Put("w", Floats("w", n))
  OBVIOUS
<1>23. Lives({}, {}, p6, l3, g3)
  <2>1. QED BY <1>21, <1>2, <1>22, ThenPut
<1>24. PICK p7 : p7 = p6 \o MakeSet("pool")
  OBVIOUS
<1>25. PICK l4 : l4 = {<<"x", n>>, <<"w", n>>, <<"o", n>>, <<"pool", 0>>}
  OBVIOUS
<1>26. PICK g4 : g4 = {"x", "w", "o", "pool"}
  OBVIOUS
<1>27. Lives({}, {}, p7, l4, g4)
  <2>1. Fresh("pool", l3) /\ Fresh("params", l3)
    BY <1>17 DEF Fresh
  <2>2. l4 = l3 \cup {<<"pool", 0>>} /\ g4 = g3 \cup {"pool"}
    BY <1>17, <1>25, <1>18, <1>26
  <2>3. QED BY <1>23, <1>2, <2>1, <2>2, <1>24, ThenSet
<1>28. PICK c : c = Dispatch("rms_norm", n, "pool", <<<<"x", n>>, <<"w", n>>>>, {<<"o", n>>})
  OBVIOUS
<1>29. FitsK(c, l4)
  <2>1. Named("pool", l4)
    <3>1. <<"pool", 0>> \in l4
      BY <1>25
    <3>2. QED BY <3>1, NamedIs
  <2>2. Named("x", l4)
    <3>1. <<"x", n>> \in l4
      BY <1>25
    <3>2. QED BY <3>1, NamedIs
  <2>3. Named("w", l4)
    <3>1. <<"w", n>> \in l4
      BY <1>25
    <3>2. QED BY <3>1, NamedIs
  <2>4. Room("o", n, l4)
    <3>1. <<"o", n>> \in l4
      BY <1>25
    <3>2. QED BY <1>2, <1>1, <3>1, RoomIs
  <2>5. QED BY <1>28, <2>1, <2>2, <2>3, <2>4, FitsTwo
<1>30. PICK p8 : p8 = p7 \o RunRegistered(c)
  OBVIOUS
<1>31. Lives({}, {}, p8, l4, g4)
  <2>1. Fresh("cb", l4) /\ Fresh("fence", l4)
    BY <1>25 DEF Fresh
  <2>2. QED BY <1>27, <1>29, <2>1, <1>30, ThenRun
<1>32. PICK p9 : p9 = p8 \o CopyOut("o", n)
  OBVIOUS
<1>33. Lives({}, {}, p9, l4, g4)
  <2>1. QED BY <1>31, <1>32, ThenRead
<1>34. PICK p10 : p10 = p9 \o Free({"x", "w", "o"})
  OBVIOUS
<1>35. PICK l5 : l5 = {<<"pool", 0>>}
  OBVIOUS
<1>36. PICK g5 : g5 = {"pool"}
  OBVIOUS
<1>37. Lives({}, {}, p10, l5, g5)
  <2>1. /\ l5 \subseteq l4 /\ (\A k \in l5 : k[1] \notin {"x", "w", "o"})
        /\ g4 \subseteq g5 \cup {"x", "w", "o"}
    BY <1>25, <1>35, <1>26, <1>36
  <2>2. {"x", "w", "o"} \cap (CacheObjects \cup {"device"}) = {}
    BY DEF CacheObjects
  <2>3. QED BY <1>33, <2>1, <2>2, <1>34, ThenFree
<1>38. PICK p11 : p11 = p10 \o Free({"pool"})
  OBVIOUS
<1>39. PICK l6 : l6 = {}
  OBVIOUS
<1>40. PICK g6 : g6 = {}
  OBVIOUS
<1>41. Lives({}, {}, p11, l6, g6)
  <2>1. /\ l6 \subseteq l5 /\ (\A k \in l6 : k[1] \notin {"pool"})
        /\ g5 \subseteq g6 \cup {"pool"}
    BY <1>35, <1>39, <1>36, <1>40
  <2>2. {"pool"} \cap (CacheObjects \cup {"device"}) = {}
    BY DEF CacheObjects
  <2>3. QED BY <1>37, <2>1, <2>2, <1>38, ThenFree
<1>42. RmsNorm(n) = p11
  BY <1>6, <1>8, <1>12, <1>16, <1>20, <1>22, <1>24, <1>28, <1>30, <1>32, <1>34, <1>38 DEF RmsNorm
<1>43. QED BY <1>41, <1>42, <1>39, <1>40

\* elem of a row.
LEMMA ElemSome ==
  ASSUME NEW n \in Nat, n # 0, NEW second
  PROVE  Lives({}, {}, Elem(n, second), {}, {})
<1>1. PICK m : m = IF Groups(n) * Local < n THEN Groups(n) * Local ELSE n
  OBVIOUS
<1>2. n \in Nat /\ 0 \in Nat /\ m \in Nat /\ m <= n
  BY <1>1, LanesNat
<1>3. /\ Plain("elem") /\ "elem" \notin Fences
     /\ Plain("a") /\ "a" \notin Fences
     /\ Plain("b") /\ "b" \notin Fences
     /\ Plain("o") /\ "o" \notin Fences
     /\ Plain("pool") /\ "pool" \notin Fences
     /\ Plain("params") /\ "params" \notin Fences
  BY AllPlain DEF Names, DeviceObjects
<1>4. PICK l0 : l0 = {}
  OBVIOUS
<1>5. PICK g0 : g0 = {}
  OBVIOUS
<1>6. Lives({}, {}, <<>>, l0, g0)
  BY <1>4, <1>5, LivesNone
<1>7. PICK p1 : p1 = Pipeline("elem")
  OBVIOUS
<1>8. Lives({}, {}, p1, l0, g0)
  <2>1. Fresh("elem", l0)
    BY <1>4 DEF Fresh
  <2>2. Lives({}, {}, <<>> \o Pipeline("elem"), l0, g0)
    BY <1>6, <1>3, <1>2, <2>1, ThenEnsure DEF Pipeline
  <2>3. IsSeq(Pipeline("elem"))
    BY OneIsSeq DEF Pipeline, Ensure
  <2>4. QED BY <1>7, <2>2, <2>3, Lone
<1>9. PICK p2 : p2 = p1 \o Buffer("a", n)
  OBVIOUS
<1>10. PICK l1 : l1 = {<<"a", n>>}
  OBVIOUS
<1>11. PICK g1 : g1 = {"a"}
  OBVIOUS
<1>12. Lives({}, {}, p2, l1, g1)
  <2>1. Fresh("a", l0)
    BY <1>4 DEF Fresh
  <2>2. l1 = l0 \cup {<<"a", n>>} /\ g1 = g0 \cup {"a"}
    BY <1>4, <1>10, <1>5, <1>11
  <2>3. QED BY <1>8, <1>3, <1>2, <2>1, <2>2, <1>9, ThenMake
<1>13. PICK p3 : p3 = p2 \o Buffer("b", n)
  OBVIOUS
<1>14. PICK l2 : l2 = {<<"a", n>>, <<"b", n>>}
  OBVIOUS
<1>15. PICK g2 : g2 = {"a", "b"}
  OBVIOUS
<1>16. Lives({}, {}, p3, l2, g2)
  <2>1. Fresh("b", l1)
    BY <1>10 DEF Fresh
  <2>2. l2 = l1 \cup {<<"b", n>>} /\ g2 = g1 \cup {"b"}
    BY <1>10, <1>14, <1>11, <1>15
  <2>3. QED BY <1>12, <1>3, <1>2, <2>1, <2>2, <1>13, ThenMake
<1>17. PICK p4 : p4 = p3 \o Buffer("o", n)
  OBVIOUS
<1>18. PICK l3 : l3 = {<<"a", n>>, <<"b", n>>, <<"o", n>>}
  OBVIOUS
<1>19. PICK g3 : g3 = {"a", "b", "o"}
  OBVIOUS
<1>20. Lives({}, {}, p4, l3, g3)
  <2>1. Fresh("o", l2)
    BY <1>14 DEF Fresh
  <2>2. l3 = l2 \cup {<<"o", n>>} /\ g3 = g2 \cup {"o"}
    BY <1>14, <1>18, <1>15, <1>19
  <2>3. QED BY <1>16, <1>3, <1>2, <2>1, <2>2, <1>17, ThenMake
<1>21. PICK p5 : p5 = p4 \o Put("a", Floats("a", n))
  OBVIOUS
<1>22. Lives({}, {}, p5, l3, g3)
  <2>1. QED BY <1>20, <1>3, <1>21, ThenPut
<1>23. PICK p6 : p6 = p5 \o Put("b", IF second THEN Floats("b", n) ELSE Zeros(n))
  OBVIOUS
<1>24. Lives({}, {}, p6, l3, g3)
  <2>1. QED BY <1>22, <1>3, <1>23, ThenPut
<1>25. PICK p7 : p7 = p6 \o MakeSet("pool")
  OBVIOUS
<1>26. PICK l4 : l4 = {<<"a", n>>, <<"b", n>>, <<"o", n>>, <<"pool", 0>>}
  OBVIOUS
<1>27. PICK g4 : g4 = {"a", "b", "o", "pool"}
  OBVIOUS
<1>28. Lives({}, {}, p7, l4, g4)
  <2>1. Fresh("pool", l3) /\ Fresh("params", l3)
    BY <1>18 DEF Fresh
  <2>2. l4 = l3 \cup {<<"pool", 0>>} /\ g4 = g3 \cup {"pool"}
    BY <1>18, <1>26, <1>19, <1>27
  <2>3. QED BY <1>24, <1>3, <2>1, <2>2, <1>25, ThenSet
<1>29. PICK c : c = Dispatch("elem", n, "pool", <<<<"a", n>>, <<"b", n>>>>, {<<"o", m>>})
  OBVIOUS
<1>30. FitsK(c, l4)
  <2>1. Named("pool", l4)
    <3>1. <<"pool", 0>> \in l4
      BY <1>26
    <3>2. QED BY <3>1, NamedIs
  <2>2. Named("a", l4)
    <3>1. <<"a", n>> \in l4
      BY <1>26
    <3>2. QED BY <3>1, NamedIs
  <2>3. Named("b", l4)
    <3>1. <<"b", n>> \in l4
      BY <1>26
    <3>2. QED BY <3>1, NamedIs
  <2>4. Room("o", m, l4)
    <3>1. <<"o", n>> \in l4
      BY <1>26
    <3>2. QED BY <1>3, <1>2, <3>1, RoomIs
  <2>5. QED BY <1>29, <2>1, <2>2, <2>3, <2>4, FitsTwo
<1>31. PICK p8 : p8 = p7 \o RunRegistered(c)
  OBVIOUS
<1>32. Lives({}, {}, p8, l4, g4)
  <2>1. Fresh("cb", l4) /\ Fresh("fence", l4)
    BY <1>26 DEF Fresh
  <2>2. QED BY <1>28, <1>30, <2>1, <1>31, ThenRun
<1>33. PICK p9 : p9 = p8 \o CopyOut("o", n)
  OBVIOUS
<1>34. Lives({}, {}, p9, l4, g4)
  <2>1. QED BY <1>32, <1>33, ThenRead
<1>35. PICK p10 : p10 = p9 \o Free({"a", "b", "o"})
  OBVIOUS
<1>36. PICK l5 : l5 = {<<"pool", 0>>}
  OBVIOUS
<1>37. PICK g5 : g5 = {"pool"}
  OBVIOUS
<1>38. Lives({}, {}, p10, l5, g5)
  <2>1. /\ l5 \subseteq l4 /\ (\A k \in l5 : k[1] \notin {"a", "b", "o"})
        /\ g4 \subseteq g5 \cup {"a", "b", "o"}
    BY <1>26, <1>36, <1>27, <1>37
  <2>2. {"a", "b", "o"} \cap (CacheObjects \cup {"device"}) = {}
    BY DEF CacheObjects
  <2>3. QED BY <1>34, <2>1, <2>2, <1>35, ThenFree
<1>39. PICK p11 : p11 = p10 \o Free({"pool"})
  OBVIOUS
<1>40. PICK l6 : l6 = {}
  OBVIOUS
<1>41. PICK g6 : g6 = {}
  OBVIOUS
<1>42. Lives({}, {}, p11, l6, g6)
  <2>1. /\ l6 \subseteq l5 /\ (\A k \in l6 : k[1] \notin {"pool"})
        /\ g5 \subseteq g6 \cup {"pool"}
    BY <1>36, <1>40, <1>37, <1>41
  <2>2. {"pool"} \cap (CacheObjects \cup {"device"}) = {}
    BY DEF CacheObjects
  <2>3. QED BY <1>38, <2>1, <2>2, <1>39, ThenFree
<1>43. Elem(n, second) = p11
  BY <1>7, <1>9, <1>13, <1>17, <1>21, <1>23, <1>25, <1>29, <1>31, <1>33, <1>35, <1>39, <1>1 DEF Elem
<1>44. QED BY <1>42, <1>43, <1>40, <1>41

\* norm_rows of whole rows.
LEMMA NormRowsSome ==
  ASSUME NEW n \in Nat, NEW rowLen \in Nat, rowLen > 0, n # 0, n % rowLen = 0, NEW rms
  PROVE  Lives({}, {}, NormRows(n, rowLen, rms), {}, {})
<1>1. PICK m : m = (n \div rowLen) * rowLen
  OBVIOUS
<1>2. PICK wLen : wLen = IF rms THEN rowLen ELSE 1
  OBVIOUS
<1>3. n \in Nat /\ 0 \in Nat /\ wLen \in Nat /\ m \in Nat /\ m <= n
  BY <1>1, <1>2, WholeRows
<1>4. /\ Plain("norm_rows") /\ "norm_rows" \notin Fences
     /\ Plain("x") /\ "x" \notin Fences
     /\ Plain("w") /\ "w" \notin Fences
     /\ Plain("o") /\ "o" \notin Fences
     /\ Plain("pool") /\ "pool" \notin Fences
     /\ Plain("params") /\ "params" \notin Fences
  BY AllPlain DEF Names, DeviceObjects
<1>5. PICK l0 : l0 = {}
  OBVIOUS
<1>6. PICK g0 : g0 = {}
  OBVIOUS
<1>7. Lives({}, {}, <<>>, l0, g0)
  BY <1>5, <1>6, LivesNone
<1>8. PICK p1 : p1 = Pipeline("norm_rows")
  OBVIOUS
<1>9. Lives({}, {}, p1, l0, g0)
  <2>1. Fresh("norm_rows", l0)
    BY <1>5 DEF Fresh
  <2>2. Lives({}, {}, <<>> \o Pipeline("norm_rows"), l0, g0)
    BY <1>7, <1>4, <1>3, <2>1, ThenEnsure DEF Pipeline
  <2>3. IsSeq(Pipeline("norm_rows"))
    BY OneIsSeq DEF Pipeline, Ensure
  <2>4. QED BY <1>8, <2>2, <2>3, Lone
<1>10. PICK p2 : p2 = p1 \o Buffer("x", n)
  OBVIOUS
<1>11. PICK l1 : l1 = {<<"x", n>>}
  OBVIOUS
<1>12. PICK g1 : g1 = {"x"}
  OBVIOUS
<1>13. Lives({}, {}, p2, l1, g1)
  <2>1. Fresh("x", l0)
    BY <1>5 DEF Fresh
  <2>2. l1 = l0 \cup {<<"x", n>>} /\ g1 = g0 \cup {"x"}
    BY <1>5, <1>11, <1>6, <1>12
  <2>3. QED BY <1>9, <1>4, <1>3, <2>1, <2>2, <1>10, ThenMake
<1>14. PICK p3 : p3 = p2 \o Buffer("w", wLen)
  OBVIOUS
<1>15. PICK l2 : l2 = {<<"x", n>>, <<"w", wLen>>}
  OBVIOUS
<1>16. PICK g2 : g2 = {"x", "w"}
  OBVIOUS
<1>17. Lives({}, {}, p3, l2, g2)
  <2>1. Fresh("w", l1)
    BY <1>11 DEF Fresh
  <2>2. l2 = l1 \cup {<<"w", wLen>>} /\ g2 = g1 \cup {"w"}
    BY <1>11, <1>15, <1>12, <1>16
  <2>3. QED BY <1>13, <1>4, <1>3, <2>1, <2>2, <1>14, ThenMake
<1>18. PICK p4 : p4 = p3 \o Buffer("o", n)
  OBVIOUS
<1>19. PICK l3 : l3 = {<<"x", n>>, <<"w", wLen>>, <<"o", n>>}
  OBVIOUS
<1>20. PICK g3 : g3 = {"x", "w", "o"}
  OBVIOUS
<1>21. Lives({}, {}, p4, l3, g3)
  <2>1. Fresh("o", l2)
    BY <1>15 DEF Fresh
  <2>2. l3 = l2 \cup {<<"o", n>>} /\ g3 = g2 \cup {"o"}
    BY <1>15, <1>19, <1>16, <1>20
  <2>3. QED BY <1>17, <1>4, <1>3, <2>1, <2>2, <1>18, ThenMake
<1>22. PICK p5 : p5 = p4 \o Put("x", Floats("x", n))
  OBVIOUS
<1>23. Lives({}, {}, p5, l3, g3)
  <2>1. QED BY <1>21, <1>4, <1>22, ThenPut
<1>24. PICK p6 : p6 = p5 \o Put("w", IF rms THEN Floats("w", wLen) ELSE Zeros(1))
  OBVIOUS
<1>25. Lives({}, {}, p6, l3, g3)
  <2>1. QED BY <1>23, <1>4, <1>24, ThenPut
<1>26. PICK p7 : p7 = p6 \o MakeSet("pool")
  OBVIOUS
<1>27. PICK l4 : l4 = {<<"x", n>>, <<"w", wLen>>, <<"o", n>>, <<"pool", 0>>}
  OBVIOUS
<1>28. PICK g4 : g4 = {"x", "w", "o", "pool"}
  OBVIOUS
<1>29. Lives({}, {}, p7, l4, g4)
  <2>1. Fresh("pool", l3) /\ Fresh("params", l3)
    BY <1>19 DEF Fresh
  <2>2. l4 = l3 \cup {<<"pool", 0>>} /\ g4 = g3 \cup {"pool"}
    BY <1>19, <1>27, <1>20, <1>28
  <2>3. QED BY <1>25, <1>4, <2>1, <2>2, <1>26, ThenSet
<1>30. PICK c : c = Dispatch("norm_rows", rowLen, "pool", <<<<"x", n>>, <<"w", wLen>>>>, {<<"o", m>>})
  OBVIOUS
<1>31. FitsK(c, l4)
  <2>1. Named("pool", l4)
    <3>1. <<"pool", 0>> \in l4
      BY <1>27
    <3>2. QED BY <3>1, NamedIs
  <2>2. Named("x", l4)
    <3>1. <<"x", n>> \in l4
      BY <1>27
    <3>2. QED BY <3>1, NamedIs
  <2>3. Named("w", l4)
    <3>1. <<"w", wLen>> \in l4
      BY <1>27
    <3>2. QED BY <3>1, NamedIs
  <2>4. Room("o", m, l4)
    <3>1. <<"o", n>> \in l4
      BY <1>27
    <3>2. QED BY <1>4, <1>3, <3>1, RoomIs
  <2>5. QED BY <1>30, <2>1, <2>2, <2>3, <2>4, FitsTwo
<1>32. PICK p8 : p8 = p7 \o RunRegistered(c)
  OBVIOUS
<1>33. Lives({}, {}, p8, l4, g4)
  <2>1. Fresh("cb", l4) /\ Fresh("fence", l4)
    BY <1>27 DEF Fresh
  <2>2. QED BY <1>29, <1>31, <2>1, <1>32, ThenRun
<1>34. PICK p9 : p9 = p8 \o CopyOut("o", n)
  OBVIOUS
<1>35. Lives({}, {}, p9, l4, g4)
  <2>1. QED BY <1>33, <1>34, ThenRead
<1>36. PICK p10 : p10 = p9 \o Free({"x", "w", "o"})
  OBVIOUS
<1>37. PICK l5 : l5 = {<<"pool", 0>>}
  OBVIOUS
<1>38. PICK g5 : g5 = {"pool"}
  OBVIOUS
<1>39. Lives({}, {}, p10, l5, g5)
  <2>1. /\ l5 \subseteq l4 /\ (\A k \in l5 : k[1] \notin {"x", "w", "o"})
        /\ g4 \subseteq g5 \cup {"x", "w", "o"}
    BY <1>27, <1>37, <1>28, <1>38
  <2>2. {"x", "w", "o"} \cap (CacheObjects \cup {"device"}) = {}
    BY DEF CacheObjects
  <2>3. QED BY <1>35, <2>1, <2>2, <1>36, ThenFree
<1>40. PICK p11 : p11 = p10 \o Free({"pool"})
  OBVIOUS
<1>41. PICK l6 : l6 = {}
  OBVIOUS
<1>42. PICK g6 : g6 = {}
  OBVIOUS
<1>43. Lives({}, {}, p11, l6, g6)
  <2>1. /\ l6 \subseteq l5 /\ (\A k \in l6 : k[1] \notin {"pool"})
        /\ g5 \subseteq g6 \cup {"pool"}
    BY <1>37, <1>41, <1>38, <1>42
  <2>2. {"pool"} \cap (CacheObjects \cup {"device"}) = {}
    BY DEF CacheObjects
  <2>3. QED BY <1>39, <2>1, <2>2, <1>40, ThenFree
<1>44. NormRows(n, rowLen, rms) = p11
  BY <1>8, <1>10, <1>14, <1>18, <1>22, <1>24, <1>26, <1>30, <1>32, <1>34, <1>36, <1>40, <1>1, <1>2
     DEF NormRows
<1>45. QED BY <1>43, <1>44, <1>41, <1>42

\* softmax_row of a row.
LEMMA SoftmaxRowSome ==
  ASSUME NEW n \in Nat, n # 0
  PROVE  Lives({}, {}, SoftmaxRow(n), {}, {})
<1>1. n \in Nat /\ 0 \in Nat /\ 1 \in Nat /\ n <= n
  OBVIOUS
<1>2. /\ Plain("softmax_row") /\ "softmax_row" \notin Fences
     /\ Plain("x") /\ "x" \notin Fences
     /\ Plain("dummy") /\ "dummy" \notin Fences
     /\ Plain("o") /\ "o" \notin Fences
     /\ Plain("pool") /\ "pool" \notin Fences
     /\ Plain("params") /\ "params" \notin Fences
  BY AllPlain DEF Names, DeviceObjects
<1>3. PICK l0 : l0 = {}
  OBVIOUS
<1>4. PICK g0 : g0 = {}
  OBVIOUS
<1>5. Lives({}, {}, <<>>, l0, g0)
  BY <1>3, <1>4, LivesNone
<1>6. PICK p1 : p1 = Pipeline("softmax_row")
  OBVIOUS
<1>7. Lives({}, {}, p1, l0, g0)
  <2>1. Fresh("softmax_row", l0)
    BY <1>3 DEF Fresh
  <2>2. Lives({}, {}, <<>> \o Pipeline("softmax_row"), l0, g0)
    BY <1>5, <1>2, <1>1, <2>1, ThenEnsure DEF Pipeline
  <2>3. IsSeq(Pipeline("softmax_row"))
    BY OneIsSeq DEF Pipeline, Ensure
  <2>4. QED BY <1>6, <2>2, <2>3, Lone
<1>8. PICK p2 : p2 = p1 \o Buffer("x", n)
  OBVIOUS
<1>9. PICK l1 : l1 = {<<"x", n>>}
  OBVIOUS
<1>10. PICK g1 : g1 = {"x"}
  OBVIOUS
<1>11. Lives({}, {}, p2, l1, g1)
  <2>1. Fresh("x", l0)
    BY <1>3 DEF Fresh
  <2>2. l1 = l0 \cup {<<"x", n>>} /\ g1 = g0 \cup {"x"}
    BY <1>3, <1>9, <1>4, <1>10
  <2>3. QED BY <1>7, <1>2, <1>1, <2>1, <2>2, <1>8, ThenMake
<1>12. PICK p3 : p3 = p2 \o Buffer("dummy", 1)
  OBVIOUS
<1>13. PICK l2 : l2 = {<<"x", n>>, <<"dummy", 1>>}
  OBVIOUS
<1>14. PICK g2 : g2 = {"x", "dummy"}
  OBVIOUS
<1>15. Lives({}, {}, p3, l2, g2)
  <2>1. Fresh("dummy", l1)
    BY <1>9 DEF Fresh
  <2>2. l2 = l1 \cup {<<"dummy", 1>>} /\ g2 = g1 \cup {"dummy"}
    BY <1>9, <1>13, <1>10, <1>14
  <2>3. QED BY <1>11, <1>2, <1>1, <2>1, <2>2, <1>12, ThenMake
<1>16. PICK p4 : p4 = p3 \o Buffer("o", n)
  OBVIOUS
<1>17. PICK l3 : l3 = {<<"x", n>>, <<"dummy", 1>>, <<"o", n>>}
  OBVIOUS
<1>18. PICK g3 : g3 = {"x", "dummy", "o"}
  OBVIOUS
<1>19. Lives({}, {}, p4, l3, g3)
  <2>1. Fresh("o", l2)
    BY <1>13 DEF Fresh
  <2>2. l3 = l2 \cup {<<"o", n>>} /\ g3 = g2 \cup {"o"}
    BY <1>13, <1>17, <1>14, <1>18
  <2>3. QED BY <1>15, <1>2, <1>1, <2>1, <2>2, <1>16, ThenMake
<1>20. PICK p5 : p5 = p4 \o Put("x", Floats("x", n))
  OBVIOUS
<1>21. Lives({}, {}, p5, l3, g3)
  <2>1. QED BY <1>19, <1>2, <1>20, ThenPut
<1>22. PICK p6 : p6 = p5 \o Put("dummy", Zeros(1))
  OBVIOUS
<1>23. Lives({}, {}, p6, l3, g3)
  <2>1. QED BY <1>21, <1>2, <1>22, ThenPut
<1>24. PICK p7 : p7 = p6 \o MakeSet("pool")
  OBVIOUS
<1>25. PICK l4 : l4 = {<<"x", n>>, <<"dummy", 1>>, <<"o", n>>, <<"pool", 0>>}
  OBVIOUS
<1>26. PICK g4 : g4 = {"x", "dummy", "o", "pool"}
  OBVIOUS
<1>27. Lives({}, {}, p7, l4, g4)
  <2>1. Fresh("pool", l3) /\ Fresh("params", l3)
    BY <1>17 DEF Fresh
  <2>2. l4 = l3 \cup {<<"pool", 0>>} /\ g4 = g3 \cup {"pool"}
    BY <1>17, <1>25, <1>18, <1>26
  <2>3. QED BY <1>23, <1>2, <2>1, <2>2, <1>24, ThenSet
<1>28. PICK c : c = Dispatch("softmax_row", n, "pool", <<<<"x", n>>>>, {<<"o", n>>})
  OBVIOUS
<1>29. FitsK(c, l4)
  <2>1. Named("pool", l4)
    <3>1. <<"pool", 0>> \in l4
      BY <1>25
    <3>2. QED BY <3>1, NamedIs
  <2>2. Named("x", l4)
    <3>1. <<"x", n>> \in l4
      BY <1>25
    <3>2. QED BY <3>1, NamedIs
  <2>3. Room("o", n, l4)
    <3>1. <<"o", n>> \in l4
      BY <1>25
    <3>2. QED BY <1>2, <1>1, <3>1, RoomIs
  <2>4. QED BY <1>28, <2>1, <2>2, <2>3, FitsOne
<1>30. PICK p8 : p8 = p7 \o RunRegistered(c)
  OBVIOUS
<1>31. Lives({}, {}, p8, l4, g4)
  <2>1. Fresh("cb", l4) /\ Fresh("fence", l4)
    BY <1>25 DEF Fresh
  <2>2. QED BY <1>27, <1>29, <2>1, <1>30, ThenRun
<1>32. PICK p9 : p9 = p8 \o CopyOut("o", n)
  OBVIOUS
<1>33. Lives({}, {}, p9, l4, g4)
  <2>1. QED BY <1>31, <1>32, ThenRead
<1>34. PICK p10 : p10 = p9 \o Free({"x", "dummy", "o"})
  OBVIOUS
<1>35. PICK l5 : l5 = {<<"pool", 0>>}
  OBVIOUS
<1>36. PICK g5 : g5 = {"pool"}
  OBVIOUS
<1>37. Lives({}, {}, p10, l5, g5)
  <2>1. /\ l5 \subseteq l4 /\ (\A k \in l5 : k[1] \notin {"x", "dummy", "o"})
        /\ g4 \subseteq g5 \cup {"x", "dummy", "o"}
    BY <1>25, <1>35, <1>26, <1>36
  <2>2. {"x", "dummy", "o"} \cap (CacheObjects \cup {"device"}) = {}
    BY DEF CacheObjects
  <2>3. QED BY <1>33, <2>1, <2>2, <1>34, ThenFree
<1>38. PICK p11 : p11 = p10 \o Free({"pool"})
  OBVIOUS
<1>39. PICK l6 : l6 = {}
  OBVIOUS
<1>40. PICK g6 : g6 = {}
  OBVIOUS
<1>41. Lives({}, {}, p11, l6, g6)
  <2>1. /\ l6 \subseteq l5 /\ (\A k \in l6 : k[1] \notin {"pool"})
        /\ g5 \subseteq g6 \cup {"pool"}
    BY <1>35, <1>39, <1>36, <1>40
  <2>2. {"pool"} \cap (CacheObjects \cup {"device"}) = {}
    BY DEF CacheObjects
  <2>3. QED BY <1>37, <2>1, <2>2, <1>38, ThenFree
<1>42. SoftmaxRow(n) = p11
  BY <1>6, <1>8, <1>12, <1>16, <1>20, <1>22, <1>24, <1>28, <1>30, <1>32, <1>34, <1>38 DEF SoftmaxRow
<1>43. QED BY <1>41, <1>42, <1>39, <1>40

\* rope_imrope of whole heads.
LEMMA RopeImropeSome ==
  ASSUME NEW n \in Nat, NEW hd \in Nat, hd > 0, n # 0, n % hd = 0
  PROVE  Lives({}, {}, RopeImrope(n, hd), {}, {})
<1>1. PICK m : m = (n \div hd) * hd
  OBVIOUS
<1>2. n \in Nat /\ 0 \in Nat /\ 1 \in Nat /\ m \in Nat /\ m <= n
  BY <1>1, WholeRows
<1>3. /\ Plain("rope_imrope") /\ "rope_imrope" \notin Fences
     /\ Plain("x") /\ "x" \notin Fences
     /\ Plain("dummy") /\ "dummy" \notin Fences
     /\ Plain("pool") /\ "pool" \notin Fences
     /\ Plain("params") /\ "params" \notin Fences
  BY AllPlain DEF Names, DeviceObjects
<1>4. PICK l0 : l0 = {}
  OBVIOUS
<1>5. PICK g0 : g0 = {}
  OBVIOUS
<1>6. Lives({}, {}, <<>>, l0, g0)
  BY <1>4, <1>5, LivesNone
<1>7. PICK p1 : p1 = Pipeline("rope_imrope")
  OBVIOUS
<1>8. Lives({}, {}, p1, l0, g0)
  <2>1. Fresh("rope_imrope", l0)
    BY <1>4 DEF Fresh
  <2>2. Lives({}, {}, <<>> \o Pipeline("rope_imrope"), l0, g0)
    BY <1>6, <1>3, <1>2, <2>1, ThenEnsure DEF Pipeline
  <2>3. IsSeq(Pipeline("rope_imrope"))
    BY OneIsSeq DEF Pipeline, Ensure
  <2>4. QED BY <1>7, <2>2, <2>3, Lone
<1>9. PICK p2 : p2 = p1 \o Buffer("x", n)
  OBVIOUS
<1>10. PICK l1 : l1 = {<<"x", n>>}
  OBVIOUS
<1>11. PICK g1 : g1 = {"x"}
  OBVIOUS
<1>12. Lives({}, {}, p2, l1, g1)
  <2>1. Fresh("x", l0)
    BY <1>4 DEF Fresh
  <2>2. l1 = l0 \cup {<<"x", n>>} /\ g1 = g0 \cup {"x"}
    BY <1>4, <1>10, <1>5, <1>11
  <2>3. QED BY <1>8, <1>3, <1>2, <2>1, <2>2, <1>9, ThenMake
<1>13. PICK p3 : p3 = p2 \o Buffer("dummy", 1)
  OBVIOUS
<1>14. PICK l2 : l2 = {<<"x", n>>, <<"dummy", 1>>}
  OBVIOUS
<1>15. PICK g2 : g2 = {"x", "dummy"}
  OBVIOUS
<1>16. Lives({}, {}, p3, l2, g2)
  <2>1. Fresh("dummy", l1)
    BY <1>10 DEF Fresh
  <2>2. l2 = l1 \cup {<<"dummy", 1>>} /\ g2 = g1 \cup {"dummy"}
    BY <1>10, <1>14, <1>11, <1>15
  <2>3. QED BY <1>12, <1>3, <1>2, <2>1, <2>2, <1>13, ThenMake
<1>17. PICK p4 : p4 = p3 \o Put("x", Floats("heads", n))
  OBVIOUS
<1>18. Lives({}, {}, p4, l2, g2)
  <2>1. QED BY <1>16, <1>3, <1>17, ThenPut
<1>19. PICK p5 : p5 = p4 \o Put("dummy", Zeros(1))
  OBVIOUS
<1>20. Lives({}, {}, p5, l2, g2)
  <2>1. QED BY <1>18, <1>3, <1>19, ThenPut
<1>21. PICK p6 : p6 = p5 \o MakeSet("pool")
  OBVIOUS
<1>22. PICK l3 : l3 = {<<"x", n>>, <<"dummy", 1>>, <<"pool", 0>>}
  OBVIOUS
<1>23. PICK g3 : g3 = {"x", "dummy", "pool"}
  OBVIOUS
<1>24. Lives({}, {}, p6, l3, g3)
  <2>1. Fresh("pool", l2) /\ Fresh("params", l2)
    BY <1>14 DEF Fresh
  <2>2. l3 = l2 \cup {<<"pool", 0>>} /\ g3 = g2 \cup {"pool"}
    BY <1>14, <1>22, <1>15, <1>23
  <2>3. QED BY <1>20, <1>3, <2>1, <2>2, <1>21, ThenSet
<1>25. PICK c : c = Dispatch("rope_imrope", hd, "pool", <<<<"x", n>>>>, {<<"x", m>>})
  OBVIOUS
<1>26. FitsK(c, l3)
  <2>1. Named("pool", l3)
    <3>1. <<"pool", 0>> \in l3
      BY <1>22
    <3>2. QED BY <3>1, NamedIs
  <2>2. Named("x", l3)
    <3>1. <<"x", n>> \in l3
      BY <1>22
    <3>2. QED BY <3>1, NamedIs
  <2>3. Room("x", m, l3)
    <3>1. <<"x", n>> \in l3
      BY <1>22
    <3>2. QED BY <1>3, <1>2, <3>1, RoomIs
  <2>4. QED BY <1>25, <2>1, <2>2, <2>3, FitsOne
<1>27. PICK p7 : p7 = p6 \o RunRegistered(c)
  OBVIOUS
<1>28. Lives({}, {}, p7, l3, g3)
  <2>1. Fresh("cb", l3) /\ Fresh("fence", l3)
    BY <1>22 DEF Fresh
  <2>2. QED BY <1>24, <1>26, <2>1, <1>27, ThenRun
<1>29. PICK p8 : p8 = p7 \o CopyOut("x", n)
  OBVIOUS
<1>30. Lives({}, {}, p8, l3, g3)
  <2>1. QED BY <1>28, <1>29, ThenRead
<1>31. PICK p9 : p9 = p8 \o Free({"x", "dummy"})
  OBVIOUS
<1>32. PICK l4 : l4 = {<<"pool", 0>>}
  OBVIOUS
<1>33. PICK g4 : g4 = {"pool"}
  OBVIOUS
<1>34. Lives({}, {}, p9, l4, g4)
  <2>1. /\ l4 \subseteq l3 /\ (\A k \in l4 : k[1] \notin {"x", "dummy"})
        /\ g3 \subseteq g4 \cup {"x", "dummy"}
    BY <1>22, <1>32, <1>23, <1>33
  <2>2. {"x", "dummy"} \cap (CacheObjects \cup {"device"}) = {}
    BY DEF CacheObjects
  <2>3. QED BY <1>30, <2>1, <2>2, <1>31, ThenFree
<1>35. PICK p10 : p10 = p9 \o Free({"pool"})
  OBVIOUS
<1>36. PICK l5 : l5 = {}
  OBVIOUS
<1>37. PICK g5 : g5 = {}
  OBVIOUS
<1>38. Lives({}, {}, p10, l5, g5)
  <2>1. /\ l5 \subseteq l4 /\ (\A k \in l5 : k[1] \notin {"pool"})
        /\ g4 \subseteq g5 \cup {"pool"}
    BY <1>32, <1>36, <1>33, <1>37
  <2>2. {"pool"} \cap (CacheObjects \cup {"device"}) = {}
    BY DEF CacheObjects
  <2>3. QED BY <1>34, <2>1, <2>2, <1>35, ThenFree
<1>39. RopeImrope(n, hd) = p10
  BY <1>7, <1>9, <1>13, <1>17, <1>19, <1>21, <1>25, <1>27, <1>29, <1>31, <1>35, <1>1 DEF RopeImrope
<1>40. QED BY <1>38, <1>39, <1>36, <1>37

\* gdn_step with inputs of the lengths it wants.
LEMMA GdnStepSome ==
  ASSUME NEW n \in Nat, NEW stateLen \in Nat, NEW insLen, n = insLen
  PROVE  Lives({}, {}, GdnStep(n, stateLen, insLen), {}, {})
<1>1. n \in Nat /\ 0 \in Nat /\ stateLen \in Nat /\ insLen \in Nat /\ insLen <= insLen /\ stateLen <= stateLen
  OBVIOUS
<1>2. /\ Plain("gdn_step") /\ "gdn_step" \notin Fences
     /\ Plain("in") /\ "in" \notin Fences
     /\ Plain("s") /\ "s" \notin Fences
     /\ Plain("o") /\ "o" \notin Fences
     /\ Plain("pool") /\ "pool" \notin Fences
     /\ Plain("params") /\ "params" \notin Fences
  BY AllPlain DEF Names, DeviceObjects
<1>3. PICK l0 : l0 = {}
  OBVIOUS
<1>4. PICK g0 : g0 = {}
  OBVIOUS
<1>5. Lives({}, {}, <<>>, l0, g0)
  BY <1>3, <1>4, LivesNone
<1>6. PICK p1 : p1 = Pipeline("gdn_step")
  OBVIOUS
<1>7. Lives({}, {}, p1, l0, g0)
  <2>1. Fresh("gdn_step", l0)
    BY <1>3 DEF Fresh
  <2>2. Lives({}, {}, <<>> \o Pipeline("gdn_step"), l0, g0)
    BY <1>5, <1>2, <1>1, <2>1, ThenEnsure DEF Pipeline
  <2>3. IsSeq(Pipeline("gdn_step"))
    BY OneIsSeq DEF Pipeline, Ensure
  <2>4. QED BY <1>6, <2>2, <2>3, Lone
<1>8. PICK p2 : p2 = p1 \o Buffer("in", n)
  OBVIOUS
<1>9. PICK l1 : l1 = {<<"in", n>>}
  OBVIOUS
<1>10. PICK g1 : g1 = {"in"}
  OBVIOUS
<1>11. Lives({}, {}, p2, l1, g1)
  <2>1. Fresh("in", l0)
    BY <1>3 DEF Fresh
  <2>2. l1 = l0 \cup {<<"in", n>>} /\ g1 = g0 \cup {"in"}
    BY <1>3, <1>9, <1>4, <1>10
  <2>3. QED BY <1>7, <1>2, <1>1, <2>1, <2>2, <1>8, ThenMake
<1>12. PICK p3 : p3 = p2 \o Buffer("s", stateLen)
  OBVIOUS
<1>13. PICK l2 : l2 = {<<"in", n>>, <<"s", stateLen>>}
  OBVIOUS
<1>14. PICK g2 : g2 = {"in", "s"}
  OBVIOUS
<1>15. Lives({}, {}, p3, l2, g2)
  <2>1. Fresh("s", l1)
    BY <1>9 DEF Fresh
  <2>2. l2 = l1 \cup {<<"s", stateLen>>} /\ g2 = g1 \cup {"s"}
    BY <1>9, <1>13, <1>10, <1>14
  <2>3. QED BY <1>11, <1>2, <1>1, <2>1, <2>2, <1>12, ThenMake
<1>16. PICK p4 : p4 = p3 \o Buffer("o", insLen)
  OBVIOUS
<1>17. PICK l3 : l3 = {<<"in", n>>, <<"s", stateLen>>, <<"o", insLen>>}
  OBVIOUS
<1>18. PICK g3 : g3 = {"in", "s", "o"}
  OBVIOUS
<1>19. Lives({}, {}, p4, l3, g3)
  <2>1. Fresh("o", l2)
    BY <1>13 DEF Fresh
  <2>2. l3 = l2 \cup {<<"o", insLen>>} /\ g3 = g2 \cup {"o"}
    BY <1>13, <1>17, <1>14, <1>18
  <2>3. QED BY <1>15, <1>2, <1>1, <2>1, <2>2, <1>16, ThenMake
<1>20. PICK p5 : p5 = p4 \o Put("in", Floats("ins", n))
  OBVIOUS
<1>21. Lives({}, {}, p5, l3, g3)
  <2>1. QED BY <1>19, <1>2, <1>20, ThenPut
<1>22. PICK p6 : p6 = p5 \o Put("s", Floats("state", stateLen))
  OBVIOUS
<1>23. Lives({}, {}, p6, l3, g3)
  <2>1. QED BY <1>21, <1>2, <1>22, ThenPut
<1>24. PICK p7 : p7 = p6 \o MakeSet("pool")
  OBVIOUS
<1>25. PICK l4 : l4 = {<<"in", n>>, <<"s", stateLen>>, <<"o", insLen>>, <<"pool", 0>>}
  OBVIOUS
<1>26. PICK g4 : g4 = {"in", "s", "o", "pool"}
  OBVIOUS
<1>27. Lives({}, {}, p7, l4, g4)
  <2>1. Fresh("pool", l3) /\ Fresh("params", l3)
    BY <1>17 DEF Fresh
  <2>2. l4 = l3 \cup {<<"pool", 0>>} /\ g4 = g3 \cup {"pool"}
    BY <1>17, <1>25, <1>18, <1>26
  <2>3. QED BY <1>23, <1>2, <2>1, <2>2, <1>24, ThenSet
<1>28. PICK c : c = Dispatch("gdn_step", 0, "pool", <<<<"in", n>>, <<"s", stateLen>>>>, {<<"o", insLen>>, <<"s", stateLen>>})
  OBVIOUS
<1>29. FitsK(c, l4)
  <2>1. Named("pool", l4)
    <3>1. <<"pool", 0>> \in l4
      BY <1>25
    <3>2. QED BY <3>1, NamedIs
  <2>2. Named("in", l4)
    <3>1. <<"in", n>> \in l4
      BY <1>25
    <3>2. QED BY <3>1, NamedIs
  <2>3. Named("s", l4)
    <3>1. <<"s", stateLen>> \in l4
      BY <1>25
    <3>2. QED BY <3>1, NamedIs
  <2>4. Room("o", insLen, l4)
    <3>1. <<"o", insLen>> \in l4
      BY <1>25
    <3>2. QED BY <1>2, <1>1, <3>1, RoomIs
  <2>5. Room("s", stateLen, l4)
    <3>1. <<"s", stateLen>> \in l4
      BY <1>25
    <3>2. QED BY <1>2, <1>1, <3>1, RoomIs
  <2>6. QED BY <1>28, <2>1, <2>2, <2>3, <2>4, <2>5, FitsBoth
<1>30. PICK p8 : p8 = p7 \o RunRegistered(c)
  OBVIOUS
<1>31. Lives({}, {}, p8, l4, g4)
  <2>1. Fresh("cb", l4) /\ Fresh("fence", l4)
    BY <1>25 DEF Fresh
  <2>2. QED BY <1>27, <1>29, <2>1, <1>30, ThenRun
<1>32. PICK p9 : p9 = p8 \o CopyOut("o", insLen)
  OBVIOUS
<1>33. Lives({}, {}, p9, l4, g4)
  <2>1. QED BY <1>31, <1>32, ThenRead
<1>34. PICK p10 : p10 = p9 \o CopyOut("s", stateLen)
  OBVIOUS
<1>35. Lives({}, {}, p10, l4, g4)
  <2>1. QED BY <1>33, <1>34, ThenRead
<1>36. PICK p11 : p11 = p10 \o Free({"in", "s", "o"})
  OBVIOUS
<1>37. PICK l5 : l5 = {<<"pool", 0>>}
  OBVIOUS
<1>38. PICK g5 : g5 = {"pool"}
  OBVIOUS
<1>39. Lives({}, {}, p11, l5, g5)
  <2>1. /\ l5 \subseteq l4 /\ (\A k \in l5 : k[1] \notin {"in", "s", "o"})
        /\ g4 \subseteq g5 \cup {"in", "s", "o"}
    BY <1>25, <1>37, <1>26, <1>38
  <2>2. {"in", "s", "o"} \cap (CacheObjects \cup {"device"}) = {}
    BY DEF CacheObjects
  <2>3. QED BY <1>35, <2>1, <2>2, <1>36, ThenFree
<1>40. PICK p12 : p12 = p11 \o Free({"pool"})
  OBVIOUS
<1>41. PICK l6 : l6 = {}
  OBVIOUS
<1>42. PICK g6 : g6 = {}
  OBVIOUS
<1>43. Lives({}, {}, p12, l6, g6)
  <2>1. /\ l6 \subseteq l5 /\ (\A k \in l6 : k[1] \notin {"pool"})
        /\ g5 \subseteq g6 \cup {"pool"}
    BY <1>37, <1>41, <1>38, <1>42
  <2>2. {"pool"} \cap (CacheObjects \cup {"device"}) = {}
    BY DEF CacheObjects
  <2>3. QED BY <1>39, <2>1, <2>2, <1>40, ThenFree
<1>44. GdnStep(n, stateLen, insLen) = p12
  BY <1>6, <1>8, <1>12, <1>16, <1>20, <1>22, <1>24, <1>28, <1>30, <1>32, <1>34, <1>36, <1>40 DEF
     GdnStep
<1>45. QED BY <1>43, <1>44, <1>41, <1>42

\* attn_step.
LEMMA AttnStepLives ==
  ASSUME NEW heads \in Nat, NEW n \in Nat
  PROVE  Lives({}, {}, AttnStep(heads, n), {}, {})
<1>1. PICK scores : scores = heads * n
  OBVIOUS
<1>2. PICK room : room = AtLeastOne(scores)
  OBVIOUS
<1>3. /\ n \in Nat /\ 0 \in Nat /\ 1 \in Nat /\ heads \in Nat /\ heads <= heads
        /\ scores \in Nat /\ room \in Nat /\ scores <= room
  BY <1>1, <1>2 DEF AtLeastOne
<1>4. /\ Plain("attn_scores") /\ "attn_scores" \notin Fences
     /\ Plain("softmax_inplace") /\ "softmax_inplace" \notin Fences
     /\ Plain("attn_out") /\ "attn_out" \notin Fences
     /\ Plain("q") /\ "q" \notin Fences
     /\ Plain("k") /\ "k" \notin Fences
     /\ Plain("v") /\ "v" \notin Fences
     /\ Plain("s") /\ "s" \notin Fences
     /\ Plain("o") /\ "o" \notin Fences
     /\ Plain("dummy") /\ "dummy" \notin Fences
     /\ Plain("p1") /\ "p1" \notin Fences
     /\ Plain("params") /\ "params" \notin Fences
     /\ Plain("p2") /\ "p2" \notin Fences
     /\ Plain("p3") /\ "p3" \notin Fences
  BY AllPlain DEF Names, DeviceObjects
<1>5. PICK l0 : l0 = {}
  OBVIOUS
<1>6. PICK g0 : g0 = {}
  OBVIOUS
<1>7. Lives({}, {}, <<>>, l0, g0)
  BY <1>5, <1>6, LivesNone
<1>8. PICK p1 : p1 = Pipeline("attn_scores")
  OBVIOUS
<1>9. Lives({}, {}, p1, l0, g0)
  <2>1. Fresh("attn_scores", l0)
    BY <1>5 DEF Fresh
  <2>2. Lives({}, {}, <<>> \o Pipeline("attn_scores"), l0, g0)
    BY <1>7, <1>4, <1>3, <2>1, ThenEnsure DEF Pipeline
  <2>3. IsSeq(Pipeline("attn_scores"))
    BY OneIsSeq DEF Pipeline, Ensure
  <2>4. QED BY <1>8, <2>2, <2>3, Lone
<1>10. PICK p2 : p2 = p1 \o Pipeline("softmax_inplace")
  OBVIOUS
<1>11. Lives({}, {}, p2, l0, g0)
  <2>1. Fresh("softmax_inplace", l0)
    BY <1>5 DEF Fresh
  <2>2. QED BY <1>9, <1>4, <1>3, <2>1, <1>10, ThenEnsure DEF Pipeline
<1>12. PICK p3 : p3 = p2 \o Pipeline("attn_out")
  OBVIOUS
<1>13. Lives({}, {}, p3, l0, g0)
  <2>1. Fresh("attn_out", l0)
    BY <1>5 DEF Fresh
  <2>2. QED BY <1>11, <1>4, <1>3, <2>1, <1>12, ThenEnsure DEF Pipeline
<1>14. PICK p4 : p4 = p3 \o Buffer("q", heads)
  OBVIOUS
<1>15. PICK l1 : l1 = {<<"q", heads>>}
  OBVIOUS
<1>16. PICK g1 : g1 = {"q"}
  OBVIOUS
<1>17. Lives({}, {}, p4, l1, g1)
  <2>1. Fresh("q", l0)
    BY <1>5 DEF Fresh
  <2>2. l1 = l0 \cup {<<"q", heads>>} /\ g1 = g0 \cup {"q"}
    BY <1>5, <1>15, <1>6, <1>16
  <2>3. QED BY <1>13, <1>4, <1>3, <2>1, <2>2, <1>14, ThenMake
<1>18. PICK p5 : p5 = p4 \o Buffer("k", n)
  OBVIOUS
<1>19. PICK l2 : l2 = {<<"q", heads>>, <<"k", n>>}
  OBVIOUS
<1>20. PICK g2 : g2 = {"q", "k"}
  OBVIOUS
<1>21. Lives({}, {}, p5, l2, g2)
  <2>1. Fresh("k", l1)
    BY <1>15 DEF Fresh
  <2>2. l2 = l1 \cup {<<"k", n>>} /\ g2 = g1 \cup {"k"}
    BY <1>15, <1>19, <1>16, <1>20
  <2>3. QED BY <1>17, <1>4, <1>3, <2>1, <2>2, <1>18, ThenMake
<1>22. PICK p6 : p6 = p5 \o Buffer("v", n)
  OBVIOUS
<1>23. PICK l3 : l3 = {<<"q", heads>>, <<"k", n>>, <<"v", n>>}
  OBVIOUS
<1>24. PICK g3 : g3 = {"q", "k", "v"}
  OBVIOUS
<1>25. Lives({}, {}, p6, l3, g3)
  <2>1. Fresh("v", l2)
    BY <1>19 DEF Fresh
  <2>2. l3 = l2 \cup {<<"v", n>>} /\ g3 = g2 \cup {"v"}
    BY <1>19, <1>23, <1>20, <1>24
  <2>3. QED BY <1>21, <1>4, <1>3, <2>1, <2>2, <1>22, ThenMake
<1>26. PICK p7 : p7 = p6 \o Buffer("s", room)
  OBVIOUS
<1>27. PICK l4 : l4 = {<<"q", heads>>, <<"k", n>>, <<"v", n>>, <<"s", room>>}
  OBVIOUS
<1>28. PICK g4 : g4 = {"q", "k", "v", "s"}
  OBVIOUS
<1>29. Lives({}, {}, p7, l4, g4)
  <2>1. Fresh("s", l3)
    BY <1>23 DEF Fresh
  <2>2. l4 = l3 \cup {<<"s", room>>} /\ g4 = g3 \cup {"s"}
    BY <1>23, <1>27, <1>24, <1>28
  <2>3. QED BY <1>25, <1>4, <1>3, <2>1, <2>2, <1>26, ThenMake
<1>30. PICK p8 : p8 = p7 \o Buffer("o", heads)
  OBVIOUS
<1>31. PICK l5 : l5 = {<<"q", heads>>, <<"k", n>>, <<"v", n>>, <<"s", room>>, <<"o", heads>>}
  OBVIOUS
<1>32. PICK g5 : g5 = {"q", "k", "v", "s", "o"}
  OBVIOUS
<1>33. Lives({}, {}, p8, l5, g5)
  <2>1. Fresh("o", l4)
    BY <1>27 DEF Fresh
  <2>2. l5 = l4 \cup {<<"o", heads>>} /\ g5 = g4 \cup {"o"}
    BY <1>27, <1>31, <1>28, <1>32
  <2>3. QED BY <1>29, <1>4, <1>3, <2>1, <2>2, <1>30, ThenMake
<1>34. PICK p9 : p9 = p8 \o Buffer("dummy", 1)
  OBVIOUS
<1>35. PICK l6 : l6 =
      {<<"q", heads>>, <<"k", n>>, <<"v", n>>, <<"s", room>>, <<"o", heads>>, <<"dummy", 1>>}
  OBVIOUS
<1>36. PICK g6 : g6 = {"q", "k", "v", "s", "o", "dummy"}
  OBVIOUS
<1>37. Lives({}, {}, p9, l6, g6)
  <2>1. Fresh("dummy", l5)
    BY <1>31 DEF Fresh
  <2>2. l6 = l5 \cup {<<"dummy", 1>>} /\ g6 = g5 \cup {"dummy"}
    BY <1>31, <1>35, <1>32, <1>36
  <2>3. QED BY <1>33, <1>4, <1>3, <2>1, <2>2, <1>34, ThenMake
<1>38. PICK p10 : p10 = p9 \o Put("q", Floats("q", heads))
  OBVIOUS
<1>39. Lives({}, {}, p10, l6, g6)
  <2>1. QED BY <1>37, <1>4, <1>38, ThenPut
<1>40. PICK p11 : p11 = p10 \o Put("k", Floats("k", n))
  OBVIOUS
<1>41. Lives({}, {}, p11, l6, g6)
  <2>1. QED BY <1>39, <1>4, <1>40, ThenPut
<1>42. PICK p12 : p12 = p11 \o Put("v", Floats("v", n))
  OBVIOUS
<1>43. Lives({}, {}, p12, l6, g6)
  <2>1. QED BY <1>41, <1>4, <1>42, ThenPut
<1>44. PICK p13 : p13 = p12 \o Put("dummy", Zeros(1))
  OBVIOUS
<1>45. Lives({}, {}, p13, l6, g6)
  <2>1. QED BY <1>43, <1>4, <1>44, ThenPut
<1>46. PICK p14 : p14 = p13 \o MakeSet("p1")
  OBVIOUS
<1>47. PICK l7 : l7 =
      {<<"q", heads>>, <<"k", n>>, <<"v", n>>, <<"s", room>>, <<"o", heads>>, <<"dummy", 1>>,
       <<"p1", 0>>}
  OBVIOUS
<1>48. PICK g7 : g7 = {"q", "k", "v", "s", "o", "dummy", "p1"}
  OBVIOUS
<1>49. Lives({}, {}, p14, l7, g7)
  <2>1. Fresh("p1", l6) /\ Fresh("params", l6)
    BY <1>35 DEF Fresh
  <2>2. l7 = l6 \cup {<<"p1", 0>>} /\ g7 = g6 \cup {"p1"}
    BY <1>35, <1>47, <1>36, <1>48
  <2>3. QED BY <1>45, <1>4, <2>1, <2>2, <1>46, ThenSet
<1>50. PICK c1 : c1 = Dispatch("attn_scores", n, "p1", <<<<"q", heads>>, <<"k", n>>>>, {<<"s", scores>>})
  OBVIOUS
<1>51. FitsK(c1, l7)
  <2>1. Named("p1", l7)
    <3>1. <<"p1", 0>> \in l7
      BY <1>47
    <3>2. QED BY <3>1, NamedIs
  <2>2. Named("q", l7)
    <3>1. <<"q", heads>> \in l7
      BY <1>47
    <3>2. QED BY <3>1, NamedIs
  <2>3. Named("k", l7)
    <3>1. <<"k", n>> \in l7
      BY <1>47
    <3>2. QED BY <3>1, NamedIs
  <2>4. Room("s", scores, l7)
    <3>1. <<"s", room>> \in l7
      BY <1>47
    <3>2. QED BY <1>4, <1>3, <3>1, RoomIs
  <2>5. QED BY <1>50, <2>1, <2>2, <2>3, <2>4, FitsTwo
<1>52. PICK p15 : p15 = p14 \o RunRegistered(c1)
  OBVIOUS
<1>53. Lives({}, {}, p15, l7, g7)
  <2>1. Fresh("cb", l7) /\ Fresh("fence", l7)
    BY <1>47 DEF Fresh
  <2>2. QED BY <1>49, <1>51, <2>1, <1>52, ThenRun
<1>54. PICK p16 : p16 = p15 \o Free({"p1"})
  OBVIOUS
<1>55. PICK l8 : l8 =
      {<<"q", heads>>, <<"k", n>>, <<"v", n>>, <<"s", room>>, <<"o", heads>>, <<"dummy", 1>>}
  OBVIOUS
<1>56. PICK g8 : g8 = {"q", "k", "v", "s", "o", "dummy"}
  OBVIOUS
<1>57. Lives({}, {}, p16, l8, g8)
  <2>1. /\ l8 \subseteq l7 /\ (\A k \in l8 : k[1] \notin {"p1"})
        /\ g7 \subseteq g8 \cup {"p1"}
    BY <1>47, <1>55, <1>48, <1>56
  <2>2. {"p1"} \cap (CacheObjects \cup {"device"}) = {}
    BY DEF CacheObjects
  <2>3. QED BY <1>53, <2>1, <2>2, <1>54, ThenFree
<1>58. PICK p17 : p17 = p16 \o MakeSet("p2")
  OBVIOUS
<1>59. PICK l9 : l9 =
      {<<"q", heads>>, <<"k", n>>, <<"v", n>>, <<"s", room>>, <<"o", heads>>, <<"dummy", 1>>,
       <<"p2", 0>>}
  OBVIOUS
<1>60. PICK g9 : g9 = {"q", "k", "v", "s", "o", "dummy", "p2"}
  OBVIOUS
<1>61. Lives({}, {}, p17, l9, g9)
  <2>1. Fresh("p2", l8) /\ Fresh("params", l8)
    BY <1>55 DEF Fresh
  <2>2. l9 = l8 \cup {<<"p2", 0>>} /\ g9 = g8 \cup {"p2"}
    BY <1>55, <1>59, <1>56, <1>60
  <2>3. QED BY <1>57, <1>4, <2>1, <2>2, <1>58, ThenSet
<1>62. PICK c2 : c2 = Dispatch("softmax_inplace", n, "p2", <<<<"s", scores>>>>, {<<"s", scores>>})
  OBVIOUS
<1>63. FitsK(c2, l9)
  <2>1. Named("p2", l9)
    <3>1. <<"p2", 0>> \in l9
      BY <1>59
    <3>2. QED BY <3>1, NamedIs
  <2>2. Named("s", l9)
    <3>1. <<"s", room>> \in l9
      BY <1>59
    <3>2. QED BY <3>1, NamedIs
  <2>3. Room("s", scores, l9)
    <3>1. <<"s", room>> \in l9
      BY <1>59
    <3>2. QED BY <1>4, <1>3, <3>1, RoomIs
  <2>4. QED BY <1>62, <2>1, <2>2, <2>3, FitsOne
<1>64. PICK p18 : p18 = p17 \o RunRegistered(c2)
  OBVIOUS
<1>65. Lives({}, {}, p18, l9, g9)
  <2>1. Fresh("cb", l9) /\ Fresh("fence", l9)
    BY <1>59 DEF Fresh
  <2>2. QED BY <1>61, <1>63, <2>1, <1>64, ThenRun
<1>66. PICK p19 : p19 = p18 \o Free({"p2"})
  OBVIOUS
<1>67. PICK l10 : l10 =
      {<<"q", heads>>, <<"k", n>>, <<"v", n>>, <<"s", room>>, <<"o", heads>>, <<"dummy", 1>>}
  OBVIOUS
<1>68. PICK g10 : g10 = {"q", "k", "v", "s", "o", "dummy"}
  OBVIOUS
<1>69. Lives({}, {}, p19, l10, g10)
  <2>1. /\ l10 \subseteq l9 /\ (\A k \in l10 : k[1] \notin {"p2"})
        /\ g9 \subseteq g10 \cup {"p2"}
    BY <1>59, <1>67, <1>60, <1>68
  <2>2. {"p2"} \cap (CacheObjects \cup {"device"}) = {}
    BY DEF CacheObjects
  <2>3. QED BY <1>65, <2>1, <2>2, <1>66, ThenFree
<1>70. PICK p20 : p20 = p19 \o MakeSet("p3")
  OBVIOUS
<1>71. PICK l11 : l11 =
      {<<"q", heads>>, <<"k", n>>, <<"v", n>>, <<"s", room>>, <<"o", heads>>, <<"dummy", 1>>,
       <<"p3", 0>>}
  OBVIOUS
<1>72. PICK g11 : g11 = {"q", "k", "v", "s", "o", "dummy", "p3"}
  OBVIOUS
<1>73. Lives({}, {}, p20, l11, g11)
  <2>1. Fresh("p3", l10) /\ Fresh("params", l10)
    BY <1>67 DEF Fresh
  <2>2. l11 = l10 \cup {<<"p3", 0>>} /\ g11 = g10 \cup {"p3"}
    BY <1>67, <1>71, <1>68, <1>72
  <2>3. QED BY <1>69, <1>4, <2>1, <2>2, <1>70, ThenSet
<1>74. PICK c3 : c3 = Dispatch("attn_out", n, "p3", <<<<"s", scores>>, <<"v", n>>>>, {<<"o", heads>>})
  OBVIOUS
<1>75. FitsK(c3, l11)
  <2>1. Named("p3", l11)
    <3>1. <<"p3", 0>> \in l11
      BY <1>71
    <3>2. QED BY <3>1, NamedIs
  <2>2. Named("s", l11)
    <3>1. <<"s", room>> \in l11
      BY <1>71
    <3>2. QED BY <3>1, NamedIs
  <2>3. Named("v", l11)
    <3>1. <<"v", n>> \in l11
      BY <1>71
    <3>2. QED BY <3>1, NamedIs
  <2>4. Room("o", heads, l11)
    <3>1. <<"o", heads>> \in l11
      BY <1>71
    <3>2. QED BY <1>4, <1>3, <3>1, RoomIs
  <2>5. QED BY <1>74, <2>1, <2>2, <2>3, <2>4, FitsTwo
<1>76. PICK p21 : p21 = p20 \o RunRegistered(c3)
  OBVIOUS
<1>77. Lives({}, {}, p21, l11, g11)
  <2>1. Fresh("cb", l11) /\ Fresh("fence", l11)
    BY <1>71 DEF Fresh
  <2>2. QED BY <1>73, <1>75, <2>1, <1>76, ThenRun
<1>78. PICK p22 : p22 = p21 \o Free({"p3"})
  OBVIOUS
<1>79. PICK l12 : l12 =
      {<<"q", heads>>, <<"k", n>>, <<"v", n>>, <<"s", room>>, <<"o", heads>>, <<"dummy", 1>>}
  OBVIOUS
<1>80. PICK g12 : g12 = {"q", "k", "v", "s", "o", "dummy"}
  OBVIOUS
<1>81. Lives({}, {}, p22, l12, g12)
  <2>1. /\ l12 \subseteq l11 /\ (\A k \in l12 : k[1] \notin {"p3"})
        /\ g11 \subseteq g12 \cup {"p3"}
    BY <1>71, <1>79, <1>72, <1>80
  <2>2. {"p3"} \cap (CacheObjects \cup {"device"}) = {}
    BY DEF CacheObjects
  <2>3. QED BY <1>77, <2>1, <2>2, <1>78, ThenFree
<1>82. PICK p23 : p23 = p22 \o CopyOut("o", heads)
  OBVIOUS
<1>83. Lives({}, {}, p23, l12, g12)
  <2>1. QED BY <1>81, <1>82, ThenRead
<1>84. PICK p24 : p24 = p23 \o Free({"q", "k", "v", "s", "o", "dummy"})
  OBVIOUS
<1>85. PICK l13 : l13 = {}
  OBVIOUS
<1>86. PICK g13 : g13 = {}
  OBVIOUS
<1>87. Lives({}, {}, p24, l13, g13)
  <2>1. /\ l13 \subseteq l12 /\ (\A k \in l13 : k[1] \notin {"q", "k", "v", "s", "o", "dummy"})
        /\ g12 \subseteq g13 \cup {"q", "k", "v", "s", "o", "dummy"}
    BY <1>79, <1>85, <1>80, <1>86
  <2>2. {"q", "k", "v", "s", "o", "dummy"} \cap (CacheObjects \cup {"device"}) = {}
    BY DEF CacheObjects
  <2>3. QED BY <1>83, <2>1, <2>2, <1>84, ThenFree
<1>88. AttnStep(heads, n) = p24
  BY <1>8, <1>10, <1>12, <1>14, <1>18, <1>22, <1>26, <1>30, <1>34, <1>38, <1>40, <1>42, <1>44,
     <1>46, <1>50, <1>52, <1>54, <1>58, <1>62, <1>64, <1>66, <1>70, <1>74, <1>76, <1>78, <1>82,
     <1>84, <1>1, <1>2 DEF AttnStep
<1>89. QED BY <1>87, <1>88, <1>85, <1>86

\* matvec_on without the cache, of rows that fill their workgroups.
LEMMA MatvecOneshotLives ==
  ASSUME NEW t \in Tensors, NEW base \in Nat, NEW rows \in Nat, Fills(rows)
  PROVE  Lives({<<t, 0>>}, {}, MatvecOneshot(t, base, rows), {<<t, 0>>}, {})
<1>1. PICK ne0 : ne0 = Shape[t].ne0
  OBVIOUS
<1>2. PICK m : m = Groups(rows) * Local
  OBVIOUS
<1>3. ne0 \in Nat /\ 0 \in Nat /\ rows \in Nat /\ m \in Nat /\ m <= rows
  BY <1>1, <1>2, VulkanHostAssumption DEF Fills
<1>4. /\ t # "x" /\ t # "y" /\ t # "pool" /\ t # "cb" /\ t # "fence" /\ t # "params"
  BY TensorsAreNamedApart DEF HostObjects
<1>5. /\ Plain("x") /\ "x" \notin Fences
     /\ Plain("y") /\ "y" \notin Fences
     /\ Plain("pool") /\ "pool" \notin Fences
     /\ Plain("params") /\ "params" \notin Fences
     /\ Plain("cb") /\ "cb" \notin Fences
  BY AllPlain DEF Names, DeviceObjects
<1>6. PICK l0 : l0 = {<<t, 0>>}
  OBVIOUS
<1>7. PICK g0 : g0 = {}
  OBVIOUS
<1>8. Lives({<<t, 0>>}, {}, <<>>, l0, g0)
  BY <1>6, <1>7, LivesNone
<1>9. PICK p1 : p1 = Buffer("x", ne0)
  OBVIOUS
<1>10. PICK l1 : l1 = {<<t, 0>>, <<"x", ne0>>}
  OBVIOUS
<1>11. PICK g1 : g1 = {"x"}
  OBVIOUS
<1>12. Lives({<<t, 0>>}, {}, p1, l1, g1)
  <2>1. Fresh("x", l0)
    BY <1>6, <1>4 DEF Fresh
  <2>2. l1 = l0 \cup {<<"x", ne0>>} /\ g1 = g0 \cup {"x"}
    BY <1>6, <1>10, <1>7, <1>11
  <2>3. Lives({<<t, 0>>}, {}, <<>> \o Buffer("x", ne0), l1, g1)
    BY <1>8, <1>5, <1>3, <2>1, <2>2, ThenMake
  <2>4. IsSeq(Buffer("x", ne0))
    BY OneIsSeq DEF Buffer
  <2>5. QED BY <1>9, <2>3, <2>4, Lone
<1>13. PICK p2 : p2 = p1 \o Buffer("y", rows)
  OBVIOUS
<1>14. PICK l2 : l2 = {<<t, 0>>, <<"x", ne0>>, <<"y", rows>>}
  OBVIOUS
<1>15. PICK g2 : g2 = {"x", "y"}
  OBVIOUS
<1>16. Lives({<<t, 0>>}, {}, p2, l2, g2)
  <2>1. Fresh("y", l1)
    BY <1>10, <1>4 DEF Fresh
  <2>2. l2 = l1 \cup {<<"y", rows>>} /\ g2 = g1 \cup {"y"}
    BY <1>10, <1>14, <1>11, <1>15
  <2>3. QED BY <1>12, <1>5, <1>3, <2>1, <2>2, <1>13, ThenMake
<1>17. PICK p3 : p3 = p2 \o Put("x", Floats("x", ne0))
  OBVIOUS
<1>18. Lives({<<t, 0>>}, {}, p3, l2, g2)
  <2>1. QED BY <1>16, <1>5, <1>17, ThenPut
<1>19. PICK p4 : p4 = p3 \o MakeSet("pool")
  OBVIOUS
<1>20. PICK l3 : l3 = {<<t, 0>>, <<"x", ne0>>, <<"y", rows>>, <<"pool", 0>>}
  OBVIOUS
<1>21. PICK g3 : g3 = {"x", "y", "pool"}
  OBVIOUS
<1>22. Lives({<<t, 0>>}, {}, p4, l3, g3)
  <2>1. Fresh("pool", l2) /\ Fresh("params", l2)
    BY <1>14, <1>4 DEF Fresh
  <2>2. l3 = l2 \cup {<<"pool", 0>>} /\ g3 = g2 \cup {"pool"}
    BY <1>14, <1>20, <1>15, <1>21
  <2>3. QED BY <1>18, <1>5, <2>1, <2>2, <1>19, ThenSet
<1>23. PICK p5 : p5 = p4 \o Make("cb")
  OBVIOUS
<1>24. PICK l4 : l4 = {<<t, 0>>, <<"x", ne0>>, <<"y", rows>>, <<"pool", 0>>, <<"cb", 0>>}
  OBVIOUS
<1>25. PICK g4 : g4 = {"x", "y", "pool", "cb"}
  OBVIOUS
<1>26. Lives({<<t, 0>>}, {}, p5, l4, g4)
  <2>1. Fresh("cb", l3)
    BY <1>20, <1>4 DEF Fresh
  <2>2. l4 = l3 \cup {<<"cb", 0>>} /\ g4 = g3 \cup {"cb"}
    BY <1>20, <1>24, <1>21, <1>25
  <2>3. QED BY <1>22, <1>5, <2>1, <2>2, <1>23, ThenObject
<1>27. PICK c : c = Dispatch("pq2_matvec", base, "pool", <<<<t, base + m>>, <<"x", ne0>>>>, {<<"y", m>>})
  OBVIOUS
<1>28. FitsK(c, l4)
  <2>1. Named("pool", l4)
    <3>1. <<"pool", 0>> \in l4
      BY <1>24
    <3>2. QED BY <3>1, NamedIs
  <2>2. Named(t, l4)
    <3>1. <<t, 0>> \in l4
      BY <1>24
    <3>2. QED BY <3>1, NamedIs
  <2>3. Named("x", l4)
    <3>1. <<"x", ne0>> \in l4
      BY <1>24
    <3>2. QED BY <3>1, NamedIs
  <2>4. Room("y", m, l4)
    <3>1. <<"y", rows>> \in l4
      BY <1>24
    <3>2. QED BY <1>5, <1>3, <3>1, RoomIs
  <2>5. QED BY <1>27, <2>1, <2>2, <2>3, <2>4, FitsTwo
<1>29. PICK cs : cs = <<c>>
  OBVIOUS
<1>30. PICK X : X = {c}
  OBVIOUS
<1>31. cs \in Seq(X) /\ \A d \in X : FitsK(d, l4)
  BY <1>28, <1>29, <1>30
<1>32. PICK p6 : p6 = p5 \o Launch(cs)
  OBVIOUS
<1>33. PICK l5 : l5 =
      {<<t, 0>>, <<"x", ne0>>, <<"y", rows>>, <<"pool", 0>>, <<"cb", 0>>, <<"fence", 0>>}
  OBVIOUS
<1>34. PICK g5 : g5 = {"x", "y", "pool", "cb", "fence"}
  OBVIOUS
<1>35. Lives({<<t, 0>>}, {}, p6, l5, g5)
  <2>1. \E k \in l4 : k[1] = "cb"
    <3>1. <<"cb", 0>> \in l4
      BY <1>24
    <3>2. QED BY <3>1, NamedIs DEF Named
  <2>2. Fresh("fence", l4)
    BY <1>24, <1>4 DEF Fresh
  <2>3. l5 = l4 \cup {<<"fence", 0>>} /\ g5 = g4 \cup {"fence"}
    BY <1>24, <1>33, <1>25, <1>34
  <2>4. QED BY <1>26, <1>31, <2>1, <2>2, <2>3, <1>32, ThenLaunch
<1>36. PICK p7 : p7 = p6 \o Free({"fence", "cb", "pool"})
  OBVIOUS
<1>37. PICK l6 : l6 = {<<t, 0>>, <<"x", ne0>>, <<"y", rows>>}
  OBVIOUS
<1>38. PICK g6 : g6 = {"x", "y"}
  OBVIOUS
<1>39. Lives({<<t, 0>>}, {}, p7, l6, g6)
  <2>1. /\ l6 \subseteq l5 /\ (\A k \in l6 : k[1] \notin {"fence", "cb", "pool"})
        /\ g5 \subseteq g6 \cup {"fence", "cb", "pool"}
    BY <1>33, <1>37, <1>34, <1>38, <1>4
  <2>2. {"fence", "cb", "pool"} \cap (CacheObjects \cup {"device"}) = {}
    BY DEF CacheObjects
  <2>3. QED BY <1>35, <2>1, <2>2, <1>36, ThenFree
<1>40. PICK p8 : p8 = p7 \o CopyOut("y", rows)
  OBVIOUS
<1>41. Lives({<<t, 0>>}, {}, p8, l6, g6)
  <2>1. QED BY <1>39, <1>40, ThenRead
<1>42. PICK p9 : p9 = p8 \o Free({"x", "y"})
  OBVIOUS
<1>43. PICK l7 : l7 = {<<t, 0>>}
  OBVIOUS
<1>44. PICK g7 : g7 = {}
  OBVIOUS
<1>45. Lives({<<t, 0>>}, {}, p9, l7, g7)
  <2>1. /\ l7 \subseteq l6 /\ (\A k \in l7 : k[1] \notin {"x", "y"})
        /\ g6 \subseteq g7 \cup {"x", "y"}
    BY <1>37, <1>43, <1>38, <1>44, <1>4
  <2>2. {"x", "y"} \cap (CacheObjects \cup {"device"}) = {}
    BY DEF CacheObjects
  <2>3. QED BY <1>41, <2>1, <2>2, <1>42, ThenFree
<1>46. MatvecOneshot(t, base, rows) = p9
  BY <1>9, <1>13, <1>17, <1>19, <1>23, <1>27, <1>29, <1>32, <1>36, <1>40, <1>42, <1>1, <1>2 DEF
     MatvecOneshot, Product
<1>47. QED BY <1>45, <1>46, <1>43, <1>44

\* pq2_matvec of rows that fill their workgroups.
LEMMA Pq2MatvecLives ==
  ASSUME NEW ne0 \in Nat, NEW base \in Nat, NEW rows \in Nat, Fills(rows)
  PROVE  Lives({}, {}, Pq2Matvec(ne0, base, rows), {}, {})
<1>1. PICK all : all = base + rows
  OBVIOUS
<1>2. PICK m : m = Groups(rows) * Local
  OBVIOUS
<1>3. all \in Nat /\ ne0 \in Nat /\ 0 \in Nat /\ rows \in Nat /\ m \in Nat /\ m <= rows
  BY <1>1, <1>2 DEF Fills
<1>4. /\ Plain("w") /\ "w" \notin Fences
     /\ Plain("x") /\ "x" \notin Fences
     /\ Plain("y") /\ "y" \notin Fences
     /\ Plain("pool") /\ "pool" \notin Fences
     /\ Plain("cb") /\ "cb" \notin Fences
  BY AllPlain DEF Names, DeviceObjects
<1>5. PICK l0 : l0 = {}
  OBVIOUS
<1>6. PICK g0 : g0 = {}
  OBVIOUS
<1>7. Lives({}, {}, <<>>, l0, g0)
  BY <1>5, <1>6, LivesNone
<1>8. PICK p1 : p1 = Buffer("w", all)
  OBVIOUS
<1>9. PICK l1 : l1 = {<<"w", all>>}
  OBVIOUS
<1>10. PICK g1 : g1 = {"w"}
  OBVIOUS
<1>11. Lives({}, {}, p1, l1, g1)
  <2>1. Fresh("w", l0)
    BY <1>5 DEF Fresh
  <2>2. l1 = l0 \cup {<<"w", all>>} /\ g1 = g0 \cup {"w"}
    BY <1>5, <1>9, <1>6, <1>10
  <2>3. Lives({}, {}, <<>> \o Buffer("w", all), l1, g1)
    BY <1>7, <1>4, <1>3, <2>1, <2>2, ThenMake
  <2>4. IsSeq(Buffer("w", all))
    BY OneIsSeq DEF Buffer
  <2>5. QED BY <1>8, <2>3, <2>4, Lone
<1>12. PICK p2 : p2 = p1 \o Buffer("x", ne0)
  OBVIOUS
<1>13. PICK l2 : l2 = {<<"w", all>>, <<"x", ne0>>}
  OBVIOUS
<1>14. PICK g2 : g2 = {"w", "x"}
  OBVIOUS
<1>15. Lives({}, {}, p2, l2, g2)
  <2>1. Fresh("x", l1)
    BY <1>9 DEF Fresh
  <2>2. l2 = l1 \cup {<<"x", ne0>>} /\ g2 = g1 \cup {"x"}
    BY <1>9, <1>13, <1>10, <1>14
  <2>3. QED BY <1>11, <1>4, <1>3, <2>1, <2>2, <1>12, ThenMake
<1>16. PICK p3 : p3 = p2 \o Buffer("y", rows)
  OBVIOUS
<1>17. PICK l3 : l3 = {<<"w", all>>, <<"x", ne0>>, <<"y", rows>>}
  OBVIOUS
<1>18. PICK g3 : g3 = {"w", "x", "y"}
  OBVIOUS
<1>19. Lives({}, {}, p3, l3, g3)
  <2>1. Fresh("y", l2)
    BY <1>13 DEF Fresh
  <2>2. l3 = l2 \cup {<<"y", rows>>} /\ g3 = g2 \cup {"y"}
    BY <1>13, <1>17, <1>14, <1>18
  <2>3. QED BY <1>15, <1>4, <1>3, <2>1, <2>2, <1>16, ThenMake
<1>20. PICK p4 : p4 = p3 \o Put("w", Floats("w", all))
  OBVIOUS
<1>21. Lives({}, {}, p4, l3, g3)
  <2>1. QED BY <1>19, <1>4, <1>20, ThenPut
<1>22. PICK p5 : p5 = p4 \o Put("x", Floats("x", ne0))
  OBVIOUS
<1>23. Lives({}, {}, p5, l3, g3)
  <2>1. QED BY <1>21, <1>4, <1>22, ThenPut
<1>24. PICK p6 : p6 = p5 \o Make("pool")
  OBVIOUS
<1>25. PICK l4 : l4 = {<<"w", all>>, <<"x", ne0>>, <<"y", rows>>, <<"pool", 0>>}
  OBVIOUS
<1>26. PICK g4 : g4 = {"w", "x", "y", "pool"}
  OBVIOUS
<1>27. Lives({}, {}, p6, l4, g4)
  <2>1. Fresh("pool", l3)
    BY <1>17 DEF Fresh
  <2>2. l4 = l3 \cup {<<"pool", 0>>} /\ g4 = g3 \cup {"pool"}
    BY <1>17, <1>25, <1>18, <1>26
  <2>3. QED BY <1>23, <1>4, <2>1, <2>2, <1>24, ThenObject
<1>28. PICK p7 : p7 = p6 \o Make("cb")
  OBVIOUS
<1>29. PICK l5 : l5 = {<<"w", all>>, <<"x", ne0>>, <<"y", rows>>, <<"pool", 0>>, <<"cb", 0>>}
  OBVIOUS
<1>30. PICK g5 : g5 = {"w", "x", "y", "pool", "cb"}
  OBVIOUS
<1>31. Lives({}, {}, p7, l5, g5)
  <2>1. Fresh("cb", l4)
    BY <1>25 DEF Fresh
  <2>2. l5 = l4 \cup {<<"cb", 0>>} /\ g5 = g4 \cup {"cb"}
    BY <1>25, <1>29, <1>26, <1>30
  <2>3. QED BY <1>27, <1>4, <2>1, <2>2, <1>28, ThenObject
<1>32. PICK c : c = Dispatch("pq2_matvec", base, "pool", <<<<"w", base + m>>, <<"x", ne0>>>>, {<<"y", m>>})
  OBVIOUS
<1>33. FitsK(c, l5)
  <2>1. Named("pool", l5)
    <3>1. <<"pool", 0>> \in l5
      BY <1>29
    <3>2. QED BY <3>1, NamedIs
  <2>2. Named("w", l5)
    <3>1. <<"w", all>> \in l5
      BY <1>29
    <3>2. QED BY <3>1, NamedIs
  <2>3. Named("x", l5)
    <3>1. <<"x", ne0>> \in l5
      BY <1>29
    <3>2. QED BY <3>1, NamedIs
  <2>4. Room("y", m, l5)
    <3>1. <<"y", rows>> \in l5
      BY <1>29
    <3>2. QED BY <1>4, <1>3, <3>1, RoomIs
  <2>5. QED BY <1>32, <2>1, <2>2, <2>3, <2>4, FitsTwo
<1>34. PICK cs : cs = <<c>>
  OBVIOUS
<1>35. PICK X : X = {c}
  OBVIOUS
<1>36. cs \in Seq(X) /\ \A d \in X : FitsK(d, l5)
  BY <1>33, <1>34, <1>35
<1>37. PICK p8 : p8 = p7 \o Launch(cs)
  OBVIOUS
<1>38. PICK l6 : l6 =
      {<<"w", all>>, <<"x", ne0>>, <<"y", rows>>, <<"pool", 0>>, <<"cb", 0>>, <<"fence", 0>>}
  OBVIOUS
<1>39. PICK g6 : g6 = {"w", "x", "y", "pool", "cb", "fence"}
  OBVIOUS
<1>40. Lives({}, {}, p8, l6, g6)
  <2>1. \E k \in l5 : k[1] = "cb"
    <3>1. <<"cb", 0>> \in l5
      BY <1>29
    <3>2. QED BY <3>1, NamedIs DEF Named
  <2>2. Fresh("fence", l5)
    BY <1>29 DEF Fresh
  <2>3. l6 = l5 \cup {<<"fence", 0>>} /\ g6 = g5 \cup {"fence"}
    BY <1>29, <1>38, <1>30, <1>39
  <2>4. QED BY <1>31, <1>36, <2>1, <2>2, <2>3, <1>37, ThenLaunch
<1>41. PICK p9 : p9 = p8 \o CopyOut("y", rows)
  OBVIOUS
<1>42. Lives({}, {}, p9, l6, g6)
  <2>1. QED BY <1>40, <1>41, ThenRead
<1>43. PICK p10 : p10 = p9 \o Free({"fence", "cb", "pool"})
  OBVIOUS
<1>44. PICK l7 : l7 = {<<"w", all>>, <<"x", ne0>>, <<"y", rows>>}
  OBVIOUS
<1>45. PICK g7 : g7 = {"w", "x", "y"}
  OBVIOUS
<1>46. Lives({}, {}, p10, l7, g7)
  <2>1. /\ l7 \subseteq l6 /\ (\A k \in l7 : k[1] \notin {"fence", "cb", "pool"})
        /\ g6 \subseteq g7 \cup {"fence", "cb", "pool"}
    BY <1>38, <1>44, <1>39, <1>45
  <2>2. {"fence", "cb", "pool"} \cap (CacheObjects \cup {"device"}) = {}
    BY DEF CacheObjects
  <2>3. QED BY <1>42, <2>1, <2>2, <1>43, ThenFree
<1>47. PICK p11 : p11 = p10 \o Free({"w", "x", "y"})
  OBVIOUS
<1>48. PICK l8 : l8 = {}
  OBVIOUS
<1>49. PICK g8 : g8 = {}
  OBVIOUS
<1>50. Lives({}, {}, p11, l8, g8)
  <2>1. /\ l8 \subseteq l7 /\ (\A k \in l8 : k[1] \notin {"w", "x", "y"})
        /\ g7 \subseteq g8 \cup {"w", "x", "y"}
    BY <1>44, <1>48, <1>45, <1>49
  <2>2. {"w", "x", "y"} \cap (CacheObjects \cup {"device"}) = {}
    BY DEF CacheObjects
  <2>3. QED BY <1>46, <2>1, <2>2, <1>47, ThenFree
<1>51. Pq2Matvec(ne0, base, rows) = p11
  BY <1>8, <1>12, <1>16, <1>20, <1>22, <1>24, <1>28, <1>32, <1>34, <1>37, <1>41, <1>43, <1>47,
     <1>1, <1>2 DEF Pq2Matvec, Product
<1>52. QED BY <1>50, <1>51, <1>48, <1>49

\* matvec_bench of rows that fill their workgroups.
LEMMA MatvecBenchLives ==
  ASSUME NEW ne0 \in Nat, NEW base \in Nat, NEW rows \in Nat, NEW iters \in Nat, Fills(rows)
  PROVE  Lives({}, {}, MatvecBench(ne0, base, rows, iters), {}, {})
<1>1. PICK all : all = base + rows
  OBVIOUS
<1>2. PICK m : m = Groups(rows) * Local
  OBVIOUS
<1>3. all \in Nat /\ ne0 \in Nat /\ 0 \in Nat /\ rows \in Nat /\ m \in Nat /\ m <= rows
  BY <1>1, <1>2 DEF Fills
<1>4. Len(Floats("w", all)) \in Nat
  BY <1>3, FloatsLen
<1>5. /\ Plain("w") /\ "w" \notin Fences
     /\ Plain("x") /\ "x" \notin Fences
     /\ Plain("y") /\ "y" \notin Fences
     /\ Plain("pool") /\ "pool" \notin Fences
     /\ Plain("params") /\ "params" \notin Fences
     /\ Plain("cb") /\ "cb" \notin Fences
  BY AllPlain DEF Names, DeviceObjects
<1>6. PICK l0 : l0 = {}
  OBVIOUS
<1>7. PICK g0 : g0 = {}
  OBVIOUS
<1>8. Lives({}, {}, <<>>, l0, g0)
  BY <1>6, <1>7, LivesNone
<1>9. PICK p1 : p1 = Buffer("w", all)
  OBVIOUS
<1>10. PICK l1 : l1 = {<<"w", all>>}
  OBVIOUS
<1>11. PICK g1 : g1 = {"w"}
  OBVIOUS
<1>12. Lives({}, {}, p1, l1, g1)
  <2>1. Fresh("w", l0)
    BY <1>6 DEF Fresh
  <2>2. l1 = l0 \cup {<<"w", all>>} /\ g1 = g0 \cup {"w"}
    BY <1>6, <1>10, <1>7, <1>11
  <2>3. Lives({}, {}, <<>> \o Buffer("w", all), l1, g1)
    BY <1>8, <1>5, <1>3, <2>1, <2>2, ThenMake
  <2>4. IsSeq(Buffer("w", all))
    BY OneIsSeq DEF Buffer
  <2>5. QED BY <1>9, <2>3, <2>4, Lone
<1>13. PICK p2 : p2 = p1 \o StageUpload("w", Floats("w", all), all)
  OBVIOUS
<1>14. Lives({}, {}, p2, l1, g1)
  <2>1. <<"w", all>> \in l1
    BY <1>10
  <2>2. Fresh("staging", l1) /\ Fresh("cb", l1) /\ Fresh("fence", l1)
    BY <1>10 DEF Fresh
  <2>3. QED BY <1>12, <1>5, <1>3, <1>4, <2>1, <2>2, <1>13, ThenUpload
<1>15. PICK p3 : p3 = p2 \o Buffer("x", ne0)
  OBVIOUS
<1>16. PICK l2 : l2 = {<<"w", all>>, <<"x", ne0>>}
  OBVIOUS
<1>17. PICK g2 : g2 = {"w", "x"}
  OBVIOUS
<1>18. Lives({}, {}, p3, l2, g2)
  <2>1. Fresh("x", l1)
    BY <1>10 DEF Fresh
  <2>2. l2 = l1 \cup {<<"x", ne0>>} /\ g2 = g1 \cup {"x"}
    BY <1>10, <1>16, <1>11, <1>17
  <2>3. QED BY <1>14, <1>5, <1>3, <2>1, <2>2, <1>15, ThenMake
<1>19. PICK p4 : p4 = p3 \o Buffer("y", rows)
  OBVIOUS
<1>20. PICK l3 : l3 = {<<"w", all>>, <<"x", ne0>>, <<"y", rows>>}
  OBVIOUS
<1>21. PICK g3 : g3 = {"w", "x", "y"}
  OBVIOUS
<1>22. Lives({}, {}, p4, l3, g3)
  <2>1. Fresh("y", l2)
    BY <1>16 DEF Fresh
  <2>2. l3 = l2 \cup {<<"y", rows>>} /\ g3 = g2 \cup {"y"}
    BY <1>16, <1>20, <1>17, <1>21
  <2>3. QED BY <1>18, <1>5, <1>3, <2>1, <2>2, <1>19, ThenMake
<1>23. PICK p5 : p5 = p4 \o Put("x", Floats("x", ne0))
  OBVIOUS
<1>24. Lives({}, {}, p5, l3, g3)
  <2>1. QED BY <1>22, <1>5, <1>23, ThenPut
<1>25. PICK p6 : p6 = p5 \o MakeSet("pool")
  OBVIOUS
<1>26. PICK l4 : l4 = {<<"w", all>>, <<"x", ne0>>, <<"y", rows>>, <<"pool", 0>>}
  OBVIOUS
<1>27. PICK g4 : g4 = {"w", "x", "y", "pool"}
  OBVIOUS
<1>28. Lives({}, {}, p6, l4, g4)
  <2>1. Fresh("pool", l3) /\ Fresh("params", l3)
    BY <1>20 DEF Fresh
  <2>2. l4 = l3 \cup {<<"pool", 0>>} /\ g4 = g3 \cup {"pool"}
    BY <1>20, <1>26, <1>21, <1>27
  <2>3. QED BY <1>24, <1>5, <2>1, <2>2, <1>25, ThenSet
<1>29. PICK p7 : p7 = p6 \o Make("cb")
  OBVIOUS
<1>30. PICK l5 : l5 = {<<"w", all>>, <<"x", ne0>>, <<"y", rows>>, <<"pool", 0>>, <<"cb", 0>>}
  OBVIOUS
<1>31. PICK g5 : g5 = {"w", "x", "y", "pool", "cb"}
  OBVIOUS
<1>32. Lives({}, {}, p7, l5, g5)
  <2>1. Fresh("cb", l4)
    BY <1>26 DEF Fresh
  <2>2. l5 = l4 \cup {<<"cb", 0>>} /\ g5 = g4 \cup {"cb"}
    BY <1>26, <1>30, <1>27, <1>31
  <2>3. QED BY <1>28, <1>5, <2>1, <2>2, <1>29, ThenObject
<1>33. PICK c : c = Dispatch("pq2_matvec", base, "pool", <<<<"w", base + m>>, <<"x", ne0>>>>, {<<"y", m>>})
  OBVIOUS
<1>34. FitsK(c, l5)
  <2>1. Named("pool", l5)
    <3>1. <<"pool", 0>> \in l5
      BY <1>30
    <3>2. QED BY <3>1, NamedIs
  <2>2. Named("w", l5)
    <3>1. <<"w", all>> \in l5
      BY <1>30
    <3>2. QED BY <3>1, NamedIs
  <2>3. Named("x", l5)
    <3>1. <<"x", ne0>> \in l5
      BY <1>30
    <3>2. QED BY <3>1, NamedIs
  <2>4. Room("y", m, l5)
    <3>1. <<"y", rows>> \in l5
      BY <1>30
    <3>2. QED BY <1>5, <1>3, <3>1, RoomIs
  <2>5. QED BY <1>33, <2>1, <2>2, <2>3, <2>4, FitsTwo
<1>35. PICK cs : cs = [i \in 1..AtLeastOne(iters) |-> c]
  OBVIOUS
<1>36. PICK X : X = {c}
  OBVIOUS
<1>37. cs \in Seq(X) /\ \A d \in X : FitsK(d, l5)
  <2>1. cs \in [1..AtLeastOne(iters) -> X] /\ AtLeastOne(iters) \in Nat
    BY <1>35, <1>36 DEF AtLeastOne
  <2>2. QED BY <1>34, <1>36, <2>1
<1>38. PICK p8 : p8 = p7 \o Launch(cs)
  OBVIOUS
<1>39. PICK l6 : l6 =
      {<<"w", all>>, <<"x", ne0>>, <<"y", rows>>, <<"pool", 0>>, <<"cb", 0>>, <<"fence", 0>>}
  OBVIOUS
<1>40. PICK g6 : g6 = {"w", "x", "y", "pool", "cb", "fence"}
  OBVIOUS
<1>41. Lives({}, {}, p8, l6, g6)
  <2>1. \E k \in l5 : k[1] = "cb"
    <3>1. <<"cb", 0>> \in l5
      BY <1>30
    <3>2. QED BY <3>1, NamedIs DEF Named
  <2>2. Fresh("fence", l5)
    BY <1>30 DEF Fresh
  <2>3. l6 = l5 \cup {<<"fence", 0>>} /\ g6 = g5 \cup {"fence"}
    BY <1>30, <1>39, <1>31, <1>40
  <2>4. QED BY <1>32, <1>37, <2>1, <2>2, <2>3, <1>38, ThenLaunch
<1>42. PICK p9 : p9 = p8 \o Free({"fence", "cb", "pool"})
  OBVIOUS
<1>43. PICK l7 : l7 = {<<"w", all>>, <<"x", ne0>>, <<"y", rows>>}
  OBVIOUS
<1>44. PICK g7 : g7 = {"w", "x", "y"}
  OBVIOUS
<1>45. Lives({}, {}, p9, l7, g7)
  <2>1. /\ l7 \subseteq l6 /\ (\A k \in l7 : k[1] \notin {"fence", "cb", "pool"})
        /\ g6 \subseteq g7 \cup {"fence", "cb", "pool"}
    BY <1>39, <1>43, <1>40, <1>44
  <2>2. {"fence", "cb", "pool"} \cap (CacheObjects \cup {"device"}) = {}
    BY DEF CacheObjects
  <2>3. QED BY <1>41, <2>1, <2>2, <1>42, ThenFree
<1>46. PICK p10 : p10 = p9 \o CopyOut("y", rows)
  OBVIOUS
<1>47. Lives({}, {}, p10, l7, g7)
  <2>1. QED BY <1>45, <1>46, ThenRead
<1>48. PICK p11 : p11 = p10 \o Free({"x", "y", "w"})
  OBVIOUS
<1>49. PICK l8 : l8 = {}
  OBVIOUS
<1>50. PICK g8 : g8 = {}
  OBVIOUS
<1>51. Lives({}, {}, p11, l8, g8)
  <2>1. /\ l8 \subseteq l7 /\ (\A k \in l8 : k[1] \notin {"x", "y", "w"})
        /\ g7 \subseteq g8 \cup {"x", "y", "w"}
    BY <1>43, <1>49, <1>44, <1>50
  <2>2. {"x", "y", "w"} \cap (CacheObjects \cup {"device"}) = {}
    BY DEF CacheObjects
  <2>3. QED BY <1>47, <2>1, <2>2, <1>48, ThenFree
<1>52. MatvecBench(ne0, base, rows, iters) = p11
  BY <1>9, <1>13, <1>15, <1>19, <1>23, <1>25, <1>29, <1>33, <1>35, <1>38, <1>42, <1>46, <1>48,
     <1>1, <1>2 DEF MatvecBench, Product
<1>53. QED BY <1>51, <1>52, <1>49, <1>50

\* matvec_bench_atom, of partial sums that fill their workgroups.
LEMMA MatvecBenchAtomLives ==
  ASSUME NEW ne0 \in Nat, NEW base \in Nat, NEW rows \in Nat, NEW iters \in Nat, rows > 0,
         Fills(Partials(ne0, rows))
  PROVE  Lives({}, {}, MatvecBenchAtom(ne0, base, rows, iters), {}, {})
<1>1. PICK all : all = base + rows
  OBVIOUS
<1>2. PICK n : n = Partials(ne0, rows)
  OBVIOUS
<1>3. PICK m : m = LanesFor(n)
  OBVIOUS
<1>4. PICK r : r = AtLeastOne(rows)
  OBVIOUS
<1>5. /\ all \in Nat /\ ne0 \in Nat /\ 0 \in Nat /\ 1 \in Nat /\ rows \in Nat /\ n \in Nat
        /\ m \in Nat /\ m <= n /\ r \in Nat /\ r <= rows
  <2>1. n \in Nat
    BY <1>2, PartialsNat
  <2>2. m = n
    BY <1>2, <1>3 DEF Fills, LanesFor
  <2>3. r = rows
    BY <1>4 DEF AtLeastOne
  <2>4. QED BY <1>1, <2>1, <2>2, <2>3
<1>6. Len(Floats("w", all)) \in Nat
  BY <1>5, FloatsLen
<1>7. /\ Plain("pq2_partial") /\ "pq2_partial" \notin Fences
     /\ Plain("pq2_rowsum") /\ "pq2_rowsum" \notin Fences
     /\ Plain("w") /\ "w" \notin Fences
     /\ Plain("partials") /\ "partials" \notin Fences
     /\ Plain("x") /\ "x" \notin Fences
     /\ Plain("y") /\ "y" \notin Fences
     /\ Plain("dummy") /\ "dummy" \notin Fences
     /\ Plain("pool_p") /\ "pool_p" \notin Fences
     /\ Plain("params") /\ "params" \notin Fences
     /\ Plain("pool_r") /\ "pool_r" \notin Fences
     /\ Plain("cb") /\ "cb" \notin Fences
  BY AllPlain DEF Names, DeviceObjects
<1>8. PICK l0 : l0 = {}
  OBVIOUS
<1>9. PICK g0 : g0 = {}
  OBVIOUS
<1>10. Lives({}, {}, <<>>, l0, g0)
  BY <1>8, <1>9, LivesNone
<1>11. PICK p1 : p1 = Pipeline("pq2_partial")
  OBVIOUS
<1>12. Lives({}, {}, p1, l0, g0)
  <2>1. Fresh("pq2_partial", l0)
    BY <1>8 DEF Fresh
  <2>2. Lives({}, {}, <<>> \o Pipeline("pq2_partial"), l0, g0)
    BY <1>10, <1>7, <1>5, <2>1, ThenEnsure DEF Pipeline
  <2>3. IsSeq(Pipeline("pq2_partial"))
    BY OneIsSeq DEF Pipeline, Ensure
  <2>4. QED BY <1>11, <2>2, <2>3, Lone
<1>13. PICK p2 : p2 = p1 \o Pipeline("pq2_rowsum")
  OBVIOUS
<1>14. Lives({}, {}, p2, l0, g0)
  <2>1. Fresh("pq2_rowsum", l0)
    BY <1>8 DEF Fresh
  <2>2. QED BY <1>12, <1>7, <1>5, <2>1, <1>13, ThenEnsure DEF Pipeline
<1>15. PICK p3 : p3 = p2 \o Buffer("w", all)
  OBVIOUS
<1>16. PICK l1 : l1 = {<<"w", all>>}
  OBVIOUS
<1>17. PICK g1 : g1 = {"w"}
  OBVIOUS
<1>18. Lives({}, {}, p3, l1, g1)
  <2>1. Fresh("w", l0)
    BY <1>8 DEF Fresh
  <2>2. l1 = l0 \cup {<<"w", all>>} /\ g1 = g0 \cup {"w"}
    BY <1>8, <1>16, <1>9, <1>17
  <2>3. QED BY <1>14, <1>7, <1>5, <2>1, <2>2, <1>15, ThenMake
<1>19. PICK p4 : p4 = p3 \o StageUpload("w", Floats("w", all), all)
  OBVIOUS
<1>20. Lives({}, {}, p4, l1, g1)
  <2>1. <<"w", all>> \in l1
    BY <1>16
  <2>2. Fresh("staging", l1) /\ Fresh("cb", l1) /\ Fresh("fence", l1)
    BY <1>16 DEF Fresh
  <2>3. QED BY <1>18, <1>7, <1>5, <1>6, <2>1, <2>2, <1>19, ThenUpload
<1>21. PICK p5 : p5 = p4 \o Buffer("partials", n)
  OBVIOUS
<1>22. PICK l2 : l2 = {<<"w", all>>, <<"partials", n>>}
  OBVIOUS
<1>23. PICK g2 : g2 = {"w", "partials"}
  OBVIOUS
<1>24. Lives({}, {}, p5, l2, g2)
  <2>1. Fresh("partials", l1)
    BY <1>16 DEF Fresh
  <2>2. l2 = l1 \cup {<<"partials", n>>} /\ g2 = g1 \cup {"partials"}
    BY <1>16, <1>22, <1>17, <1>23
  <2>3. QED BY <1>20, <1>7, <1>5, <2>1, <2>2, <1>21, ThenMake
<1>25. PICK p6 : p6 = p5 \o Buffer("x", ne0)
  OBVIOUS
<1>26. PICK l3 : l3 = {<<"w", all>>, <<"partials", n>>, <<"x", ne0>>}
  OBVIOUS
<1>27. PICK g3 : g3 = {"w", "partials", "x"}
  OBVIOUS
<1>28. Lives({}, {}, p6, l3, g3)
  <2>1. Fresh("x", l2)
    BY <1>22 DEF Fresh
  <2>2. l3 = l2 \cup {<<"x", ne0>>} /\ g3 = g2 \cup {"x"}
    BY <1>22, <1>26, <1>23, <1>27
  <2>3. QED BY <1>24, <1>7, <1>5, <2>1, <2>2, <1>25, ThenMake
<1>29. PICK p7 : p7 = p6 \o Buffer("y", rows)
  OBVIOUS
<1>30. PICK l4 : l4 = {<<"w", all>>, <<"partials", n>>, <<"x", ne0>>, <<"y", rows>>}
  OBVIOUS
<1>31. PICK g4 : g4 = {"w", "partials", "x", "y"}
  OBVIOUS
<1>32. Lives({}, {}, p7, l4, g4)
  <2>1. Fresh("y", l3)
    BY <1>26 DEF Fresh
  <2>2. l4 = l3 \cup {<<"y", rows>>} /\ g4 = g3 \cup {"y"}
    BY <1>26, <1>30, <1>27, <1>31
  <2>3. QED BY <1>28, <1>7, <1>5, <2>1, <2>2, <1>29, ThenMake
<1>33. PICK p8 : p8 = p7 \o Buffer("dummy", 1)
  OBVIOUS
<1>34. PICK l5 : l5 = {<<"w", all>>, <<"partials", n>>, <<"x", ne0>>, <<"y", rows>>, <<"dummy", 1>>}
  OBVIOUS
<1>35. PICK g5 : g5 = {"w", "partials", "x", "y", "dummy"}
  OBVIOUS
<1>36. Lives({}, {}, p8, l5, g5)
  <2>1. Fresh("dummy", l4)
    BY <1>30 DEF Fresh
  <2>2. l5 = l4 \cup {<<"dummy", 1>>} /\ g5 = g4 \cup {"dummy"}
    BY <1>30, <1>34, <1>31, <1>35
  <2>3. QED BY <1>32, <1>7, <1>5, <2>1, <2>2, <1>33, ThenMake
<1>37. PICK p9 : p9 = p8 \o Put("x", Floats("x", ne0))
  OBVIOUS
<1>38. Lives({}, {}, p9, l5, g5)
  <2>1. QED BY <1>36, <1>7, <1>37, ThenPut
<1>39. PICK p10 : p10 = p9 \o Put("dummy", Zeros(1))
  OBVIOUS
<1>40. Lives({}, {}, p10, l5, g5)
  <2>1. QED BY <1>38, <1>7, <1>39, ThenPut
<1>41. PICK p11 : p11 = p10 \o MakeSet("pool_p")
  OBVIOUS
<1>42. PICK l6 : l6 =
      {<<"w", all>>, <<"partials", n>>, <<"x", ne0>>, <<"y", rows>>, <<"dummy", 1>>, <<"pool_p",
       0>>}
  OBVIOUS
<1>43. PICK g6 : g6 = {"w", "partials", "x", "y", "dummy", "pool_p"}
  OBVIOUS
<1>44. Lives({}, {}, p11, l6, g6)
  <2>1. Fresh("pool_p", l5) /\ Fresh("params", l5)
    BY <1>34 DEF Fresh
  <2>2. l6 = l5 \cup {<<"pool_p", 0>>} /\ g6 = g5 \cup {"pool_p"}
    BY <1>34, <1>42, <1>35, <1>43
  <2>3. QED BY <1>40, <1>7, <2>1, <2>2, <1>41, ThenSet
<1>45. PICK p12 : p12 = p11 \o MakeSet("pool_r")
  OBVIOUS
<1>46. PICK l7 : l7 =
      {<<"w", all>>, <<"partials", n>>, <<"x", ne0>>, <<"y", rows>>, <<"dummy", 1>>, <<"pool_p",
       0>>, <<"pool_r", 0>>}
  OBVIOUS
<1>47. PICK g7 : g7 = {"w", "partials", "x", "y", "dummy", "pool_p", "pool_r"}
  OBVIOUS
<1>48. Lives({}, {}, p12, l7, g7)
  <2>1. Fresh("pool_r", l6) /\ Fresh("params", l6)
    BY <1>42 DEF Fresh
  <2>2. l7 = l6 \cup {<<"pool_r", 0>>} /\ g7 = g6 \cup {"pool_r"}
    BY <1>42, <1>46, <1>43, <1>47
  <2>3. QED BY <1>44, <1>7, <2>1, <2>2, <1>45, ThenSet
<1>49. PICK p13 : p13 = p12 \o Make("cb")
  OBVIOUS
<1>50. PICK l8 : l8 =
      {<<"w", all>>, <<"partials", n>>, <<"x", ne0>>, <<"y", rows>>, <<"dummy", 1>>, <<"pool_p",
       0>>, <<"pool_r", 0>>, <<"cb", 0>>}
  OBVIOUS
<1>51. PICK g8 : g8 = {"w", "partials", "x", "y", "dummy", "pool_p", "pool_r", "cb"}
  OBVIOUS
<1>52. Lives({}, {}, p13, l8, g8)
  <2>1. Fresh("cb", l7)
    BY <1>46 DEF Fresh
  <2>2. l8 = l7 \cup {<<"cb", 0>>} /\ g8 = g7 \cup {"cb"}
    BY <1>46, <1>50, <1>47, <1>51
  <2>3. QED BY <1>48, <1>7, <2>1, <2>2, <1>49, ThenObject
<1>53. PICK partial : partial = Dispatch("pq2_partial", base, "pool_p",
                                    <<<<"w", all>>, <<"x", ne0>>>>, {<<"partials", m>>})
  OBVIOUS
<1>54. FitsK(partial, l8)
  <2>1. Named("pool_p", l8)
    <3>1. <<"pool_p", 0>> \in l8
      BY <1>50
    <3>2. QED BY <3>1, NamedIs
  <2>2. Named("w", l8)
    <3>1. <<"w", all>> \in l8
      BY <1>50
    <3>2. QED BY <3>1, NamedIs
  <2>3. Named("x", l8)
    <3>1. <<"x", ne0>> \in l8
      BY <1>50
    <3>2. QED BY <3>1, NamedIs
  <2>4. Room("partials", m, l8)
    <3>1. <<"partials", n>> \in l8
      BY <1>50
    <3>2. QED BY <1>7, <1>5, <3>1, RoomIs
  <2>5. QED BY <1>53, <2>1, <2>2, <2>3, <2>4, FitsTwo
<1>55. PICK sum : sum = Dispatch("pq2_rowsum", Blocks(ne0), "pool_r", <<<<"partials", n>>>>, {<<"y", r>>})
  OBVIOUS
<1>56. FitsK(sum, l8)
  <2>1. Named("pool_r", l8)
    <3>1. <<"pool_r", 0>> \in l8
      BY <1>50
    <3>2. QED BY <3>1, NamedIs
  <2>2. Named("partials", l8)
    <3>1. <<"partials", n>> \in l8
      BY <1>50
    <3>2. QED BY <3>1, NamedIs
  <2>3. Room("y", r, l8)
    <3>1. <<"y", rows>> \in l8
      BY <1>50
    <3>2. QED BY <1>7, <1>5, <3>1, RoomIs
  <2>4. QED BY <1>55, <2>1, <2>2, <2>3, FitsOne
<1>57. PICK between : between = Barrier
  OBVIOUS
<1>58. FitsK(between, l8)
  BY <1>57, FitsBarrier
<1>59. PICK X : X = {partial, sum, between}
  OBVIOUS
<1>60. PICK pass : pass = TwoPass(partial, sum)
  OBVIOUS
<1>61. pass \in Seq(X)
  BY <1>57, <1>59, <1>60 DEF TwoPass
<1>62. PICK passes : passes = [i \in 1..iters |-> pass]
  OBVIOUS
<1>63. PICK cs : cs = Flat(passes)
  OBVIOUS
<1>64. cs \in Seq(X) /\ \A d \in X : FitsK(d, l8)
  <2>1. PICK Y : Y = Seq(X)
    OBVIOUS
  <2>2. passes \in [1..iters -> Y]
    BY <1>62, <1>61, <2>1
  <2>3. passes \in Seq(Y)
    BY <2>2
  <2>4. cs \in Seq(X)
    BY <1>63, <2>1, <2>3, JoinedIsSeq
  <2>5. QED BY <1>54, <1>56, <1>58, <1>59, <2>4
<1>65. PICK p14 : p14 = p13 \o Launch(cs)
  OBVIOUS
<1>66. PICK l9 : l9 =
      {<<"w", all>>, <<"partials", n>>, <<"x", ne0>>, <<"y", rows>>, <<"dummy", 1>>, <<"pool_p",
       0>>, <<"pool_r", 0>>, <<"cb", 0>>, <<"fence", 0>>}
  OBVIOUS
<1>67. PICK g9 : g9 = {"w", "partials", "x", "y", "dummy", "pool_p", "pool_r", "cb", "fence"}
  OBVIOUS
<1>68. Lives({}, {}, p14, l9, g9)
  <2>1. \E k \in l8 : k[1] = "cb"
    <3>1. <<"cb", 0>> \in l8
      BY <1>50
    <3>2. QED BY <3>1, NamedIs DEF Named
  <2>2. Fresh("fence", l8)
    BY <1>50 DEF Fresh
  <2>3. l9 = l8 \cup {<<"fence", 0>>} /\ g9 = g8 \cup {"fence"}
    BY <1>50, <1>66, <1>51, <1>67
  <2>4. QED BY <1>52, <1>64, <2>1, <2>2, <2>3, <1>65, ThenLaunch
<1>69. PICK p15 : p15 = p14 \o Free({"fence", "cb", "pool_p", "pool_r"})
  OBVIOUS
<1>70. PICK l10 : l10 = {<<"w", all>>, <<"partials", n>>, <<"x", ne0>>, <<"y", rows>>, <<"dummy", 1>>}
  OBVIOUS
<1>71. PICK g10 : g10 = {"w", "partials", "x", "y", "dummy"}
  OBVIOUS
<1>72. Lives({}, {}, p15, l10, g10)
  <2>1. /\ l10 \subseteq l9 /\ (\A k \in l10 : k[1] \notin {"fence", "cb", "pool_p", "pool_r"})
        /\ g9 \subseteq g10 \cup {"fence", "cb", "pool_p", "pool_r"}
    BY <1>66, <1>70, <1>67, <1>71
  <2>2. {"fence", "cb", "pool_p", "pool_r"} \cap (CacheObjects \cup {"device"}) = {}
    BY DEF CacheObjects
  <2>3. QED BY <1>68, <2>1, <2>2, <1>69, ThenFree
<1>73. PICK p16 : p16 = p15 \o CopyOut("y", rows)
  OBVIOUS
<1>74. Lives({}, {}, p16, l10, g10)
  <2>1. QED BY <1>72, <1>73, ThenRead
<1>75. PICK p17 : p17 = p16 \o Free({"x", "y", "dummy", "w", "partials"})
  OBVIOUS
<1>76. PICK l11 : l11 = {}
  OBVIOUS
<1>77. PICK g11 : g11 = {}
  OBVIOUS
<1>78. Lives({}, {}, p17, l11, g11)
  <2>1. /\ l11 \subseteq l10 /\ (\A k \in l11 : k[1] \notin {"x", "y", "dummy", "w", "partials"})
        /\ g10 \subseteq g11 \cup {"x", "y", "dummy", "w", "partials"}
    BY <1>70, <1>76, <1>71, <1>77
  <2>2. {"x", "y", "dummy", "w", "partials"} \cap (CacheObjects \cup {"device"}) = {}
    BY DEF CacheObjects
  <2>3. QED BY <1>74, <2>1, <2>2, <1>75, ThenFree
<1>79. MatvecBenchAtom(ne0, base, rows, iters) = p17
  BY <1>11, <1>13, <1>15, <1>19, <1>21, <1>25, <1>29, <1>33, <1>37, <1>39, <1>41, <1>45, <1>49,
     <1>53, <1>55, <1>60, <1>62, <1>63, <1>65, <1>69, <1>73, <1>75, <1>1, <1>2, <1>3, <1>4 DEF
     MatvecBenchAtom
<1>80. QED BY <1>78, <1>79, <1>76, <1>77

\* matvec_batch_n.
LEMMA MatvecBatchNLives ==
  ASSUME NEW ne0 \in Nat, NEW base \in Nat, NEW rows \in Nat, NEW cols \in Nat
  PROVE  Lives({}, {}, MatvecBatchN(ne0, base, rows, cols), {}, {})
<1>1. PICK all : all = base + rows
  OBVIOUS
<1>2. PICK n : n = Partials(ne0, rows)
  OBVIOUS
<1>3. PICK ys : ys = AtLeastOne(cols * rows)
  OBVIOUS
<1>4. PICK m : m = (IF LanesFor(n) < n THEN LanesFor(n) ELSE n) * cols
  OBVIOUS
<1>5. PICK l : l = n * cols
  OBVIOUS
<1>6. PICK xs : xs = AtLeastOne(cols * ne0)
  OBVIOUS
<1>7. /\ all \in Nat /\ 0 \in Nat /\ 1 \in Nat /\ ys \in Nat /\ ys <= ys
        /\ m \in Nat /\ l \in Nat /\ m <= l /\ xs \in Nat
  <2>1. n \in Nat
    BY <1>2, PartialsNat
  <2>2. PICK g : g = IF LanesFor(n) < n THEN LanesFor(n) ELSE n
    OBVIOUS
  <2>3. g \in Nat /\ g <= n
    BY <2>1, <2>2, LanesNat DEF LanesFor
  <2>4. g * cols \in Nat /\ n * cols \in Nat /\ g * cols <= n * cols
    BY <2>1, <2>3, TimesGrows
  <2>5. cols * ne0 \in Nat /\ cols * rows \in Nat
    OBVIOUS
  <2>6. QED BY <1>1, <1>3, <1>4, <1>5, <1>6, <2>2, <2>4, <2>5 DEF AtLeastOne
<1>8. Len(Floats("w", all)) \in Nat
  BY <1>7, FloatsLen
<1>9. /\ Plain("pq2_partial_n") /\ "pq2_partial_n" \notin Fences
     /\ Plain("pq2_rowsum_n") /\ "pq2_rowsum_n" \notin Fences
     /\ Plain("w") /\ "w" \notin Fences
     /\ Plain("partials") /\ "partials" \notin Fences
     /\ Plain("x") /\ "x" \notin Fences
     /\ Plain("y") /\ "y" \notin Fences
     /\ Plain("dummy") /\ "dummy" \notin Fences
     /\ Plain("pool_p") /\ "pool_p" \notin Fences
     /\ Plain("params") /\ "params" \notin Fences
     /\ Plain("pool_r") /\ "pool_r" \notin Fences
     /\ Plain("cb") /\ "cb" \notin Fences
  BY AllPlain DEF Names, DeviceObjects
<1>10. PICK l0 : l0 = {}
  OBVIOUS
<1>11. PICK g0 : g0 = {}
  OBVIOUS
<1>12. Lives({}, {}, <<>>, l0, g0)
  BY <1>10, <1>11, LivesNone
<1>13. PICK p1 : p1 = Pipeline("pq2_partial_n")
  OBVIOUS
<1>14. Lives({}, {}, p1, l0, g0)
  <2>1. Fresh("pq2_partial_n", l0)
    BY <1>10 DEF Fresh
  <2>2. Lives({}, {}, <<>> \o Pipeline("pq2_partial_n"), l0, g0)
    BY <1>12, <1>9, <1>7, <2>1, ThenEnsure DEF Pipeline
  <2>3. IsSeq(Pipeline("pq2_partial_n"))
    BY OneIsSeq DEF Pipeline, Ensure
  <2>4. QED BY <1>13, <2>2, <2>3, Lone
<1>15. PICK p2 : p2 = p1 \o Pipeline("pq2_rowsum_n")
  OBVIOUS
<1>16. Lives({}, {}, p2, l0, g0)
  <2>1. Fresh("pq2_rowsum_n", l0)
    BY <1>10 DEF Fresh
  <2>2. QED BY <1>14, <1>9, <1>7, <2>1, <1>15, ThenEnsure DEF Pipeline
<1>17. PICK p3 : p3 = p2 \o Buffer("w", all)
  OBVIOUS
<1>18. PICK l1 : l1 = {<<"w", all>>}
  OBVIOUS
<1>19. PICK g1 : g1 = {"w"}
  OBVIOUS
<1>20. Lives({}, {}, p3, l1, g1)
  <2>1. Fresh("w", l0)
    BY <1>10 DEF Fresh
  <2>2. l1 = l0 \cup {<<"w", all>>} /\ g1 = g0 \cup {"w"}
    BY <1>10, <1>18, <1>11, <1>19
  <2>3. QED BY <1>16, <1>9, <1>7, <2>1, <2>2, <1>17, ThenMake
<1>21. PICK p4 : p4 = p3 \o StageUpload("w", Floats("w", all), all)
  OBVIOUS
<1>22. Lives({}, {}, p4, l1, g1)
  <2>1. <<"w", all>> \in l1
    BY <1>18
  <2>2. Fresh("staging", l1) /\ Fresh("cb", l1) /\ Fresh("fence", l1)
    BY <1>18 DEF Fresh
  <2>3. QED BY <1>20, <1>9, <1>7, <1>8, <2>1, <2>2, <1>21, ThenUpload
<1>23. PICK p5 : p5 = p4 \o Buffer("partials", l)
  OBVIOUS
<1>24. PICK l2 : l2 = {<<"w", all>>, <<"partials", l>>}
  OBVIOUS
<1>25. PICK g2 : g2 = {"w", "partials"}
  OBVIOUS
<1>26. Lives({}, {}, p5, l2, g2)
  <2>1. Fresh("partials", l1)
    BY <1>18 DEF Fresh
  <2>2. l2 = l1 \cup {<<"partials", l>>} /\ g2 = g1 \cup {"partials"}
    BY <1>18, <1>24, <1>19, <1>25
  <2>3. QED BY <1>22, <1>9, <1>7, <2>1, <2>2, <1>23, ThenMake
<1>27. PICK p6 : p6 = p5 \o Buffer("x", xs)
  OBVIOUS
<1>28. PICK l3 : l3 = {<<"w", all>>, <<"partials", l>>, <<"x", xs>>}
  OBVIOUS
<1>29. PICK g3 : g3 = {"w", "partials", "x"}
  OBVIOUS
<1>30. Lives({}, {}, p6, l3, g3)
  <2>1. Fresh("x", l2)
    BY <1>24 DEF Fresh
  <2>2. l3 = l2 \cup {<<"x", xs>>} /\ g3 = g2 \cup {"x"}
    BY <1>24, <1>28, <1>25, <1>29
  <2>3. QED BY <1>26, <1>9, <1>7, <2>1, <2>2, <1>27, ThenMake
<1>31. PICK p7 : p7 = p6 \o Buffer("y", ys)
  OBVIOUS
<1>32. PICK l4 : l4 = {<<"w", all>>, <<"partials", l>>, <<"x", xs>>, <<"y", ys>>}
  OBVIOUS
<1>33. PICK g4 : g4 = {"w", "partials", "x", "y"}
  OBVIOUS
<1>34. Lives({}, {}, p7, l4, g4)
  <2>1. Fresh("y", l3)
    BY <1>28 DEF Fresh
  <2>2. l4 = l3 \cup {<<"y", ys>>} /\ g4 = g3 \cup {"y"}
    BY <1>28, <1>32, <1>29, <1>33
  <2>3. QED BY <1>30, <1>9, <1>7, <2>1, <2>2, <1>31, ThenMake
<1>35. PICK p8 : p8 = p7 \o Buffer("dummy", 1)
  OBVIOUS
<1>36. PICK l5 : l5 = {<<"w", all>>, <<"partials", l>>, <<"x", xs>>, <<"y", ys>>, <<"dummy", 1>>}
  OBVIOUS
<1>37. PICK g5 : g5 = {"w", "partials", "x", "y", "dummy"}
  OBVIOUS
<1>38. Lives({}, {}, p8, l5, g5)
  <2>1. Fresh("dummy", l4)
    BY <1>32 DEF Fresh
  <2>2. l5 = l4 \cup {<<"dummy", 1>>} /\ g5 = g4 \cup {"dummy"}
    BY <1>32, <1>36, <1>33, <1>37
  <2>3. QED BY <1>34, <1>9, <1>7, <2>1, <2>2, <1>35, ThenMake
<1>39. PICK p9 : p9 = p8 \o Put("x", Floats("x", cols * ne0))
  OBVIOUS
<1>40. Lives({}, {}, p9, l5, g5)
  <2>1. QED BY <1>38, <1>9, <1>39, ThenPut
<1>41. PICK p10 : p10 = p9 \o Put("dummy", Zeros(1))
  OBVIOUS
<1>42. Lives({}, {}, p10, l5, g5)
  <2>1. QED BY <1>40, <1>9, <1>41, ThenPut
<1>43. PICK p11 : p11 = p10 \o MakeSet("pool_p")
  OBVIOUS
<1>44. PICK l6 : l6 =
      {<<"w", all>>, <<"partials", l>>, <<"x", xs>>, <<"y", ys>>, <<"dummy", 1>>, <<"pool_p", 0>>}
  OBVIOUS
<1>45. PICK g6 : g6 = {"w", "partials", "x", "y", "dummy", "pool_p"}
  OBVIOUS
<1>46. Lives({}, {}, p11, l6, g6)
  <2>1. Fresh("pool_p", l5) /\ Fresh("params", l5)
    BY <1>36 DEF Fresh
  <2>2. l6 = l5 \cup {<<"pool_p", 0>>} /\ g6 = g5 \cup {"pool_p"}
    BY <1>36, <1>44, <1>37, <1>45
  <2>3. QED BY <1>42, <1>9, <2>1, <2>2, <1>43, ThenSet
<1>47. PICK p12 : p12 = p11 \o MakeSet("pool_r")
  OBVIOUS
<1>48. PICK l7 : l7 =
      {<<"w", all>>, <<"partials", l>>, <<"x", xs>>, <<"y", ys>>, <<"dummy", 1>>, <<"pool_p", 0>>,
       <<"pool_r", 0>>}
  OBVIOUS
<1>49. PICK g7 : g7 = {"w", "partials", "x", "y", "dummy", "pool_p", "pool_r"}
  OBVIOUS
<1>50. Lives({}, {}, p12, l7, g7)
  <2>1. Fresh("pool_r", l6) /\ Fresh("params", l6)
    BY <1>44 DEF Fresh
  <2>2. l7 = l6 \cup {<<"pool_r", 0>>} /\ g7 = g6 \cup {"pool_r"}
    BY <1>44, <1>48, <1>45, <1>49
  <2>3. QED BY <1>46, <1>9, <2>1, <2>2, <1>47, ThenSet
<1>51. PICK p13 : p13 = p12 \o Make("cb")
  OBVIOUS
<1>52. PICK l8 : l8 =
      {<<"w", all>>, <<"partials", l>>, <<"x", xs>>, <<"y", ys>>, <<"dummy", 1>>, <<"pool_p", 0>>,
       <<"pool_r", 0>>, <<"cb", 0>>}
  OBVIOUS
<1>53. PICK g8 : g8 = {"w", "partials", "x", "y", "dummy", "pool_p", "pool_r", "cb"}
  OBVIOUS
<1>54. Lives({}, {}, p13, l8, g8)
  <2>1. Fresh("cb", l7)
    BY <1>48 DEF Fresh
  <2>2. l8 = l7 \cup {<<"cb", 0>>} /\ g8 = g7 \cup {"cb"}
    BY <1>48, <1>52, <1>49, <1>53
  <2>3. QED BY <1>50, <1>9, <2>1, <2>2, <1>51, ThenObject
<1>55. PICK partial : partial = Dispatch("pq2_partial_n", base, "pool_p",
                                    <<<<"w", all>>, <<"x", cols * ne0>>>>, {<<"partials", m>>})
  OBVIOUS
<1>56. FitsK(partial, l8)
  <2>1. Named("pool_p", l8)
    <3>1. <<"pool_p", 0>> \in l8
      BY <1>52
    <3>2. QED BY <3>1, NamedIs
  <2>2. Named("w", l8)
    <3>1. <<"w", all>> \in l8
      BY <1>52
    <3>2. QED BY <3>1, NamedIs
  <2>3. Named("x", l8)
    <3>1. <<"x", xs>> \in l8
      BY <1>52
    <3>2. QED BY <3>1, NamedIs
  <2>4. Room("partials", m, l8)
    <3>1. <<"partials", l>> \in l8
      BY <1>52
    <3>2. QED BY <1>9, <1>7, <3>1, RoomIs
  <2>5. QED BY <1>55, <2>1, <2>2, <2>3, <2>4, FitsTwo
<1>57. PICK sum : sum = Dispatch("pq2_rowsum_n", Blocks(ne0), "pool_r", <<<<"partials", l>>>>, {<<"y", ys>>})
  OBVIOUS
<1>58. FitsK(sum, l8)
  <2>1. Named("pool_r", l8)
    <3>1. <<"pool_r", 0>> \in l8
      BY <1>52
    <3>2. QED BY <3>1, NamedIs
  <2>2. Named("partials", l8)
    <3>1. <<"partials", l>> \in l8
      BY <1>52
    <3>2. QED BY <3>1, NamedIs
  <2>3. Room("y", ys, l8)
    <3>1. <<"y", ys>> \in l8
      BY <1>52
    <3>2. QED BY <1>9, <1>7, <3>1, RoomIs
  <2>4. QED BY <1>57, <2>1, <2>2, <2>3, FitsOne
<1>59. PICK between : between = Barrier
  OBVIOUS
<1>60. FitsK(between, l8)
  BY <1>59, FitsBarrier
<1>61. PICK X : X = {partial, sum, between}
  OBVIOUS
<1>62. PICK pass : pass = TwoPass(partial, sum)
  OBVIOUS
<1>63. pass \in Seq(X)
  BY <1>59, <1>61, <1>62 DEF TwoPass
<1>64. \A d \in X : FitsK(d, l8)
  BY <1>56, <1>58, <1>60, <1>61
<1>65. PICK p14 : p14 = p13 \o Launch(pass)
  OBVIOUS
<1>66. PICK l9 : l9 =
      {<<"w", all>>, <<"partials", l>>, <<"x", xs>>, <<"y", ys>>, <<"dummy", 1>>, <<"pool_p", 0>>,
       <<"pool_r", 0>>, <<"cb", 0>>, <<"fence", 0>>}
  OBVIOUS
<1>67. PICK g9 : g9 = {"w", "partials", "x", "y", "dummy", "pool_p", "pool_r", "cb", "fence"}
  OBVIOUS
<1>68. Lives({}, {}, p14, l9, g9)
  <2>1. \E k \in l8 : k[1] = "cb"
    <3>1. <<"cb", 0>> \in l8
      BY <1>52
    <3>2. QED BY <3>1, NamedIs DEF Named
  <2>2. Fresh("fence", l8)
    BY <1>52 DEF Fresh
  <2>3. l9 = l8 \cup {<<"fence", 0>>} /\ g9 = g8 \cup {"fence"}
    BY <1>52, <1>66, <1>53, <1>67
  <2>4. QED BY <1>54, <1>63, <1>64, <2>1, <2>2, <2>3, <1>65, ThenLaunch
<1>69. PICK p15 : p15 = p14 \o Free({"fence", "cb", "pool_p", "pool_r"})
  OBVIOUS
<1>70. PICK l10 : l10 = {<<"w", all>>, <<"partials", l>>, <<"x", xs>>, <<"y", ys>>, <<"dummy", 1>>}
  OBVIOUS
<1>71. PICK g10 : g10 = {"w", "partials", "x", "y", "dummy"}
  OBVIOUS
<1>72. Lives({}, {}, p15, l10, g10)
  <2>1. /\ l10 \subseteq l9 /\ (\A k \in l10 : k[1] \notin {"fence", "cb", "pool_p", "pool_r"})
        /\ g9 \subseteq g10 \cup {"fence", "cb", "pool_p", "pool_r"}
    BY <1>66, <1>70, <1>67, <1>71
  <2>2. {"fence", "cb", "pool_p", "pool_r"} \cap (CacheObjects \cup {"device"}) = {}
    BY DEF CacheObjects
  <2>3. QED BY <1>68, <2>1, <2>2, <1>69, ThenFree
<1>73. PICK p16 : p16 = p15 \o CopyOut("y", ys)
  OBVIOUS
<1>74. Lives({}, {}, p16, l10, g10)
  <2>1. QED BY <1>72, <1>73, ThenRead
<1>75. PICK p17 : p17 = p16 \o Free({"x", "y", "dummy", "w", "partials"})
  OBVIOUS
<1>76. PICK l11 : l11 = {}
  OBVIOUS
<1>77. PICK g11 : g11 = {}
  OBVIOUS
<1>78. Lives({}, {}, p17, l11, g11)
  <2>1. /\ l11 \subseteq l10 /\ (\A k \in l11 : k[1] \notin {"x", "y", "dummy", "w", "partials"})
        /\ g10 \subseteq g11 \cup {"x", "y", "dummy", "w", "partials"}
    BY <1>70, <1>76, <1>71, <1>77
  <2>2. {"x", "y", "dummy", "w", "partials"} \cap (CacheObjects \cup {"device"}) = {}
    BY DEF CacheObjects
  <2>3. QED BY <1>74, <2>1, <2>2, <1>75, ThenFree
<1>79. MatvecBatchN(ne0, base, rows, cols) = p17
  BY <1>13, <1>15, <1>17, <1>21, <1>23, <1>27, <1>31, <1>35, <1>39, <1>41, <1>43, <1>47, <1>51,
     <1>55, <1>57, <1>62, <1>65, <1>69, <1>73, <1>75, <1>1, <1>2, <1>3, <1>4, <1>5, <1>6 DEF
     MatvecBatchN
<1>80. QED BY <1>78, <1>79, <1>76, <1>77

\* open.
LEMMA OpenLives ==
  Lives({}, {}, Open, {<<"instance", 0>>, <<"device", 0>>, <<"command_pool", 0>>, <<"desc_layout", 0>>, <<"pipeline_layout", 0>>, <<"pipeline", 0>>}, {})
<1>1. 0 \in Nat
  OBVIOUS
<1>2. /\ Plain("instance") /\ "instance" \notin Fences
     /\ Plain("device") /\ "device" \notin Fences
     /\ Plain("command_pool") /\ "command_pool" \notin Fences
     /\ Plain("desc_layout") /\ "desc_layout" \notin Fences
     /\ Plain("pipeline_layout") /\ "pipeline_layout" \notin Fences
     /\ Plain("module") /\ "module" \notin Fences
     /\ Plain("pipeline") /\ "pipeline" \notin Fences
  BY AllPlain DEF Names, DeviceObjects
<1>3. PICK l0 : l0 = {}
  OBVIOUS
<1>4. PICK g0 : g0 = {}
  OBVIOUS
<1>5. Lives({}, {}, <<>>, l0, g0)
  BY <1>3, <1>4, LivesNone
<1>6. PICK p1 : p1 = Make("instance")
  OBVIOUS
<1>7. PICK l1 : l1 = {<<"instance", 0>>}
  OBVIOUS
<1>8. PICK g1 : g1 = {"instance"}
  OBVIOUS
<1>9. Lives({}, {}, p1, l1, g1)
  <2>1. Fresh("instance", l0)
    BY <1>3 DEF Fresh
  <2>2. l1 = l0 \cup {<<"instance", 0>>} /\ g1 = g0 \cup {"instance"}
    BY <1>3, <1>7, <1>4, <1>8
  <2>3. Lives({}, {}, <<>> \o Make("instance"), l1, g1)
    BY <1>5, <1>2, <2>1, <2>2, ThenObject
  <2>4. IsSeq(Make("instance"))
    BY OneIsSeq DEF Make
  <2>5. QED BY <1>6, <2>3, <2>4, Lone
<1>10. PICK p2 : p2 = p1 \o Make("device")
  OBVIOUS
<1>11. PICK l2 : l2 = {<<"instance", 0>>, <<"device", 0>>}
  OBVIOUS
<1>12. PICK g2 : g2 = {"instance", "device"}
  OBVIOUS
<1>13. Lives({}, {}, p2, l2, g2)
  <2>1. Fresh("device", l1)
    BY <1>7 DEF Fresh
  <2>2. l2 = l1 \cup {<<"device", 0>>} /\ g2 = g1 \cup {"device"}
    BY <1>7, <1>11, <1>8, <1>12
  <2>3. QED BY <1>9, <1>2, <2>1, <2>2, <1>10, ThenObject
<1>14. PICK p3 : p3 = p2 \o Make("command_pool")
  OBVIOUS
<1>15. PICK l3 : l3 = {<<"instance", 0>>, <<"device", 0>>, <<"command_pool", 0>>}
  OBVIOUS
<1>16. PICK g3 : g3 = {"instance", "device", "command_pool"}
  OBVIOUS
<1>17. Lives({}, {}, p3, l3, g3)
  <2>1. Fresh("command_pool", l2)
    BY <1>11 DEF Fresh
  <2>2. l3 = l2 \cup {<<"command_pool", 0>>} /\ g3 = g2 \cup {"command_pool"}
    BY <1>11, <1>15, <1>12, <1>16
  <2>3. QED BY <1>13, <1>2, <2>1, <2>2, <1>14, ThenObject
<1>18. PICK p4 : p4 = p3 \o Make("desc_layout")
  OBVIOUS
<1>19. PICK l4 : l4 = {<<"instance", 0>>, <<"device", 0>>, <<"command_pool", 0>>, <<"desc_layout", 0>>}
  OBVIOUS
<1>20. PICK g4 : g4 = {"instance", "device", "command_pool", "desc_layout"}
  OBVIOUS
<1>21. Lives({}, {}, p4, l4, g4)
  <2>1. Fresh("desc_layout", l3)
    BY <1>15 DEF Fresh
  <2>2. l4 = l3 \cup {<<"desc_layout", 0>>} /\ g4 = g3 \cup {"desc_layout"}
    BY <1>15, <1>19, <1>16, <1>20
  <2>3. QED BY <1>17, <1>2, <2>1, <2>2, <1>18, ThenObject
<1>22. PICK p5 : p5 = p4 \o Make("pipeline_layout")
  OBVIOUS
<1>23. PICK l5 : l5 =
      {<<"instance", 0>>, <<"device", 0>>, <<"command_pool", 0>>, <<"desc_layout", 0>>,
       <<"pipeline_layout", 0>>}
  OBVIOUS
<1>24. PICK g5 : g5 = {"instance", "device", "command_pool", "desc_layout", "pipeline_layout"}
  OBVIOUS
<1>25. Lives({}, {}, p5, l5, g5)
  <2>1. Fresh("pipeline_layout", l4)
    BY <1>19 DEF Fresh
  <2>2. l5 = l4 \cup {<<"pipeline_layout", 0>>} /\ g5 = g4 \cup {"pipeline_layout"}
    BY <1>19, <1>23, <1>20, <1>24
  <2>3. QED BY <1>21, <1>2, <2>1, <2>2, <1>22, ThenObject
<1>26. PICK p6 : p6 = p5 \o Make("module")
  OBVIOUS
<1>27. PICK l6 : l6 =
      {<<"instance", 0>>, <<"device", 0>>, <<"command_pool", 0>>, <<"desc_layout", 0>>,
       <<"pipeline_layout", 0>>, <<"module", 0>>}
  OBVIOUS
<1>28. PICK g6 : g6 = {"instance", "device", "command_pool", "desc_layout", "pipeline_layout", "module"}
  OBVIOUS
<1>29. Lives({}, {}, p6, l6, g6)
  <2>1. Fresh("module", l5)
    BY <1>23 DEF Fresh
  <2>2. l6 = l5 \cup {<<"module", 0>>} /\ g6 = g5 \cup {"module"}
    BY <1>23, <1>27, <1>24, <1>28
  <2>3. QED BY <1>25, <1>2, <2>1, <2>2, <1>26, ThenObject
<1>30. PICK p7 : p7 = p6 \o Make("pipeline")
  OBVIOUS
<1>31. PICK l7 : l7 =
      {<<"instance", 0>>, <<"device", 0>>, <<"command_pool", 0>>, <<"desc_layout", 0>>,
       <<"pipeline_layout", 0>>, <<"module", 0>>, <<"pipeline", 0>>}
  OBVIOUS
<1>32. PICK g7 : g7 =
      {"instance", "device", "command_pool", "desc_layout", "pipeline_layout", "module",
       "pipeline"}
  OBVIOUS
<1>33. Lives({}, {}, p7, l7, g7)
  <2>1. Fresh("pipeline", l6)
    BY <1>27 DEF Fresh
  <2>2. l7 = l6 \cup {<<"pipeline", 0>>} /\ g7 = g6 \cup {"pipeline"}
    BY <1>27, <1>31, <1>28, <1>32
  <2>3. QED BY <1>29, <1>2, <2>1, <2>2, <1>30, ThenObject
<1>34. PICK p8 : p8 = p7 \o Free({"module"})
  OBVIOUS
<1>35. PICK l8 : l8 =
      {<<"instance", 0>>, <<"device", 0>>, <<"command_pool", 0>>, <<"desc_layout", 0>>,
       <<"pipeline_layout", 0>>, <<"pipeline", 0>>}
  OBVIOUS
<1>36. PICK g8 : g8 =
      {"instance", "device", "command_pool", "desc_layout", "pipeline_layout", "pipeline"}
  OBVIOUS
<1>37. Lives({}, {}, p8, l8, g8)
  <2>1. /\ l8 \subseteq l7 /\ (\A k \in l8 : k[1] \notin {"module"})
        /\ g7 \subseteq g8 \cup {"module"}
    BY <1>31, <1>35, <1>32, <1>36
  <2>2. {"module"} \cap (CacheObjects \cup {"device"}) = {}
    BY DEF CacheObjects
  <2>3. QED BY <1>33, <2>1, <2>2, <1>34, ThenFree
<1>38. PICK p9 : p9 = p8 \o Keep(DeviceObjects)
  OBVIOUS
<1>39. PICK g9 : g9 = {}
  OBVIOUS
<1>40. Lives({}, {}, p9, l8, g9)
  <2>1. \A o \in DeviceObjects : \E k \in l8 : k[1] = o
    <3>1. \A o \in DeviceObjects : <<o, 0>> \in l8
      BY <1>35 DEF DeviceObjects
    <3>2. \A o \in DeviceObjects : Named(o, l8)
      BY <3>1, NamedIs
    <3>3. QED BY <3>2 DEF Named
  <2>2. \A t \in Tensors \cap DeviceObjects : <<t, Shape[t].rows>> \in l8
    BY TensorsAreNamedApart DEF HostObjects
  <2>3. g8 \subseteq g9 \cup DeviceObjects
    BY <1>36, <1>39 DEF DeviceObjects
  <2>4. QED BY <1>37, <2>1, <2>2, <2>3, <1>38, ThenKeep
<1>41. Open = p9
  BY <1>6, <1>10, <1>14, <1>18, <1>22, <1>26, <1>30, <1>34, <1>38 DEF Open
<1>42. QED BY <1>40, <1>41, <1>35, <1>39

-----------------------------------------------------------------------------
\* The functions with the arguments they refuse.
LEMMA RmsNormLives == ASSUME NEW n \in Nat PROVE Lives({}, {}, RmsNorm(n), {}, {})
<1>1. CASE n = 0
  <2>1. RmsNorm(n) = Reject
    BY <1>1 DEF RmsNorm
  <2>2. QED BY <2>1, LivesReject
<1>2. QED BY <1>1, RmsNormSome

\* elem_* and its likes, of nothing too.
LEMMA ElemLives == ASSUME NEW n \in Nat, NEW second PROVE Lives({}, {}, Elem(n, second), {}, {})
<1>1. CASE n = 0
  <2>1. Elem(n, second) = <<>>
    BY <1>1 DEF Elem
  <2>2. QED BY <2>1, LivesNone
<1>2. QED BY <1>1, ElemSome

\* norm_rows: a row has a length.
LEMMA NormRowsLives ==
  ASSUME NEW n \in Nat, NEW rowLen \in Nat, rowLen > 0, NEW rms
  PROVE  Lives({}, {}, NormRows(n, rowLen, rms), {}, {})
<1>1. CASE n = 0 \/ n % rowLen # 0
  <2>1. NormRows(n, rowLen, rms) = Reject
    BY <1>1 DEF NormRows
  <2>2. QED BY <2>1, LivesReject
<1>2. QED BY <1>1, NormRowsSome

\* softmax_row.
LEMMA SoftmaxRowLives == ASSUME NEW n \in Nat PROVE Lives({}, {}, SoftmaxRow(n), {}, {})
<1>1. CASE n = 0
  <2>1. SoftmaxRow(n) = Reject
    BY <1>1 DEF SoftmaxRow
  <2>2. QED BY <2>1, LivesReject
<1>2. QED BY <1>1, SoftmaxRowSome

\* rope_imrope: a head has a length.
LEMMA RopeImropeLives ==
  ASSUME NEW n \in Nat, NEW hd \in Nat, hd > 0
  PROVE  Lives({}, {}, RopeImrope(n, hd), {}, {})
<1>1. CASE n = 0 \/ n % hd # 0
  <2>1. RopeImrope(n, hd) = Reject
    BY <1>1 DEF RopeImrope
  <2>2. QED BY <2>1, LivesReject
<1>2. QED BY <1>1, RopeImropeSome

\* gdn_step.
LEMMA GdnStepLives ==
  ASSUME NEW n \in Nat, NEW stateLen \in Nat, NEW insLen
  PROVE  Lives({}, {}, GdnStep(n, stateLen, insLen), {}, {})
<1>1. CASE n # insLen
  <2>1. GdnStep(n, stateLen, insLen) = Reject
    BY <1>1 DEF GdnStep
  <2>2. QED BY <2>1, LivesReject
<1>2. QED BY <1>1, GdnStepSome

\* The table of positions, refused when it is too long.
LEMMA UploadParamsLives == ASSUME NEW n PROVE Lives({}, {}, UploadParams(n), {}, {})
<1>1. Lives({}, {}, Params, {}, {})
  <2>1. Plain("params") /\ Fresh("params", {}) /\ ParamsMax \in Nat
    BY AllPlain, VulkanHostAssumption DEF Names, Fresh
  <2>2. Lives({}, {}, <<>> \o Params, {}, {})
    BY <2>1, LivesNone, ThenEnsure DEF Params
  <2>3. IsSeq(Params)
    BY OneIsSeq DEF Params, Ensure
  <2>4. QED BY <2>2, <2>3, Lone
<1>2. CASE n > ParamsMax
  <2>1. UploadParams(n) = Params \o Reject
    BY <1>2 DEF UploadParams
  <2>2. QED BY <1>1, <2>1, ThenReject
<1>3. CASE ~(n > ParamsMax)
  <2>1. UploadParams(n) = Params \o Put("params", Floats("table", n))
    BY <1>3 DEF UploadParams
  <2>2. "params" \notin Fences
    BY DEF Fences
  <2>3. QED BY <1>1, <2>1, <2>2, ThenPut
<1>4. QED BY <1>2, <1>3

\* Uploads to a tensor's buffer and reads of it.
LEMMA UploadLives ==
  ASSUME NEW t \in Tensors, NEW n \in Nat
  PROVE  Lives({<<t, Shape[t].rows>>}, {}, StageUpload(t, Floats("new", n), Shape[t].rows), {}, {})
<1>1. PICK m : m = Shape[t].rows
  OBVIOUS
<1>2. PICK L : L = {<<t, m>>}
  OBVIOUS
<1>3. PICK data : data = Floats("new", n)
  OBVIOUS
<1>4. m \in Nat /\ Len(data) \in Nat
  BY <1>1, <1>3, FloatsLen, VulkanHostAssumption
<1>5. t \notin Fences \cup {"staging", "cb"}
  BY TensorsAreNamedApart DEF HostObjects, CacheObjects, Fences
<1>6. <<t, m>> \in L /\ Fresh("staging", L) /\ Fresh("cb", L) /\ Fresh("fence", L)
  BY <1>2, <1>5 DEF Fresh, Fences
<1>7. Lives(L, {}, StageUpload(t, data, m), L, {})
  BY <1>4, <1>5, <1>6, UploadRuns
<1>8. Lives(L, {}, StageUpload(t, data, m), {}, {})
  BY <1>7, LivesLess
<1>9. QED BY <1>1, <1>2, <1>3, <1>8

\* read_dev of a tensor there is.
LEMMA ReadLives ==
  ASSUME NEW t \in Tensors, NEW n \in Nat, NEW len, NEW m
  PROVE  Lives({<<t, m>>}, {}, ReadDev(t, n, len), {}, {})
<1>1. PICK L : L = {<<t, m>>}
  OBVIOUS
<1>2. t \notin Fences \cup {"staging", "cb"}
  BY TensorsAreNamedApart DEF HostObjects, CacheObjects, Fences
<1>3. Fresh("staging", L) /\ Fresh("cb", L) /\ Fresh("fence", L)
  BY <1>1, <1>2 DEF Fresh, Fences
<1>4. \E k \in L : k[1] = t
  <2>1. <<t, m>> \in L
    BY <1>1
  <2>2. QED BY <2>1, NamedIs DEF Named
<1>5. Lives(L, {}, ReadDev(t, n, len), L, {})
  BY <1>3, <1>4, ReadDevRuns
<1>6. Lives(L, {}, ReadDev(t, n, len), {}, {})
  BY <1>5, LivesLess
<1>7. QED BY <1>1, <1>6

\* A tensor is given a buffer of its own.
LEMMA LoadLives ==
  ASSUME NEW t \in Tensors, NEW L, Fresh(t, L),
         Fresh("staging", L), Fresh("cb", L), Fresh("fence", L)
  PROVE  Lives(L, {}, Load(t), L, {})
<1>1. PICK m : m = Shape[t].rows
  OBVIOUS
<1>2. PICK data : data = Floats(t, m)
  OBVIOUS
<1>3. m \in Nat /\ Len(data) \in Nat
  BY <1>1, <1>2, FloatsLen, VulkanHostAssumption
<1>4. t \notin Fences \cup {"staging", "cb"}
  BY TensorsAreNamedApart DEF HostObjects, CacheObjects, Fences
<1>5. PICK M : M = L \cup {<<t, m>>}
  OBVIOUS
<1>6. <<t, m>> \in M /\ Fresh("staging", M) /\ Fresh("cb", M) /\ Fresh("fence", M)
  BY <1>4, <1>5 DEF Fresh, Fences
<1>7. Lives(L, {}, Buffer(t, m), M, {t})
  <2>1. Lives(L, {}, <<>> \o Buffer(t, m), M, {} \cup {t})
    BY <1>1, <1>5, LivesNone, ThenTensor
  <2>2. IsSeq(Buffer(t, m))
    BY OneIsSeq DEF Buffer
  <2>3. Lives(L, {}, Buffer(t, m), M, {} \cup {t})
    BY <2>1, <2>2, Lone
  <2>4. {} \cup {t} = {t}
    OBVIOUS
  <2>5. QED BY <2>3, <2>4
<1>8. Lives(L, {}, Buffer(t, m) \o StageUpload(t, data, m), M, {t})
  BY <1>3, <1>4, <1>6, <1>7, ThenUpload
<1>9. Lives(L, {}, Buffer(t, m) \o StageUpload(t, data, m) \o Keep({t}), M, {})
  <2>1. \A o \in {t} : \E k \in M : k[1] = o
    <3>1. Named(t, M)
      BY <1>6, NamedIs
    <3>2. QED BY <3>1 DEF Named
  <2>2. \A o \in Tensors \cap {t} : <<o, Shape[o].rows>> \in M
    BY <1>1, <1>6
  <2>3. {t} \subseteq {} \cup {t}
    OBVIOUS
  <2>4. QED BY <1>8, <2>1, <2>2, <2>3, ThenKeep
<1>10. Load(t) = Buffer(t, m) \o StageUpload(t, data, m) \o Keep({t})
  BY <1>1, <1>2 DEF Load
<1>11. L \subseteq M
  BY <1>5
<1>12. QED BY <1>9, <1>10, <1>11, LivesLess

\* One tensor after the other.
LoadsOf(ts) == [i \in 1..Len(ts) |-> Load(ts[i])]

\* The tensors are loaded one after the other.
LEMMA LoadsLive ==
  ASSUME NEW ts \in Seq(Tensors), NEW L, \A t \in Tensors : Fresh(t, L),
         Fresh("staging", L), Fresh("cb", L), Fresh("fence", L)
  PROVE  Lives(L, {}, Flat(LoadsOf(ts)), L, {})
<1>1. PICK ls : ls = LoadsOf(ts)
  OBVIOUS
<1>2. Len(ts) \in Nat /\ Len(ls) = Len(ts) /\ \A i \in 1..Len(ts) : ls[i] = Load(ts[i])
  <2>1. ls = [i \in 1..Len(ts) |-> Load(ts[i])] /\ Len(ts) \in Nat
    BY <1>1 DEF LoadsOf
  <2>2. PICK Z : Z = {Load(ts[i]) : i \in 1..Len(ts)}
    OBVIOUS
  <2>3. ls \in Seq(Z) /\ Len(ls) = Len(ts)
    BY <2>1, <2>2
  <2>4. QED BY <2>1, <2>3
<1>3. Together(ls)[0] = <<>> /\ \A i \in 1..Len(ls) : Together(ls)[i] = Together(ls)[i - 1] \o ls[i]
  BY <1>2, TogetherIs
<1> DEFINE T == {i \in 0..Len(ts) : ~Lives(L, {}, Together(ls)[i], L, {})}
<1>4. ASSUME T # {} PROVE FALSE
  <2>1. PICK m \in T : \A k \in T : m <= k
    <3> HIDE DEF T
    <3>1. T \in SUBSET Nat
      BY <1>2 DEF T
    <3>2. QED BY <1>4, <3>1, LeastNat, Zenon
  <2>2. m \in 0..Len(ts) /\ ~Lives(L, {}, Together(ls)[m], L, {})
    BY <2>1, Zenon
  <2>3. m # 0
    <3>1. Lives(L, {}, <<>>, L, {})
      BY LivesNone
    <3>2. QED BY <1>3, <2>2, <3>1
  <2>4. m \in 1..Len(ts) /\ m - 1 \in 0..Len(ts)
    BY <1>2, <2>2, <2>3
  <2>5. m - 1 \notin T
    <3> HIDE DEF T
    <3>1. ~(m <= m - 1)
      BY <2>4
    <3>2. QED BY <2>1, <3>1, Zenon
  <2>6. Lives(L, {}, Together(ls)[m - 1], L, {})
    BY <2>4, <2>5, Zenon
  <2>7. Lives(L, {}, Load(ts[m]), L, {})
    <3>1. ts[m] \in Tensors
      BY <2>4
    <3>2. QED BY <3>1, LoadLives
  <2>8. Lives(L, {}, Together(ls)[m - 1] \o Load(ts[m]), L, {})
    BY <2>6, <2>7, LivesOn
  <2>9. Together(ls)[m] = Together(ls)[m - 1] \o Load(ts[m])
    BY <1>2, <1>3, <2>4
  <2>10. QED BY <2>2, <2>8, <2>9
<1>5. Len(ts) \in 0..Len(ts)
  BY <1>2
<1>6. Lives(L, {}, Together(ls)[Len(ts)], L, {})
  BY <1>4, <1>5, Zenon
<1>7. QED BY <1>1, <1>2, <1>6 DEF Flat

\* The tensors in some order.
LEMMA TensorsInOrder == SetToSeq(Tensors) \in Seq(Tensors)
<1>1. PICK n : n = Cardinality(Tensors)
  OBVIOUS
<1>2. n \in Nat /\ ExistsBijection(1..n, Tensors)
  BY <1>1, FS_CardinalityType, VulkanHostAssumption
<1>3. \E f \in [1..n -> Tensors] : IsInjective(f)
  BY <1>2 DEF ExistsBijection, Bijection, Injection
<1>4. SetToSeq(Tensors) = CHOOSE f \in [1..n -> Tensors] : IsInjective(f)
  BY <1>1 DEF SetToSeq
<1>5. SetToSeq(Tensors) \in [1..n -> Tensors]
  BY <1>3, <1>4
<1>6. QED BY <1>2, <1>5

\* Of some numbers one is the largest.
LEMMA LargestOf ==
  ASSUME NEW n \in Nat, n > 0, NEW h \in [1..n -> Nat]
  PROVE  \E j \in 1..n : \A i \in 1..n : h[i] <= h[j]
<1> DEFINE B(k) == \E j \in 1..k : \A i \in 1..k : h[i] <= h[j]
<1> DEFINE T == {k \in 1..n : ~B(k)}
<1>1. ASSUME T # {} PROVE FALSE
  <2>1. PICK m \in T : \A k \in T : m <= k
    <3> HIDE DEF T
    <3>1. T \in SUBSET Nat
      BY DEF T
    <3>2. QED BY <1>1, <3>1, LeastNat, Zenon
  <2>2. m \in 1..n
    BY <2>1, Zenon
  <2>3. ~B(m)
    BY <2>1, Zenon
  <2>4. m \in Nat /\ m >= 1 /\ m <= n
    BY <2>2
  <2>5. m # 1
    <3>1. ASSUME m = 1 PROVE FALSE
      <4>1. h[1] \in Nat
        BY <2>4
      <4>2. \A i \in 1..1 : h[i] <= h[1]
        BY <4>1
      <4>3. B(1)
        BY <4>2
      <4>4. QED BY <2>3, <3>1, <4>3
    <3>2. QED BY <3>1
  <2>6. m - 1 \in 1..n
    BY <2>4, <2>5
  <2>7. m - 1 \notin T
    <3> HIDE DEF T
    <3>1. ~(m <= m - 1)
      BY <2>4
    <3>2. QED BY <2>1, <3>1, Zenon
  <2>8. B(m - 1)
    BY <2>6, <2>7, Zenon
  <2>9. PICK j \in 1..(m - 1) : \A i \in 1..(m - 1) : h[i] <= h[j]
    BY <2>8
  <2> HIDE DEF T
  <2>10. j \in 1..m /\ m \in 1..m /\ h[j] \in Nat /\ h[m] \in Nat
    BY <2>4, <2>9
  <2>11. \A i \in 1..m : i = m \/ i \in 1..(m - 1)
    BY <2>4
  <2>12. \A i \in 1..m : h[i] \in Nat
    BY <2>4
  <2>13. CASE h[m] <= h[j]
    <3>1. \A i \in 1..m : h[i] <= h[j]
      BY <2>9, <2>11, <2>13
    <3>2. QED BY <2>3, <2>10, <3>1
  <2>14. CASE ~(h[m] <= h[j])
    <3>1. h[j] <= h[m] /\ h[m] <= h[m]
      BY <2>10, <2>14
    <3>2. \A i \in 1..m : h[i] <= h[m]
      BY <2>9, <2>10, <2>11, <2>12, <3>1
    <3>3. QED BY <2>3, <2>10, <3>2
  <2>15. QED BY <2>13, <2>14
<1>2. n \in 1..n
  OBVIOUS
<1>3. B(n)
  BY <1>1, <1>2, Zenon
<1>4. QED BY <1>3

\* The widest of the tensors is one of them.
LEMMA WidestIs ==
  ASSUME NEW f \in [Tensors -> Nat]
  PROVE  /\ Widest({f[t] : t \in Tensors}) \in Nat
         /\ \A t \in Tensors : f[t] <= Widest({f[t2] : t2 \in Tensors})
<1>1. PICK n : n = Cardinality(Tensors)
  OBVIOUS
<1>2. n \in Nat /\ ExistsBijection(1..n, Tensors)
  BY <1>1, FS_CardinalityType, VulkanHostAssumption
<1>3. PICK g \in [1..n -> Tensors] : \A t \in Tensors : \E i \in 1..n : g[i] = t
  BY <1>2 DEF ExistsBijection, Bijection, Surjection
<1>4. n > 0
  BY <1>2, <1>3, VulkanHostAssumption
<1>5. PICK h : h = [i \in 1..n |-> f[g[i]]]
  OBVIOUS
<1>6. h \in [1..n -> Nat] /\ \A i \in 1..n : h[i] = f[g[i]]
  BY <1>5, <1>3
<1>8. PICK j \in 1..n : \A i \in 1..n : h[i] <= h[j]
  BY <1>6, <1>2, <1>4, LargestOf
<1>9. PICK sizes : sizes = {f[t] : t \in Tensors}
  OBVIOUS
<1>10. h[j] \in sizes
  BY <1>6, <1>9
<1>11. \A size \in sizes : size <= h[j]
  <2>1. TAKE size \in sizes
  <2>2. PICK t \in Tensors : size = f[t]
    BY <1>9
  <2>3. PICK i \in 1..n : g[i] = t
    BY <1>3
  <2>4. QED BY <1>6, <1>8, <2>2, <2>3
<1>12. Widest(sizes) \in sizes /\ \A size \in sizes : size <= Widest(sizes)
  BY <1>10, <1>11 DEF Widest
<1>13. Widest(sizes) \in Nat
  BY <1>9, <1>12
<1>14. \A t \in Tensors : f[t] <= Widest(sizes)
  BY <1>9, <1>12
<1>15. {f[t2] : t2 \in Tensors} = sizes
  BY <1>9
<1>16. QED BY <1>9, <1>13, <1>14, <1>15

\* No tensor is wider or longer than the cache of enable_gpu.
LEMMA WidestTensors ==
  /\ MaxNe0 \in Nat /\ MaxRows \in Nat
  /\ \A t \in Tensors : Shape[t].ne0 <= MaxNe0
<1>1. PICK f : f = [t \in Tensors |-> Shape[t].ne0]
  OBVIOUS
<1>2. PICK g : g = [t \in Tensors |-> Shape[t].rows]
  OBVIOUS
<1>3. f \in [Tensors -> Nat] /\ g \in [Tensors -> Nat]
  BY <1>1, <1>2, VulkanHostAssumption
<1>4. {f[t] : t \in Tensors} = {Shape[t].ne0 : t \in Tensors}
  BY <1>1
<1>5. {g[t] : t \in Tensors} = {Shape[t].rows : t \in Tensors}
  BY <1>2
<1>6. MaxNe0 = Widest({f[t] : t \in Tensors}) /\ MaxRows = Widest({g[t] : t \in Tensors})
  BY <1>4, <1>5 DEF MaxNe0, MaxRows
<1>7. \A t \in Tensors : f[t] = Shape[t].ne0
  BY <1>1
<1>8. QED BY <1>3, <1>6, <1>7, WidestIs

\* More states may be gone through.
LEMMA LeadsMore ==
  ASSUME NEW C, NEW D, C \subseteq D, NEW s, NEW p, NEW t, Leads(C, s, p, t)
  PROVE  Leads(D, s, p, t)
<1>1. PICK R : <<s, p>> \in R /\ Closed(C, R, t)
  BY DEF Leads
<1>2. Closed(D, R, t)
  BY <1>1 DEF Closed
<1>3. QED BY <1>1, <1>2 DEF Leads

\* What is known where there is no cache, while it is made: its objects so far, with
\* their lengths.
Bare(s, K) ==
  /\ Sound(s) /\ s.busy = "none" /\ s.cached = <<>> /\ "device" \in s.own
  /\ DOMAIN s.len \subseteq s.own \cup CacheObjects
  /\ \A k \in K : k[1] \in DOMAIN s.len /\ k[2] <= s.len[k[1]]

\* An object of the cache is made.
LEMMA BareMakes ==
  ASSUME NEW C, <<>> \in C, NEW s, NEW K, Bare(s, K), NEW o \in CacheObjects, NEW n \in Nat,
         o \in Fences => n = 0, Fresh(o, K)
  PROVE  \E u : Leads(C, s, Buffer(o, n), u) /\ Bare(u, K \cup {<<o, n>>})
<1>1. PICK u : u = MadeIn(s, o, n)
  OBVIOUS
<1>2. /\ u.len = [q \in DOMAIN s.len \cup {o} |-> IF q = o THEN n ELSE s.len[q]]
      /\ u.own = s.own /\ u.cached = s.cached /\ u.busy = s.busy
  BY <1>1 DEF MadeIn, St
<1>3. /\ DOMAIN u.len = DOMAIN s.len \cup {o}
      /\ \A q \in DOMAIN s.len : q # o => u.len[q] = s.len[q]
      /\ u.len[o] = n
  BY <1>2
<1>4. Sound(s) /\ s.busy = "none" /\ s.cached = <<>>
  BY DEF Bare
<1>5. o \notin Tensors
  BY TensorsAreNamedApart DEF HostObjects
<1>6. Sound(u)
  <2>1. u.len \in [DOMAIN u.len -> Nat] /\ u.own \subseteq DOMAIN u.len
    BY <1>2, <1>3, <1>4 DEF Sound
  <2>2. \A t \in Tensors \cap u.own : Shape[t].rows <= u.len[t]
    BY <1>2, <1>3, <1>4, <1>5 DEF Sound
  <2>3. QED BY <1>2, <1>4, <2>1, <2>2 DEF Sound
<1>7. ASSUME NEW k \in K \cup {<<o, n>>}
      PROVE  k[1] \in DOMAIN u.len /\ k[2] <= u.len[k[1]]
  <2>1. CASE k = <<o, n>>
    BY <1>3, <2>1
  <2>2. CASE k \in K
    <3>1. k[1] # o /\ k[1] \in DOMAIN s.len /\ k[2] <= s.len[k[1]]
      BY <2>2 DEF Bare, Fresh
    <3>2. QED BY <1>3, <3>1
  <2>3. QED BY <2>1, <2>2
<1>8. Bare(u, K \cup {<<o, n>>})
  <2>1. "device" \in u.own /\ DOMAIN u.len \subseteq u.own \cup CacheObjects
    BY <1>2, <1>3 DEF Bare
  <2>2. QED BY <1>2, <1>4, <1>6, <1>7, <2>1 DEF Bare
<1>9. Leads(C, s, Buffer(o, n), u)
  <2>1. PICK op : op = [op |-> "make", o |-> o, len |-> n]
    OBVIOUS
  <2>2. op.op = "make" /\ op.o = o /\ op.len = n /\ Buffer(o, n) = <<op>>
    BY <2>1 DEF Buffer
  <2>3. Does(s, op, u)
    BY <1>1, <1>4, <2>2 DEF Does
  <2>4. QED BY <1>2, <1>4, <1>6, <2>2, <2>3, LeadsOne
<1>10. QED BY <1>8, <1>9

\* The cache is made and kept, with room for rows that fill their workgroups.
CacheProgram(ne0, rows) ==
  Buffer("mv_x", AtLeastOne(ne0)) \o Buffer("mv_y", AtLeastOne(rows)) \o Buffer("mv_dummy", 1)
  \o Make("mv_pool") \o Make("mv_cb") \o Make("mv_fence")
  \o Keep(CacheObjects) \o <<[op |-> "cache", ne0 |-> ne0, rows |-> rows]>>

\* prep_matvec_cache where there is no cache.
LEMMA CacheMade ==
  ASSUME NEW ne0 \in Nat, NEW rows \in Nat, Fills(rows), NEW C, {<<>>, <<ne0, rows>>} \subseteq C,
         NEW s, NEW L, Has(L, {}, s), s.cached = <<>>, "device" \in s.own
  PROVE  \E t : Leads(C, s, CacheProgram(ne0, rows), t) /\ Has({}, {}, t) /\ t.cached = <<ne0, rows>>
<1>1. PICK wide : wide = AtLeastOne(ne0)
  OBVIOUS
<1>2. PICK long : long = AtLeastOne(rows)
  OBVIOUS
<1>3. wide \in Nat /\ long \in Nat /\ rows <= long /\ 1 \in Nat /\ 0 \in Nat
  BY <1>1, <1>2 DEF AtLeastOne
<1>4. /\ "mv_x" \in CacheObjects /\ "mv_y" \in CacheObjects /\ "mv_dummy" \in CacheObjects
      /\ "mv_pool" \in CacheObjects /\ "mv_cb" \in CacheObjects /\ "mv_fence" \in CacheObjects
      /\ "mv_x" \notin Fences /\ "mv_y" \notin Fences /\ "mv_dummy" \notin Fences
      /\ "mv_pool" \notin Fences /\ "mv_cb" \notin Fences
  BY DEF CacheObjects, Fences
<1>5. PICK e : e = {}
  OBVIOUS
<1>6. Bare(s, e)
  BY <1>5 DEF Has, Bare
<1>7. PICK k1 : k1 = e \cup {<<"mv_x", wide>>}
  OBVIOUS
<1>8. PICK k2 : k2 = k1 \cup {<<"mv_y", long>>}
  OBVIOUS
<1>9. PICK k3 : k3 = k2 \cup {<<"mv_dummy", 1>>}
  OBVIOUS
<1>10. PICK k4 : k4 = k3 \cup {<<"mv_pool", 0>>}
  OBVIOUS
<1>11. PICK k5 : k5 = k4 \cup {<<"mv_cb", 0>>}
  OBVIOUS
<1>12. PICK k6 : k6 = k5 \cup {<<"mv_fence", 0>>}
  OBVIOUS
<1>13. /\ Fresh("mv_x", e) /\ Fresh("mv_y", k1) /\ Fresh("mv_dummy", k2) /\ Fresh("mv_pool", k3)
       /\ Fresh("mv_cb", k4) /\ Fresh("mv_fence", k5)
  BY <1>5, <1>7, <1>8, <1>9, <1>10, <1>11 DEF Fresh
<1>14. PICK s1 : Leads(C, s, Buffer("mv_x", wide), s1) /\ Bare(s1, k1)
  BY <1>3, <1>4, <1>6, <1>7, <1>13, BareMakes
<1>15. PICK s2 : Leads(C, s1, Buffer("mv_y", long), s2) /\ Bare(s2, k2)
  BY <1>3, <1>4, <1>8, <1>13, <1>14, BareMakes
<1>16. PICK s3 : Leads(C, s2, Buffer("mv_dummy", 1), s3) /\ Bare(s3, k3)
  BY <1>3, <1>4, <1>9, <1>13, <1>15, BareMakes
<1>17. PICK s4 : Leads(C, s3, Buffer("mv_pool", 0), s4) /\ Bare(s4, k4)
  BY <1>3, <1>4, <1>10, <1>13, <1>16, BareMakes
<1>18. PICK s5 : Leads(C, s4, Buffer("mv_cb", 0), s5) /\ Bare(s5, k5)
  BY <1>3, <1>4, <1>11, <1>13, <1>17, BareMakes
<1>19. PICK s6 : Leads(C, s5, Buffer("mv_fence", 0), s6) /\ Bare(s6, k6)
  BY <1>3, <1>4, <1>12, <1>13, <1>18, BareMakes
\* Everything is kept.
<1>20. PICK u : u = HeldIn(s6, CacheObjects)
  OBVIOUS
<1>21. u.len = s6.len /\ u.own = s6.own \cup CacheObjects /\ u.cached = <<>> /\ u.busy = "none"
  BY <1>19, <1>20 DEF HeldIn, St, Bare
<1>22. \A o \in CacheObjects : o \in DOMAIN s6.len
  <2>1. \A o \in CacheObjects : Named(o, k6)
    <3>1. /\ <<"mv_x", wide>> \in k6 /\ <<"mv_y", long>> \in k6 /\ <<"mv_dummy", 1>> \in k6
          /\ <<"mv_pool", 0>> \in k6 /\ <<"mv_cb", 0>> \in k6 /\ <<"mv_fence", 0>> \in k6
      BY <1>7, <1>8, <1>9, <1>10, <1>11, <1>12
    <3>2. /\ Named("mv_x", k6) /\ Named("mv_y", k6) /\ Named("mv_dummy", k6)
          /\ Named("mv_pool", k6) /\ Named("mv_cb", k6) /\ Named("mv_fence", k6)
      BY <3>1, NamedIs
    <3>3. QED BY <3>2 DEF CacheObjects
  <2>2. \A k \in k6 : k[1] \in DOMAIN s6.len
    BY <1>19 DEF Bare
  <2>3. QED BY <2>1, <2>2 DEF Named
<1>23. Sound(u)
  <2>1. Sound(s6)
    BY <1>19 DEF Bare
  <2>2. u.len \in [DOMAIN u.len -> Nat] /\ u.own \subseteq DOMAIN u.len
    BY <1>21, <1>22, <2>1 DEF Sound
  <2>3. \A t \in Tensors \cap u.own : Shape[t].rows <= u.len[t]
    <3>1. Tensors \cap CacheObjects = {}
      BY TensorsAreNamedApart DEF HostObjects
    <3>2. QED BY <1>21, <2>1, <3>1 DEF Sound
  <2>4. QED BY <1>21, <2>2, <2>3 DEF Sound
<1>24. Leads(C, s6, Keep(CacheObjects), u)
  <2>1. PICK op : op = [op |-> "keep", os |-> CacheObjects]
    OBVIOUS
  <2>2. op.op = "keep" /\ op.os = CacheObjects /\ Keep(CacheObjects) = <<op>>
    BY <2>1 DEF Keep
  <2>3. Sound(s6) /\ s6.busy = "none" /\ s6.cached = <<>>
    BY <1>19 DEF Bare
  <2>4. Does(s6, op, u)
    BY <1>20, <2>2, <2>3 DEF Does
  <2>5. QED BY <1>21, <1>23, <2>2, <2>3, <2>4, LeadsOne
\* Its sizes are noted.
<1>25. PICK t : t = St(u.len, u.own, <<ne0, rows>>, u.rec, u.clear, u.busy)
  OBVIOUS
<1>26. t.len = s6.len /\ t.own = s6.own \cup CacheObjects /\ t.cached = <<ne0, rows>> /\ t.busy = "none"
  BY <1>21, <1>25 DEF St
<1>27. Sound(t)
  <2>1. t.len \in [DOMAIN t.len -> Nat] /\ t.own \subseteq DOMAIN t.len
    BY <1>21, <1>23, <1>26 DEF Sound
  <2>2. \A o \in Tensors \cap t.own : Shape[o].rows <= t.len[o]
    BY <1>21, <1>23, <1>26 DEF Sound
  <2>3. CacheObjects \cup {"device"} \subseteq t.own
    BY <1>19, <1>26 DEF Bare
  <2>4. t.cached[2] \in Nat /\ Fills(t.cached[2]) /\ t.cached[2] <= t.len["mv_y"]
    <3>1. t.cached[2] = rows
      BY <1>26
    <3>2. PICK k : k = <<"mv_y", long>>
      OBVIOUS
    <3>3. k \in k6 /\ k[1] = "mv_y" /\ k[2] = long
      BY <1>8, <1>9, <1>10, <1>11, <1>12, <3>2
    <3>4. "mv_y" \in DOMAIN s6.len /\ long <= s6.len["mv_y"]
      BY <1>19, <3>3 DEF Bare
    <3>5. s6.len["mv_y"] \in Nat
      BY <1>21, <1>23, <3>4 DEF Sound
    <3>6. QED BY <1>3, <1>26, <3>1, <3>4, <3>5
  <2>5. QED BY <2>1, <2>2, <2>3, <2>4 DEF Sound
<1>28. Leads(C, u, <<[op |-> "cache", ne0 |-> ne0, rows |-> rows]>>, t)
  <2>1. PICK op : op = [op |-> "cache", ne0 |-> ne0, rows |-> rows]
    OBVIOUS
  <2>2. op.op = "cache" /\ op.ne0 = ne0 /\ op.rows = rows
    BY <2>1
  <2>3. Does(u, op, t)
    BY <1>21, <1>25, <2>2 DEF Does
  <2>4. Leads(C, u, <<op>>, t)
    BY <1>21, <1>23, <1>26, <1>27, <2>3, LeadsOne
  <2>5. QED BY <2>1, <2>4
<1>29. Has({}, {}, t)
  <2>1. DOMAIN t.len \subseteq t.own
    BY <1>19, <1>26 DEF Bare
  <2>2. QED BY <1>26, <1>27, <2>1 DEF Has
\* One after the other.
<1>30. PICK p2 : p2 = Buffer("mv_x", wide) \o Buffer("mv_y", long)
  OBVIOUS
<1>31. Leads(C, s, p2, s2)
  BY <1>14, <1>15, <1>30, LeadsOn
<1>32. PICK p3 : p3 = p2 \o Buffer("mv_dummy", 1)
  OBVIOUS
<1>33. Leads(C, s, p3, s3)
  BY <1>16, <1>31, <1>32, LeadsOn
<1>34. PICK p4 : p4 = p3 \o Make("mv_pool")
  OBVIOUS
<1>35. Leads(C, s, p4, s4)
  <2>1. Make("mv_pool") = Buffer("mv_pool", 0)
    BY DEF Make, Buffer
  <2>2. QED BY <1>17, <1>33, <1>34, <2>1, LeadsOn
<1>36. PICK p5 : p5 = p4 \o Make("mv_cb")
  OBVIOUS
<1>37. Leads(C, s, p5, s5)
  <2>1. Make("mv_cb") = Buffer("mv_cb", 0)
    BY DEF Make, Buffer
  <2>2. QED BY <1>18, <1>35, <1>36, <2>1, LeadsOn
<1>38. PICK p6 : p6 = p5 \o Make("mv_fence")
  OBVIOUS
<1>39. Leads(C, s, p6, s6)
  <2>1. Make("mv_fence") = Buffer("mv_fence", 0)
    BY DEF Make, Buffer
  <2>2. QED BY <1>19, <1>37, <1>38, <2>1, LeadsOn
<1>40. PICK p7 : p7 = p6 \o Keep(CacheObjects)
  OBVIOUS
<1>41. Leads(C, s, p7, u)
  BY <1>24, <1>39, <1>40, LeadsOn
<1>42. Leads(C, s, p7 \o <<[op |-> "cache", ne0 |-> ne0, rows |-> rows]>>, t)
  BY <1>28, <1>41, LeadsOn
<1>43. CacheProgram(ne0, rows) = p7 \o <<[op |-> "cache", ne0 |-> ne0, rows |-> rows]>>
  BY <1>1, <1>2, <1>30, <1>32, <1>34, <1>36, <1>38, <1>40 DEF CacheProgram
<1>44. QED BY <1>26, <1>29, <1>42, <1>43

-----------------------------------------------------------------------------
\* No more rows than fill their workgroups, no more lanes.
LEMMA LanesGrow ==
  ASSUME NEW a \in Nat, NEW b \in Nat, a <= b
  PROVE  Groups(a) * Local <= Groups(b) * Local
<1>1. PICK d \in Nat : d = Local /\ d > 0
  BY VulkanHostAssumption
<1>2. PICK i \in Nat : i = a + d - 1
  BY <1>1
<1>3. PICK j \in Nat : j = b + d - 1
  BY <1>1
<1>4. i <= j
  BY <1>2, <1>3
<1>5. PICK q \in Nat : q = i \div d
  BY <1>1
<1>6. PICK r \in Nat : r = j \div d
  BY <1>1
<1>7. q <= r
  <2>1. ASSUME ~(q <= r) PROVE FALSE
    <3>1. r + 1 <= q
      BY <2>1
    <3>2. (r + 1) * d <= q * d
      BY <3>1, <1>1, TimesGrows
    <3>3. q * d <= i
      BY <1>1, <1>5, WholeRows
    <3>4. j < (r + 1) * d
      <4>1. j = d * (j \div d) + (j % d) /\ j % d < d /\ j % d \in Nat
        BY <1>1
      <4>2. d * r = r * d /\ (r + 1) * d = r * d + d /\ r * d \in Nat
        BY <1>1
      <4>3. QED BY <1>1, <1>6, <4>1, <4>2
    <3>5. q * d \in Nat /\ (r + 1) * d \in Nat
      BY <1>1
    <3>6. QED BY <1>4, <3>2, <3>3, <3>4, <3>5
  <2>2. QED BY <2>1
<1>8. CeilDivide(a, Local) = q /\ CeilDivide(b, Local) = r
  BY <1>1, <1>2, <1>3, <1>5, <1>6 DEF CeilDivide
<1>9. PICK x \in Nat : x = Groups(a)
  BY <1>8 DEF Groups, AtLeastOne
<1>10. PICK y \in Nat : y = Groups(b)
  BY <1>8 DEF Groups, AtLeastOne
<1>11. x <= y
  BY <1>7, <1>8, <1>9, <1>10 DEF Groups, AtLeastOne
<1>12. x * d <= y * d
  BY <1>1, <1>11, TimesGrows
<1>13. QED BY <1>1, <1>9, <1>10, <1>12

\* A state that is only in its commands and fences another.
Alike(s, t) == t.len = s.len /\ t.own = s.own /\ t.cached = s.cached

\* Soundness does not depend on commands and fences.
LEMMA AlikeSound == ASSUME NEW s, NEW t, Alike(s, t), Sound(s) PROVE Sound(t)
BY DEF Alike, Sound

\* One call more between states that are alike.
LEMMA AlikeOne ==
  ASSUME NEW r, Sound(r), NEW p, NEW s, Alike(r, s), Leads({r.cached}, r, p, s),
         NEW op, NEW t, Alike(s, t), Does(s, op, t)
  PROVE  Leads({r.cached}, r, p \o <<op>>, t) /\ Alike(r, t)
<1>1. Alike(r, t)
  BY DEF Alike
<1>2. Sound(s) /\ Sound(t) /\ s.cached = r.cached /\ t.cached = r.cached
  BY <1>1, AlikeSound DEF Alike
<1>3. Leads({r.cached}, s, <<op>>, t)
  BY <1>2, LeadsOne
<1>4. QED BY <1>1, <1>3, LeadsOn

\* The first call between states that are alike.
LEMMA AlikeStart ==
  ASSUME NEW r, Sound(r), NEW op, NEW t, Alike(r, t), Does(r, op, t)
  PROVE  Leads({r.cached}, r, <<op>>, t)
<1>1. Sound(t) /\ t.cached = r.cached
  BY AlikeSound DEF Alike
<1>2. QED BY <1>1, LeadsOne

\* A call that goes through without making or dropping a cache.
Reaches(s, p) == \E f : Leads({s.cached}, s, p, f) /\ Has({}, {}, f) /\ f.cached = s.cached

\* The product through the cache: its vectors are long enough for the lanes of as many
\* rows as it was made for.
LEMMA CachedLeads ==
  ASSUME NEW w \in Tensors, NEW base, NEW rows \in Nat, NEW s, Has({}, {}, s), w \in s.own,
         s.cached # <<>>, rows <= s.cached[2]
  PROVE  Reaches(s, MatvecCached(w, base, rows))
<1>1. Sound(s) /\ s.busy = "none" /\ DOMAIN s.len \subseteq s.own
  BY DEF Has
<1>2. CacheObjects \subseteq DOMAIN s.len /\ w \in DOMAIN s.len
  BY <1>1 DEF Sound
<1>3. PICK ne0 : ne0 = Shape[w].ne0
  OBVIOUS
<1>4. PICK x : x = Floats("x", ne0)
  OBVIOUS
<1>5. PICK c : c = Product(w, "mv_x", "mv_y", "mv_pool", ne0, base, rows)
  OBVIOUS
<1>6. /\ c.pool = {"mv_pool"} /\ c.ins = <<<<w, base + Groups(rows) * Local>>, <<"mv_x", ne0>>>>
      /\ c.outs = {<<"mv_y", Groups(rows) * Local>>}
  BY <1>5 DEF Product, Dispatch
<1>7. Groups(rows) * Local <= s.len["mv_y"]
  <2>1. PICK most \in Nat : most = s.cached[2] /\ Fills(most) /\ most <= s.len["mv_y"]
    BY <1>1 DEF Sound
  <2>2. Groups(rows) * Local <= Groups(most) * Local
    BY <2>1, LanesGrow
  <2>3. PICK lanes \in Nat : lanes = Groups(rows) * Local
    BY LanesNat
  <2>4. s.len["mv_y"] \in Nat
    BY <1>1, <1>2 DEF Sound, CacheObjects
  <2>5. QED BY <2>1, <2>2, <2>3, <2>4 DEF Fills
<1>8. FitsIn(c, s)
  <2>1. "mv_pool" \in DOMAIN s.len /\ "mv_x" \in DOMAIN s.len /\ "mv_y" \in DOMAIN s.len
    BY <1>2 DEF CacheObjects
  <2>2. \A j \in DOMAIN c.ins : c.ins[j][1] \in DOMAIN s.len
    <3>1. DOMAIN c.ins = {1, 2} /\ c.ins[1][1] = w /\ c.ins[2][1] = "mv_x"
      BY <1>6
    <3>2. QED BY <1>2, <2>1, <3>1
  <2>3. "mv_y" \notin Fences
    BY DEF Fences
  <2>4. QED BY <1>6, <1>7, <2>1, <2>2, <2>3 DEF FitsIn
\* The states gone through.
<1>10. PICK a : a = St(s.len, s.own, s.cached, {}, s.clear, s.busy)
  OBVIOUS
<1>11. PICK b : b = St(a.len, a.own, a.cached, a.rec \cup {c}, a.clear, a.busy)
  OBVIOUS
<1>12. PICK d : d = St(b.len, b.own, b.cached, b.rec, b.clear \cup {"mv_fence"}, b.busy)
  OBVIOUS
<1>13. PICK e : e = St(d.len, d.own, d.cached, d.rec, d.clear \ {"mv_fence"}, "mv_fence")
  OBVIOUS
<1>14. PICK f : f = St(e.len, e.own, e.cached, e.rec, e.clear, "none")
  OBVIOUS
<1>15. Alike(s, s) /\ Alike(s, a) /\ a.rec = {} /\ a.busy = "none"
  BY <1>1, <1>10 DEF St, Alike
<1>16. Alike(a, b) /\ b.rec = {c} /\ b.busy = "none"
  BY <1>11, <1>15 DEF St, Alike
<1>17. Alike(b, d) /\ d.rec = {c} /\ d.busy = "none" /\ "mv_fence" \in d.clear
  BY <1>12, <1>16 DEF St, Alike
<1>18. Alike(d, e) /\ e.busy = "mv_fence"
  BY <1>13 DEF St, Alike
<1>19. Alike(e, f) /\ f.busy = "none" /\ Alike(f, f)
  BY <1>14 DEF St, Alike
\* The calls.
<1>20. PICK put : put = [op |-> "put", b |-> "mv_x", data |-> x]
  OBVIOUS
<1>21. PICK begin : begin = [op |-> "begin"]
  OBVIOUS
<1>22. PICK record : record = [op |-> "record", c |-> c]
  OBVIOUS
<1>23. PICK reset : reset = [op |-> "reset", fence |-> "mv_fence"]
  OBVIOUS
<1>24. PICK submit : submit = [op |-> "submit", cb |-> "mv_cb", fence |-> "mv_fence"]
  OBVIOUS
<1>25. PICK wait : wait = [op |-> "wait", fence |-> "mv_fence"]
  OBVIOUS
<1>26. PICK read : read = [op |-> "read", b |-> "mv_y", n |-> rows]
  OBVIOUS
<1>27. Does(s, put, s)
  <2>1. put.op = "put" /\ put.b = "mv_x" /\ "mv_x" \notin Fences
    BY <1>20 DEF Fences
  <2>2. QED BY <1>1, <2>1 DEF Does
<1>28. Does(s, begin, a)
  <2>1. begin.op = "begin"
    BY <1>21
  <2>2. QED BY <1>1, <1>10, <2>1 DEF Does
<1>29. Does(a, record, b)
  <2>1. record.op = "record" /\ record.c = c
    BY <1>22
  <2>2. QED BY <1>11, <1>15, <2>1 DEF Does
<1>30. "mv_cb" \in DOMAIN s.len /\ "mv_fence" \in DOMAIN s.len /\ "mv_fence" \in Fences
  BY <1>2 DEF CacheObjects, Fences
<1>31. b.len = s.len /\ d.len = s.len
  BY <1>15, <1>16, <1>17 DEF Alike
<1>32. Does(b, reset, d)
  <2>1. reset.op = "reset" /\ reset.fence = "mv_fence"
    BY <1>23
  <2>2. QED BY <1>12, <1>16, <1>30, <1>31, <2>1 DEF Does
<1>33. Does(d, submit, e)
  <2>1. submit.op = "submit" /\ submit.cb = "mv_cb" /\ submit.fence = "mv_fence"
    BY <1>24
  <2>2. \A k \in d.rec : FitsIn(k, d)
    <3>1. FitsIn(c, d)
      BY <1>8, <1>31 DEF FitsIn
    <3>2. QED BY <1>17, <3>1
  <2>3. {submit.cb, submit.fence} \subseteq DOMAIN d.len
    BY <1>30, <1>31, <2>1
  <2>4. QED BY <1>13, <1>17, <1>30, <2>1, <2>2, <2>3 DEF Does
<1>34. Does(e, wait, f)
  <2>1. wait.op = "wait" /\ wait.fence = "mv_fence"
    BY <1>25
  <2>2. QED BY <1>14, <1>18, <2>1 DEF Does
<1>35. Does(f, read, f)
  <2>1. read.op = "read"
    BY <1>26
  <2>2. QED BY <1>19, <2>1 DEF Does
\* One after the other.
<1>36. Leads({s.cached}, s, <<put>>, s)
  BY <1>1, <1>15, <1>27, AlikeStart
<1>37. PICK p1 : p1 = <<put>> \o <<begin>>
  OBVIOUS
<1>38. Leads({s.cached}, s, p1, a)
  BY <1>1, <1>15, <1>28, <1>36, <1>37, AlikeOne
<1>39. PICK p2 : p2 = p1 \o <<record>>
  OBVIOUS
<1>40. Leads({s.cached}, s, p2, b) /\ Alike(s, b)
  BY <1>1, <1>15, <1>16, <1>29, <1>38, <1>39, AlikeOne
<1>41. Sound(b) /\ b.cached = s.cached
  BY <1>1, <1>40, AlikeSound DEF Alike
<1>42. Leads({b.cached}, b, <<reset>>, d)
  BY <1>17, <1>32, <1>41, AlikeStart
<1>43. Leads({b.cached}, b, <<reset>> \o <<submit>>, e) /\ Alike(b, e)
  BY <1>17, <1>18, <1>33, <1>41, <1>42, AlikeOne
<1>44. PICK q : q = <<reset>> \o <<submit>> \o <<wait>>
  OBVIOUS
<1>45. PICK q1 : q1 = <<reset>> \o <<submit>>
  OBVIOUS
<1>46. Leads({b.cached}, b, q, f) /\ Alike(b, f)
  BY <1>19, <1>34, <1>41, <1>43, <1>44, <1>45, AlikeOne
<1>47. PICK p3 : p3 = p2 \o q
  OBVIOUS
<1>48. Leads({s.cached}, s, p3, f) /\ Alike(s, f)
  <2>1. Leads({s.cached}, b, q, f)
    BY <1>41, <1>46
  <2>2. Alike(s, f)
    BY <1>40, <1>46 DEF Alike
  <2>3. QED BY <1>40, <1>47, <2>1, <2>2, LeadsOn
<1>49. Leads({s.cached}, s, p3 \o <<read>>, f)
  BY <1>1, <1>19, <1>35, <1>48, AlikeOne
<1>50. MatvecCached(w, base, rows) = p3 \o <<read>>
  <2>1. Put("mv_x", x) = <<put>> /\ Begin = <<begin>> /\ RecordAll(c) = <<record>> /\ CopyOut("mv_y", rows) = <<read>>
    BY <1>20, <1>21, <1>22, <1>26 DEF Put, Begin, RecordAll, CopyOut
  <2>2. Relaunch("mv_cb", "mv_fence") = q
    BY <1>23, <1>24, <1>25, <1>44 DEF Relaunch, Reset, SubmitAll, Wait
  <2>3. MatvecCached(w, base, rows) =
          Put("mv_x", x) \o Begin \o RecordAll(c) \o Relaunch("mv_cb", "mv_fence") \o CopyOut("mv_y", rows)
    BY <1>3, <1>4, <1>5 DEF MatvecCached
  <2>4. QED BY <1>37, <1>39, <1>47, <2>1, <2>2, <2>3
<1>51. Has({}, {}, f) /\ f.cached = s.cached
  <2>1. Sound(f)
    BY <1>1, <1>48, AlikeSound
  <2>2. QED BY <1>1, <1>19, <1>48, <2>1 DEF Has, Alike
<1>52. QED BY <1>49, <1>50, <1>51 DEF Reaches

\* matvec_on: through the cache when it covers the product, otherwise with vectors of
\* its own.
LEMMA MatvecOnLeads ==
  ASSUME NEW w \in Tensors, NEW base \in Nat, NEW rows \in Nat, NEW s, MirrorsNow(s), Has({}, {}, s),
         w \in own, Fills(rows) \/ (cached = <<MaxNe0, MaxRows>> /\ rows <= MaxRows)
  PROVE  Reaches(s, MatvecOn(w, base, rows))
<1>1. s.own = own /\ s.cached = cached
  BY DEF MirrorsNow, Mirrors
<1>2. PICK ne0 : ne0 = Shape[w].ne0
  OBVIOUS
<1>3. CASE Covered(ne0, rows)
  <2>1. cached # <<>> /\ rows <= cached[2]
    BY <1>3 DEF Covered
  <2>2. MatvecOn(w, base, rows) = MatvecCached(w, base, rows)
    BY <1>2, <1>3 DEF MatvecOn
  <2>3. w \in s.own /\ s.cached # <<>> /\ rows <= s.cached[2]
    BY <1>1, <2>1
  <2>4. Reaches(s, MatvecCached(w, base, rows))
    BY <2>3, CachedLeads
  <2>5. QED BY <2>2, <2>4
<1>4. CASE ~Covered(ne0, rows)
  <2>1. Fills(rows)
    <3>1. ASSUME cached = <<MaxNe0, MaxRows>>, rows <= MaxRows PROVE FALSE
      <4>1. ne0 <= MaxNe0
        BY <1>2, WidestTensors
      <4>2. cached # <<>> /\ cached[1] = MaxNe0 /\ cached[2] = MaxRows
        BY <3>1
      <4>3. QED BY <1>4, <3>1, <4>1, <4>2 DEF Covered
    <3>2. QED BY <3>1
  <2>2. Lives({<<w, 0>>}, {}, MatvecOneshot(w, base, rows), {}, {})
    <3>1. Lives({<<w, 0>>}, {}, MatvecOneshot(w, base, rows), {<<w, 0>>}, {})
      BY <2>1, MatvecOneshotLives, Zenon
    <3>2. {} \subseteq {<<w, 0>>} /\ {} \subseteq {}
      OBVIOUS
    <3>3. QED BY <3>1, <3>2, LivesLess, Zenon
  <2>3. MatvecOn(w, base, rows) = MatvecOneshot(w, base, rows)
    BY <1>2, <1>4 DEF MatvecOn
  <2>4. Has({<<w, 0>>}, {}, s)
    <3>1. w \in DOMAIN s.len /\ s.len[w] \in Nat
      BY <1>1 DEF Has, Sound
    <3>2. \A k \in {<<w, 0>>} : k[1] \in DOMAIN s.len /\ k[2] <= s.len[k[1]]
      BY <3>1
    <3>3. QED BY <3>2 DEF Has
  <2>5. QED BY <2>2, <2>3, <2>4 DEF Lives, Reaches
<1>5. QED BY <1>3, <1>4

-----------------------------------------------------------------------------
\* Everything a field holds may be freed between two calls, the cache as a whole.
LEMMA FreeRests ==
  ASSUME NEW s, Has({}, {}, s), NEW os, s.cached # <<>> => "mv_x" \in os,
         NEW C, {s.cached, <<>>} \subseteq C
  PROVE  \E u : /\ Leads(C, s, Free(os), u) /\ Has({}, {}, u)
                /\ u.cached = <<>> /\ u.own = s.own \ os
<1>1. PICK u : u = FreedIn(s, os)
  OBVIOUS
<1>2. /\ u.len = [q \in DOMAIN s.len \ os |-> s.len[q]] /\ u.own = s.own \ os
      /\ u.cached = <<>> /\ u.busy = s.busy
  BY <1>1 DEF FreedIn, St
<1>3. Sound(s) /\ s.busy = "none" /\ DOMAIN s.len \subseteq s.own
  BY DEF Has
<1>4. Sound(u)
  <2>1. u.len \in [DOMAIN u.len -> Nat] /\ u.own \subseteq DOMAIN u.len
    BY <1>2, <1>3 DEF Sound
  <2>2. \A t \in Tensors \cap u.own : Shape[t].rows <= u.len[t]
    BY <1>2, <1>3 DEF Sound
  <2>3. QED BY <1>2, <2>1, <2>2 DEF Sound
<1>5. Has({}, {}, u)
  BY <1>2, <1>3, <1>4 DEF Has
<1>6. PICK op : op = [op |-> "free", os |-> os]
  OBVIOUS
<1>7. op.op = "free" /\ op.os = os /\ Free(os) = <<op>>
  BY <1>6 DEF Free
<1>8. Does(s, op, u)
  BY <1>1, <1>3, <1>7 DEF Does
<1>9. Leads(C, s, <<op>>, u)
  BY <1>2, <1>3, <1>4, <1>8, LeadsOne
<1>10. QED BY <1>2, <1>5, <1>7, <1>9

\* Drop.
LEMMA DropLeads ==
  ASSUME NEW s, MirrorsNow(s), Has({}, {}, s)
  PROVE  \E u : /\ Leads({s.cached, <<>>}, s, Drop, u) /\ Has({}, {}, u)
                /\ u.own \subseteq {"params"} \cup Tensors
<1>1. s.own = own /\ s.cached = cached /\ Sound(s) /\ s.busy = "none"
  BY DEF MirrorsNow, Mirrors, Has
<1>2. PICK C : C = {s.cached, <<>>}
  OBVIOUS
<1>3. PICK buffers : buffers = own \cap ({"staging"} \cup CacheObjects)
  OBVIOUS
<1>4. PICK pipes : pipes = own \ ({"staging", "params"} \cup CacheObjects \cup Tensors \cup DeviceObjects)
  OBVIOUS
<1>5. PICK idle : idle = [op |-> "idle"]
  OBVIOUS
<1>6. Leads(C, s, <<idle>>, s)
  <2>1. Does(s, idle, s)
    <3>1. idle.op = "idle"
      BY <1>5
    <3>2. QED BY <1>1, <3>1 DEF Does
  <2>2. QED BY <1>1, <1>2, <2>1, LeadsOne
<1>7. s.cached # <<>> => "mv_x" \in buffers
  <2>1. "mv_x" \in CacheObjects
    BY DEF CacheObjects
  <2>2. QED BY <1>1, <1>3, <2>1 DEF Sound
<1>8. PICK a : /\ Leads(C, s, Free(buffers), a) /\ Has({}, {}, a)
               /\ a.cached = <<>> /\ a.own = s.own \ buffers
  BY <1>2, <1>7, FreeRests
<1>9. PICK b : /\ Leads(C, a, Free(pipes), b) /\ Has({}, {}, b)
               /\ b.cached = <<>> /\ b.own = a.own \ pipes
  <2>1. {a.cached, <<>>} \subseteq C /\ ~(a.cached # <<>>)
    BY <1>2, <1>8
  <2>2. QED BY <1>8, <2>1, FreeRests
<1>10. PICK u : /\ Leads(C, b, Free(DeviceObjects), u) /\ Has({}, {}, u)
                /\ u.cached = <<>> /\ u.own = b.own \ DeviceObjects
  <2>1. {b.cached, <<>>} \subseteq C /\ ~(b.cached # <<>>)
    BY <1>2, <1>9
  <2>2. QED BY <1>9, <2>1, FreeRests
<1>11. PICK p1 : p1 = <<idle>> \o Free(buffers)
  OBVIOUS
<1>12. PICK p2 : p2 = p1 \o Free(pipes)
  OBVIOUS
<1>13. PICK p3 : p3 = p2 \o Free(DeviceObjects)
  OBVIOUS
<1>14. Leads(C, s, p3, u)
  <2>1. Leads(C, s, p1, a)
    BY <1>6, <1>8, <1>11, LeadsOn
  <2>2. Leads(C, s, p2, b)
    BY <1>9, <1>12, <2>1, LeadsOn
  <2>3. QED BY <1>10, <1>13, <2>2, LeadsOn
<1>15. Drop = p3
  BY <1>3, <1>4, <1>5, <1>11, <1>12, <1>13 DEF Drop
<1>16. u.own \subseteq {"params"} \cup Tensors
  BY <1>1, <1>3, <1>4, <1>8, <1>9, <1>10
<1>17. QED BY <1>2, <1>10, <1>14, <1>15, <1>16

-----------------------------------------------------------------------------
\* enable_gpu: the device, the tensors one after the other, the cache.
LEMMA EnableLeads ==
  ASSUME NEW s, MirrorsNow(s), Has({}, {}, s), cached = <<>>, Fills(MaxRows)
  PROVE  \E C, u : /\ Leads(C, s, EnableGpu, u) /\ Has({}, {}, u)
                   /\ u.cached = <<MaxNe0, MaxRows>>
<1>1. s.cached = <<>>
  BY DEF MirrorsNow, Mirrors
<1>2. PICK C : C = {<<>>, <<MaxNe0, MaxRows>>}
  OBVIOUS
<1>3. PICK L : L = {<<"device", 0>>}
  OBVIOUS
<1>4. Lives({}, {}, Open, L, {})
  <2>1. L \subseteq {<<"instance", 0>>, <<"device", 0>>, <<"command_pool", 0>>, <<"desc_layout", 0>>,
                     <<"pipeline_layout", 0>>, <<"pipeline", 0>>}
    BY <1>3
  <2>2. QED BY <2>1, OpenLives, LivesLess
<1>5. PICK a : Leads({s.cached}, s, Open, a) /\ Has(L, {}, a) /\ a.cached = s.cached
  BY <1>4 DEF Lives
<1>6. PICK ts : ts = SetToSeq(Tensors)
  OBVIOUS
<1>7. ts \in Seq(Tensors)
  BY <1>6, TensorsInOrder
<1>8. Lives(L, {}, Flat(LoadsOf(ts)), L, {})
  <2>1. "device" \notin Tensors
    BY TensorsAreNamedApart DEF HostObjects, DeviceObjects
  <2>2. (\A t \in Tensors : Fresh(t, L)) /\ Fresh("staging", L) /\ Fresh("cb", L) /\ Fresh("fence", L)
    BY <1>3, <2>1 DEF Fresh
  <2>3. QED BY <1>7, <2>2, LoadsLive
<1>9. PICK b : Leads({a.cached}, a, Flat(LoadsOf(ts)), b) /\ Has(L, {}, b) /\ b.cached = a.cached
  BY <1>5, <1>8 DEF Lives
<1>10. "device" \in b.own
  <2>1. PICK k \in L : k = <<"device", 0>>
    BY <1>3
  <2>2. k[1] = "device" /\ k[1] \in DOMAIN b.len /\ DOMAIN b.len \subseteq b.own
    BY <1>9, <2>1 DEF Has
  <2>3. QED BY <2>2
<1>11. MaxNe0 \in Nat /\ MaxRows \in Nat
  BY WidestTensors
<1>12. PICK u : Leads(C, b, CacheProgram(MaxNe0, MaxRows), u) /\ Has({}, {}, u) /\ u.cached = <<MaxNe0, MaxRows>>
  <2>1. {<<>>, <<MaxNe0, MaxRows>>} \subseteq C /\ b.cached = <<>>
    BY <1>1, <1>2, <1>5, <1>9
  <2>2. QED BY <1>9, <1>10, <1>11, <2>1, CacheMade
<1>13. Leads(C, s, Open, a) /\ Leads(C, a, Flat(LoadsOf(ts)), b)
  <2>1. {s.cached} \subseteq C /\ {a.cached} \subseteq C
    BY <1>1, <1>2, <1>5
  <2>2. QED BY <1>5, <1>9, <2>1, LeadsMore
<1>14. PICK p1 : p1 = Open \o Flat(LoadsOf(ts))
  OBVIOUS
<1>15. PICK p2 : p2 = p1 \o CacheProgram(MaxNe0, MaxRows)
  OBVIOUS
<1>16. Leads(C, s, p2, u)
  <2>1. Leads(C, s, p1, b)
    BY <1>13, <1>14, LeadsOn
  <2>2. QED BY <1>12, <1>15, <2>1, LeadsOn
<1>17. EnableGpu = p2
  <2>1. Prep(MaxNe0, MaxRows) = CacheProgram(MaxNe0, MaxRows)
    BY DEF Prep, CacheProgram
  <2>2. EnableGpu = Open \o Flat(LoadsOf(ts)) \o Prep(MaxNe0, MaxRows)
    BY <1>6 DEF EnableGpu, LoadsOf
  <2>3. QED BY <1>14, <1>15, <2>1, <2>2
<1>18. QED BY <1>12, <1>16, <1>17

\* A call that needs nothing goes through.
LEMMA LivesReaches ==
  ASSUME NEW p, NEW L, Lives({}, {}, p, L, {}), NEW s, Has({}, {}, s)
  PROVE  Reaches(s, p)
<1>1. {} \subseteq L /\ {} \subseteq {}
  OBVIOUS
<1>2. Lives({}, {}, p, {}, {})
  BY <1>1, LivesLess
<1>3. QED BY <1>2 DEF Lives, Reaches

\* So does one that needs a tensor that a field holds.
LEMMA HeldReaches ==
  ASSUME NEW s, Has({}, {}, s), NEW t, t \in s.own, NEW n, n = 0 \/ (t \in Tensors /\ n = Shape[t].rows),
         NEW p, NEW L, Lives({<<t, n>>}, {}, p, L, {})
  PROVE  Reaches(s, p)
<1>1. {} \subseteq L /\ {} \subseteq {}
  OBVIOUS
<1>2. Lives({<<t, n>>}, {}, p, {}, {})
  BY <1>1, LivesLess
<1>3. Has({<<t, n>>}, {}, s)
  <2>1. t \in DOMAIN s.len /\ s.len[t] \in Nat /\ (t \in Tensors => Shape[t].rows <= s.len[t])
    BY DEF Has, Sound
  <2>2. \A k \in {<<t, n>>} : k[1] \in DOMAIN s.len /\ k[2] <= s.len[k[1]]
    BY <2>1
  <2>3. QED BY <2>2 DEF Has
<1>4. QED BY <1>2, <1>3 DEF Lives, Reaches

-----------------------------------------------------------------------------
\* Every call goes through but for those that make or drop a cache.
Steady(c) == c.fn \in Functions \ {"enable_gpu", "drop", "prep_matvec_cache"}
CallerHas(c, s) ==
  /\ MirrorsNow(s) /\ Has({}, {}, s)
  /\ c.fn \in {"upload", "read_dev", "matvec_on"} => c.tensor \in own
  /\ AlwaysCached /\ c.fn = "matvec_on" => cached = <<MaxNe0, MaxRows>>

\* Each function of Gpu but for enable_gpu, prep_matvec_cache and drop.
LEMMA SteadyReaches ==
  ASSUME NEW c, Fitting(c), Steady(c), NEW s, CallerHas(c, s)
  PROVE  Reaches(s, Program(c))
<1>1. c.n \in Nat /\ c.rows \in Nat /\ c.cols \in Nat /\ c.base \in Nat /\ c.tensor \in Tensors
  BY DEF Fitting
<1>2. MirrorsNow(s) /\ Has({}, {}, s)
  BY DEF CallerHas
<1>3. s.own = own
  BY <1>2 DEF MirrorsNow, Mirrors
<1>4. CASE c.fn = "open"
  <2>1. Program(c) = Open
    BY <1>4 DEF Program
  <2>2. Lives({}, {}, Open, {<<"instance", 0>>, <<"device", 0>>, <<"command_pool", 0>>,
                                    <<"desc_layout", 0>>, <<"pipeline_layout", 0>>, <<"pipeline", 0>>}, {})
    BY OpenLives
  <2>3. QED BY <1>2, <2>1, <2>2, LivesReaches
<1>5. CASE c.fn = "load"
  <2>1. Program(c) = Load(c.tensor)
    BY <1>5 DEF Program
  <2>2. PICK e : e = {}
    OBVIOUS
  <2>3. Fresh(c.tensor, e) /\ Fresh("staging", e) /\ Fresh("cb", e) /\ Fresh("fence", e)
    BY <2>2 DEF Fresh
  <2>4. Lives(e, {}, Load(c.tensor), e, {})
    BY <1>1, <2>3, LoadLives
  <2>5. QED BY <1>2, <2>1, <2>2, <2>4, LivesReaches
<1>6. CASE c.fn = "upload_kv_params"
  <2>1. Program(c) = UploadParams(c.n)
    BY <1>6 DEF Program
  <2>2. Lives({}, {}, UploadParams(c.n), {}, {})
    BY <1>1, UploadParamsLives
  <2>3. QED BY <1>2, <2>1, <2>2, LivesReaches
<1>7. CASE c.fn = "upload"
  <2>1. Program(c) = StageUpload(c.tensor, Floats("new", c.n), Shape[c.tensor].rows)
    BY <1>7 DEF Program
  <2>2. c.tensor \in s.own
    BY <1>3, <1>7 DEF CallerHas
  <2>3. Lives({<<c.tensor, Shape[c.tensor].rows>>}, {}, StageUpload(c.tensor, Floats("new", c.n), Shape[c.tensor].rows),
              {}, {})
    BY <1>1, UploadLives
  <2>4. QED BY <1>1, <1>2, <2>1, <2>2, <2>3, HeldReaches
<1>8. CASE c.fn = "read_dev"
  <2>1. Program(c) = ReadDev(c.tensor, c.n, Shape[c.tensor].rows)
    BY <1>8 DEF Program
  <2>2. c.tensor \in s.own
    BY <1>3, <1>8 DEF CallerHas
  <2>3. Lives({<<c.tensor, 0>>}, {}, ReadDev(c.tensor, c.n, Shape[c.tensor].rows),
              {}, {})
    BY <1>1, ReadLives
  <2>4. QED BY <1>1, <1>2, <2>1, <2>2, <2>3, HeldReaches
<1>9. CASE c.fn = "matvec_on"
  <2>1. Program(c) = MatvecOn(c.tensor, c.base, c.rows)
    BY <1>9 DEF Program
  <2>2. c.tensor \in own
    BY <1>9 DEF CallerHas
  <2>3. Fills(c.rows) \/ (cached = <<MaxNe0, MaxRows>> /\ c.rows <= MaxRows)
    BY <1>9 DEF CallerHas, Fitting
  <2>4. QED BY <1>1, <1>2, <2>1, <2>2, <2>3, MatvecOnLeads
<1>10. CASE c.fn = "pq2_matvec"
  <2>1. Program(c) = Pq2Matvec(c.n, c.base, c.rows)
    BY <1>10 DEF Program
  <2>2. Fills(c.rows)
    BY <1>10 DEF Fitting
  <2>3. Lives({}, {}, Pq2Matvec(c.n, c.base, c.rows), {}, {})
    BY <1>1, <2>2, Pq2MatvecLives
  <2>4. QED BY <1>2, <2>1, <2>3, LivesReaches
<1>11. CASE c.fn = "matvec_bench"
  <2>1. Program(c) = MatvecBench(c.n, c.base, c.rows, c.cols)
    BY <1>11 DEF Program
  <2>2. Fills(c.rows)
    BY <1>11 DEF Fitting
  <2>3. Lives({}, {}, MatvecBench(c.n, c.base, c.rows, c.cols), {}, {})
    BY <1>1, <2>2, MatvecBenchLives
  <2>4. QED BY <1>2, <2>1, <2>3, LivesReaches
<1>12. CASE c.fn = "matvec_bench_atom"
  <2>1. Program(c) = MatvecBenchAtom(c.n, c.base, c.rows, c.cols)
    BY <1>12 DEF Program
  <2>2. c.rows > 0 /\ Fills(Partials(c.n, c.rows))
    BY <1>12 DEF Fitting
  <2>3. Lives({}, {}, MatvecBenchAtom(c.n, c.base, c.rows, c.cols), {}, {})
    BY <1>1, <2>2, MatvecBenchAtomLives
  <2>4. QED BY <1>2, <2>1, <2>3, LivesReaches
<1>13. CASE c.fn = "matvec_batch_n"
  <2>1. Program(c) = MatvecBatchN(c.n, c.base, c.rows, c.cols)
    BY <1>13 DEF Program
  <2>2. Lives({}, {}, MatvecBatchN(c.n, c.base, c.rows, c.cols), {}, {})
    BY <1>1, MatvecBatchNLives
  <2>3. QED BY <1>2, <2>1, <2>2, LivesReaches
<1>14. CASE c.fn = "rms_norm"
  <2>1. Program(c) = RmsNorm(c.n)
    BY <1>14 DEF Program
  <2>2. Lives({}, {}, RmsNorm(c.n), {}, {})
    BY <1>1, RmsNormLives
  <2>3. QED BY <1>2, <2>1, <2>2, LivesReaches
<1>15. CASE c.fn = "elem"
  <2>1. Program(c) = Elem(c.n, c.cols > 1)
    BY <1>15 DEF Program
  <2>2. Lives({}, {}, Elem(c.n, c.cols > 1), {}, {})
    BY <1>1, ElemLives
  <2>3. QED BY <1>2, <2>1, <2>2, LivesReaches
<1>16. CASE c.fn = "norm_rows"
  <2>1. Program(c) = NormRows(c.n, c.rows, c.cols > 1)
    BY <1>16 DEF Program
  <2>2. c.rows > 0
    BY <1>16 DEF Fitting
  <2>3. Lives({}, {}, NormRows(c.n, c.rows, c.cols > 1), {}, {})
    BY <1>1, <2>2, NormRowsLives
  <2>4. QED BY <1>2, <2>1, <2>3, LivesReaches
<1>17. CASE c.fn = "softmax_row"
  <2>1. Program(c) = SoftmaxRow(c.n)
    BY <1>17 DEF Program
  <2>2. Lives({}, {}, SoftmaxRow(c.n), {}, {})
    BY <1>1, SoftmaxRowLives
  <2>3. QED BY <1>2, <2>1, <2>2, LivesReaches
<1>18. CASE c.fn = "rope_imrope"
  <2>1. Program(c) = RopeImrope(c.n, c.rows)
    BY <1>18 DEF Program
  <2>2. c.rows > 0
    BY <1>18 DEF Fitting
  <2>3. Lives({}, {}, RopeImrope(c.n, c.rows), {}, {})
    BY <1>1, <2>2, RopeImropeLives
  <2>4. QED BY <1>2, <2>1, <2>3, LivesReaches
<1>19. CASE c.fn = "gdn_step"
  <2>1. Program(c) = GdnStep(c.n, c.rows, c.cols)
    BY <1>19 DEF Program
  <2>2. Lives({}, {}, GdnStep(c.n, c.rows, c.cols), {}, {})
    BY <1>1, GdnStepLives
  <2>3. QED BY <1>2, <2>1, <2>2, LivesReaches
<1>20. CASE c.fn = "attn_step"
  <2>1. Program(c) = AttnStep(c.rows, c.n)
    BY <1>20 DEF Program
  <2>2. Lives({}, {}, AttnStep(c.rows, c.n), {}, {})
    BY <1>1, AttnStepLives
  <2>3. QED BY <1>2, <2>1, <2>2, LivesReaches
<1>21. QED BY <1>4, <1>5, <1>6, <1>7, <1>8, <1>9, <1>10, <1>11, <1>12, <1>13, <1>14, <1>15, <1>16,
              <1>17, <1>18, <1>19, <1>20 DEF Steady, Functions

\* A call that may be made goes through, and leaves what it is to leave.
GoesThrough(c, s) == \E C, t : Leads(C, s, Program(c), t) /\ Has({}, {}, t) /\ Goal(c, C, t)

\* It leaves the cache as it was.
LEMMA SteadyGoes ==
  ASSUME NEW c, Fitting(c), Steady(c), NEW s, CallerHas(c, s),
         AlwaysCached => c.fn # "open" /\ cached = <<MaxNe0, MaxRows>>
  PROVE  GoesThrough(c, s)
<1>1. PICK f : Leads({s.cached}, s, Program(c), f) /\ Has({}, {}, f) /\ f.cached = s.cached
  BY SteadyReaches DEF Reaches
<1>2. s.cached = cached
  BY DEF CallerHas, MirrorsNow, Mirrors
<1>3. Goal(c, {s.cached}, f)
  BY <1>2 DEF Goal, Steady
<1>4. QED BY <1>1, <1>3 DEF GoesThrough

\* A call that begins is one that goes through.
LEMMA CallGoes ==
  ASSUME VkInv, NextCall
  PROVE  /\ \E s : MirrorsNow(s) /\ GoesThrough(hostCall', s)
         /\ todo' = Program(hostCall') /\ result' = "running" /\ calls' \in Nat
         /\ UNCHANGED <<heap, own, cached, recorded, queue>>
<1>1. PICK c \in HostCalls[calls + 1] : Call(c)
  BY DEF NextCall
<1>2. calls \in Nat /\ calls < Len(HostCalls)
  BY DEF VkInv, NextCall
<1>3. calls + 1 \in 1..Len(HostCalls)
  BY <1>2, VulkanHostAssumption
<1>4. Fitting(c) /\ (AlwaysCached => c.fn # "open")
  BY <1>1, <1>3, CallsFit DEF AlwaysCached
<1>5. /\ result # "running" /\ hostCall.fn # "drop"
      /\ "device" \in own <=> c.fn \notin {"open", "enable_gpu"}
      /\ c.fn \in {"upload", "read_dev", "matvec_on"} => c.tensor \in own
  BY <1>1 DEF Call, Opened
<1>6. PICK s : MirrorsNow(s) /\ Has({}, {}, s)
  BY <1>5 DEF VkInv
<1>7. AlwaysCached /\ "device" \in own => cached = <<MaxNe0, MaxRows>>
  BY <1>5 DEF VkInv, Rested
<1>8. s.own = own /\ s.cached = cached /\ Sound(s)
  BY <1>6 DEF MirrorsNow, Mirrors, Has
<1>9. GoesThrough(c, s)
  <2>1. CASE c.fn = "enable_gpu"
    <3>1. Program(c) = EnableGpu
      BY <2>1 DEF Program
    <3>2. cached = <<>>
      BY <1>5, <1>8, <2>1 DEF Sound
    <3>3. Fills(MaxRows)
      BY <1>4, <2>1 DEF Fitting
    <3>4. PICK C, u : Leads(C, s, EnableGpu, u) /\ Has({}, {}, u) /\ u.cached = <<MaxNe0, MaxRows>>
      BY <1>6, <3>2, <3>3, EnableLeads
    <3>5. Goal(c, C, u)
      BY <2>1, <3>4 DEF Goal
    <3>6. QED BY <3>1, <3>4, <3>5 DEF GoesThrough
  <2>2. CASE c.fn = "drop"
    <3>1. Program(c) = Drop
      BY <2>2 DEF Program
    <3>2. PICK C : C = {s.cached, <<>>}
      OBVIOUS
    <3>3. PICK u : Leads(C, s, Drop, u) /\ Has({}, {}, u) /\ u.own \subseteq {"params"} \cup Tensors
      BY <1>6, <3>2, DropLeads
    <3>4. Goal(c, C, u)
      BY <2>2, <3>3 DEF Goal
    <3>5. QED BY <3>1, <3>3, <3>4 DEF GoesThrough
  <2>3. CASE c.fn = "prep_matvec_cache"
    <3>1. Program(c) = Prep(c.n, c.rows)
      BY <2>3 DEF Program
    <3>2. "device" \in own
      BY <1>5, <2>3
    <3>3. CASE cached # <<>>
      <4>1. Program(c) = <<>>
        BY <3>1, <3>3 DEF Prep
      <4>2. PICK C : C = {cached}
        OBVIOUS
      <4>3. Leads(C, s, <<>>, s)
        BY <1>8, <4>2, LeadsNone
      <4>4. Goal(c, C, s)
        BY <1>7, <2>3, <3>2, <4>2 DEF Goal
      <4>5. QED BY <1>6, <4>1, <4>3, <4>4 DEF GoesThrough
    <3>4. CASE cached = <<>>
      <4>1. Program(c) = CacheProgram(c.n, c.rows)
        BY <3>1, <3>4 DEF Prep, CacheProgram
      <4>2. c.n \in Nat /\ c.rows \in Nat /\ Fills(c.rows)
        BY <1>4, <2>3 DEF Fitting
      <4>3. PICK C : C = {<<>>, <<c.n, c.rows>>}
        OBVIOUS
      <4>4. PICK u : Leads(C, s, CacheProgram(c.n, c.rows), u) /\ Has({}, {}, u)
        <5>1. {<<>>, <<c.n, c.rows>>} \subseteq C /\ s.cached = <<>> /\ "device" \in s.own
          BY <1>8, <3>2, <3>4, <4>3
        <5>2. QED BY <1>6, <4>2, <5>1, CacheMade
      <4>5. ~AlwaysCached
        <5>1. <<MaxNe0, MaxRows>> # <<>>
          OBVIOUS
        <5>2. QED BY <1>7, <3>2, <3>4, <5>1
      <4>6. Goal(c, C, u)
        BY <2>3, <4>5 DEF Goal
      <4>7. QED BY <4>1, <4>4, <4>6 DEF GoesThrough
    <3>5. QED BY <3>3, <3>4
  <2>4. CASE c.fn \notin {"enable_gpu", "drop", "prep_matvec_cache"}
    <3>1. Steady(c)
      BY <1>4, <2>4 DEF Steady, Fitting
    <3>2. AlwaysCached => c.fn # "open" /\ cached = <<MaxNe0, MaxRows>>
      BY <1>4, <1>5, <1>7, <2>4
    <3>3. CallerHas(c, s)
      BY <1>5, <1>6, <3>2 DEF CallerHas
    <3>4. QED BY <1>4, <3>1, <3>2, <3>3, SteadyGoes
  <2>5. QED BY <2>1, <2>2, <2>3, <2>4
<1>10. /\ hostCall' = c /\ todo' = Program(c) /\ result' = "running" /\ calls' = calls + 1
       /\ UNCHANGED <<heap, own, cached, recorded, queue>>
  BY <1>1 DEF Call
<1>11. calls' \in Nat
  BY <1>2, <1>10
<1>12. QED BY <1>6, <1>9, <1>10, <1>11

\* A call begins.
LEMMA NextCallKeeps == VkInv /\ NextCall => VkInv'
<1> SUFFICES ASSUME VkInv, NextCall PROVE VkInv'
  OBVIOUS
<1>1. PICK s : MirrorsNow(s) /\ GoesThrough(hostCall', s)
  BY CallGoes
<1>2. /\ todo' = Program(hostCall') /\ result' = "running" /\ calls' \in Nat
      /\ UNCHANGED <<heap, own, cached, recorded, queue>>
  BY CallGoes
<1>3. PICK C, t : Leads(C, s, todo', t) /\ Has({}, {}, t) /\ Goal(hostCall', C, t)
  BY <1>1, <1>2 DEF GoesThrough
<1>4. MirrorsNow(s)'
  BY <1>1, <1>2 DEF MirrorsNow
<1>5. AreSequences(heap', recorded', queue')
  BY <1>2 DEF VkInv
<1>6. QED BY <1>2, <1>3, <1>4, <1>5 DEF VkInv

\* Every step keeps the invariant.
LEMMA VkStep == VkInv /\ [VkNext]_vkVars => VkInv'
<1> SUFFICES ASSUME VkInv, [VkNext]_vkVars PROVE VkInv'
  OBVIOUS
<1>1. CASE UNCHANGED vkVars
  BY <1>1 DEF vkVars, VkInv, MirrorsNow, Rested, AreSequences
<1>2. CASE NextCall
  BY <1>2, NextCallKeeps
<1>3. CASE HostStep
  BY <1>3, MakeKeeps, EnsureKeeps, StagingKeeps, KeepKeeps, CacheKeeps, PutKeeps, BeginKeeps,
     RecordKeeps, SubmitKeeps, WaitKeeps, ResetKeeps, ReadFloatsKeeps, FreeKeeps, FinishKeeps,
     RefusedKeeps DEF HostStep
<1>4. CASE Fails
  BY <1>4, FailsKeeps
<1>5. CASE DeviceLost
  BY <1>5, LostKeeps
<1>6. CASE DeviceRuns
  BY <1>6, DeviceRunsKeeps
<1>7. QED BY <1>1, <1>2, <1>3, <1>4, <1>5, <1>6 DEF VkNext

-----------------------------------------------------------------------------
\* What the property says of one state.
LEMMA InvIsSound == VkInv => BuffersSound
<1> SUFFICES ASSUME VkInv PROVE BuffersSound
  OBVIOUS
<1>1. PICK s : MirrorsNow(s)
  BY DEF VkInv
<1>2. /\ DOMAIN s.len = DOMAIN heap
      /\ \A o \in DOMAIN heap : s.len[o] = IF o \in Fences THEN 0 ELSE Len(heap[o])
      /\ \A i \in 1..Len(queue) : FitsIn(queue[i].c, s) /\ queue[i].held \subseteq DOMAIN s.len
  BY <1>1 DEF MirrorsNow, Mirrors
<1>3. DOMAIN queue = 1..Len(queue)
  <2>1. PICK X : queue \in Seq(X)
    BY DEF VkInv, AreSequences, IsSeq
  <2>2. QED BY <2>1
<1>4. ASSUME NEW i \in DOMAIN queue
      PROVE  /\ queue[i].held \subseteq DOMAIN heap
             /\ {queue[i].c.ins[j][1] : j \in DOMAIN queue[i].c.ins} \subseteq DOMAIN heap
             /\ {out[1] : out \in queue[i].c.outs} \subseteq DOMAIN heap
             /\ \A out \in queue[i].c.outs : out[1] \in DOMAIN heap => out[2] <= LenOf(out[1])
  <2>1. FitsIn(queue[i].c, s) /\ queue[i].held \subseteq DOMAIN heap
    BY <1>2, <1>3
  <2>2. PICK c : c = queue[i].c
    OBVIOUS
  <2>3. /\ \A j \in DOMAIN c.ins : c.ins[j][1] \in DOMAIN heap
        /\ \A out \in c.outs : out[1] \in DOMAIN heap \ Fences /\ out[2] <= s.len[out[1]]
    BY <1>2, <2>1, <2>2 DEF FitsIn
  <2>4. {c.ins[j][1] : j \in DOMAIN c.ins} \subseteq DOMAIN heap
    BY <2>3
  <2>5. {out[1] : out \in c.outs} \subseteq DOMAIN heap
    BY <2>3
  <2>6. \A out \in c.outs : out[2] <= LenOf(out[1])
    BY <1>2, <2>3 DEF LenOf
  <2>7. QED BY <2>1, <2>2, <2>4, <2>5, <2>6
<1>5. TouchesLive /\ WritesInBounds
  BY <1>4 DEF TouchesLive, WritesInBounds
<1>6. LeavesNothingBehind
  <2>1. SUFFICES ASSUME result = "ok"
                 PROVE  DOMAIN heap \subseteq own /\ (hostCall.fn = "drop" => own \subseteq {"params"} \cup Tensors)
    BY DEF LeavesNothingBehind
  <2>2. Rested /\ \E t : MirrorsNow(t) /\ Has({}, {}, t)
    BY <2>1 DEF VkInv
  <2>3. DOMAIN heap \subseteq own
    BY <2>2 DEF MirrorsNow, Mirrors, Has
  <2>4. QED BY <2>1, <2>2, <2>3 DEF Rested
<1>7. QED BY <1>5, <1>6 DEF BuffersSound

\* Whatever calls are made, whichever driver calls fail and in whatever order the device
\* runs what it was given: nothing is freed under the device, no kernel or copy writes
\* beyond its buffers, and a call that succeeds leaves only what Gpu keeps.
THEOREM BuffersAreSound == VkSpec => []BuffersSound
<1>1. VkInit => VkInv
  BY VkStarts
<1>2. VkInv /\ [VkNext]_vkVars => VkInv'
  BY VkStep
<1>3. VkInv => BuffersSound
  BY InvIsSound
<1>4. QED BY <1>1, <1>2, <1>3, PTL DEF VkSpec
=============================================================================
