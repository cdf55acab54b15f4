-------------------------------- MODULE Sampler --------------------------------
(***************************************************************************)
(* Sampler::sample of src/sampler.rs: the greedy choice, and the chain of    *)
(* top-k, softmax, min-p, top-p and the draw.                               *)
(*                                                                          *)
(* A logit is a small integer and its exponential a weight that grows with    *)
(* it; a probability is a weight over the sum of the weights, compared by     *)
(* multiplying out, and the uniform number is u in Draws-ths.  Rounding is    *)
(* left out.  select_nth_unstable_by promises which candidates come first,    *)
(* of equal logits any, and in any order.                                    *)
(***************************************************************************)
EXTENDS Integers, SequencesExt, FiniteSetsExt, Pieces

CONSTANTS
  LogitRows,     \* rows of logits, as sequences
  Exp,      \* logit -> weight, at the temperature of the call
  Configs,  \* [greedy, k, minP, topP]: probabilities as <<numerator, denominator>>
  Draws     \* u is one of 0 .. Draws - 1

ASSUME SamplerAssumption ==
  /\ DOMAIN Exp \subseteq Int /\ Exp \in [DOMAIN Exp -> Nat]
  /\ \A l, m \in DOMAIN Exp : l < m => Exp[l] < Exp[m]
  /\ LogitRows \subseteq Seq(DOMAIN Exp) \ {<<>>}
  /\ Configs \subseteq [greedy : BOOLEAN, k : Int, minP : Int \X (Nat \ {0}), topP : Int \X (Nat \ {0})]
  /\ Draws \in Nat

VARIABLES
  smAt,    \* "select", "minp", "topp", "draw", "done" or "off"
  logits, config,
  order,   \* the candidates, in the order of scores
  mass,    \* the sum of the softmax, over what top-k left
  pick     \* the token, 0 before

smVars == <<smAt, logits, config, order, mass, pick>>

Tokens == DOMAIN logits
Weight(t) == Exp[logits[t]]
Running(s) == Sums([i \in DOMAIN s |-> Weight(s[i])])
SumOver(s) == Running(s)[Len(s)]

SmIdle == smAt = "off" /\ logits = <<>> /\ config = [k |-> 0] /\ order = <<>> /\ mass = 0 /\ pick = 0

SmInit ==
  /\ smAt = "select" /\ logits \in LogitRows /\ config \in Configs
  /\ order = <<>> /\ mass = 0 /\ pick = 0

\* The first of the largest.
Greedy ==
  /\ smAt = "select" /\ config.greedy
  /\ pick' = Min({t \in Tokens : \A o \in Tokens : logits[o] <= logits[t]})
  /\ smAt' = "done"
  /\ UNCHANGED <<logits, config, order, mass>>

\* The k largest; all where k is not positive or not below the vocabulary.
Limit == IF config.k > 0 /\ config.k < Len(logits) THEN config.k ELSE Len(logits)
Largest(s) == \A t \in Tokens \ Range(s) : \A o \in Range(s) : logits[t] <= logits[o]
Select ==
  /\ smAt = "select" /\ ~config.greedy
  /\ \E S \in kSubset(Limit, Tokens) :
       /\ order' \in SetToSeqs(S) /\ Largest(order')
       /\ Limit = Len(logits) => order' = [i \in Tokens |-> i]
       /\ mass' = SumOver(order')
  /\ smAt' = "minp"
  /\ UNCHANGED <<logits, config, pick>>

\* p >= min_p * max_p
MinPCut(t) == Weight(t) * config.minP[2] >= config.minP[1] * Max({Weight(o) : o \in Range(order)})
MinP ==
  /\ smAt = "minp"
  /\ order' = IF 0 < config.minP[1] /\ config.minP[1] < config.minP[2]
              THEN Sifted(order, {t \in Tokens : MinPCut(t)}) ELSE order
  /\ smAt' = "topp"
  /\ UNCHANGED <<logits, config, mass, pick>>

\* Sorted by falling probability, stably; then cut behind the one that reaches
\* top_p of the softmax.
Ahead(s, a, b) ==
  Weight(a) > Weight(b) \/ (Weight(a) = Weight(b) /\
    (CHOOSE i \in DOMAIN s : s[i] = a) < (CHOOSE i \in DOMAIN s : s[i] = b))
Falling(s, r) == \A i, j \in DOMAIN s : i < j => Ahead(r, s[i], s[j])
Reaches(s, i) == Running(s)[i] * config.topP[2] >= config.topP[1] * mass
Kept_Above(s) ==
  LET is == {i \in DOMAIN s : Reaches(s, i) /\ Running(s)[i] * config.topP[2] > config.topP[1] * mass} IN
  IF config.topP[1] < config.topP[2] /\ is # {} THEN Min(is) ELSE Len(s)
Kept(s) ==
  LET is == {i \in DOMAIN s : Reaches(s, i)} IN
  IF config.topP[1] < config.topP[2] /\ is # {} THEN Min(is) ELSE Len(s)
TopP ==
  /\ smAt = "topp"
  /\ \E s \in SetToSeqs(Range(order)) : Falling(s, order) /\ order' = SubSeq(s, 1, Kept(s))
  /\ smAt' = "draw"
  /\ UNCHANGED <<logits, config, mass, pick>>

\* r = u * total; the first whose running sum reaches r.
Chosen(s, u) ==
  LET is == {i \in DOMAIN s : Running(s)[i] * Draws >= u * SumOver(s)} IN
  IF is = {} THEN Last(s) ELSE s[Min(is)]
DrawOne ==
  /\ smAt = "draw"
  /\ \E u \in 0..(Draws - 1) : pick' = Chosen(order, u)
  /\ smAt' = "done"
  /\ UNCHANGED <<logits, config, order, mass>>

SmNext == Greedy \/ Select \/ MinP \/ TopP \/ DrawOne
SmSpec == SmInit /\ [][SmNext]_smVars

-----------------------------------------------------------------------------
\* What the settings allow: fewer than k tokens are larger, the weight is at least
\* min_p of the largest, and the larger ones that min_p leaves do not reach top_p
\* of the candidates' mass yet; a largest one is always allowed.
WeightOf(S) == Total([t \in Tokens |-> IF t \in S THEN Weight(t) ELSE 0])
Larger(t) == {o \in Tokens : logits[o] > logits[t]}
Heavy(t) ==
  LET best == Max({Weight(o) : o \in Tokens}) IN
  config.minP[1] \in 1..(config.minP[2] - 1) => Weight(t) * config.minP[2] >= config.minP[1] * best
Allowed(t) ==
  /\ Cardinality(Larger(t)) < Limit
  /\ Heavy(t)
  /\ config.topP[1] < config.topP[2] /\ Larger(t) # {} =>
       WeightOf({o \in Larger(t) : Heavy(o)}) * config.topP[2] < config.topP[1] * mass

PicksWhatIsAllowed ==
  pick # 0 => IF config.greedy THEN Larger(pick) = {} ELSE Allowed(pick)

\* However the settings combine, a largest token stays a candidate, so that there
\* is always one to draw.
BestStaysACandidate ==
  smAt \in {"minp", "topp", "draw"} => \E t \in Range(order) : Larger(t) = {}

\* There is always a token to draw, and the one drawn passes every cut that the
\* settings ask for.
DrawIsAllowed == PicksWhatIsAllowed /\ BestStaysACandidate
====
