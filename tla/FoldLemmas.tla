----------------------------- MODULE FoldLemmas -----------------------------
(* What FoldLeft of SequencesExt computes over a sequence of amounts: induction *)
(* over the natural numbers as sets of them, for the sums of QuotePricing.     *)
EXTENDS Integers, SequencesExt, WellFoundedInduction, TLAPS

\* Induction: a set of naturals with zero and its successors has them all.
LEMMA NatSetInduction ==
    ASSUME NEW S \in SUBSET Nat, 0 \in S, \A n \in S : n + 1 \in S
    PROVE  S = Nat
<1> SUFFICES ASSUME Nat \ S # {} PROVE FALSE
  OBVIOUS
<1> DEFINE R == OpToRel(<, Nat)
<1>1. IsWellFoundedOn(R, Nat)
  BY NatLessThanWellFounded
<1>2. PICK m \in Nat \ S : \A n \in Nat \ S : <<n, m>> \notin R
  <2> HIDE DEF R
  <2> QED BY <1>1, WFMin
<1>3. \A n \in Nat \ S : ~(n < m)
  BY <1>2 DEF OpToRel
<1>4. m # 0 /\ m - 1 \in Nat /\ m - 1 < m
  OBVIOUS
<1>5. m - 1 \in S
  BY <1>3, <1>4
<1>6. QED
  BY <1>4, <1>5

\* Max is the one element that bounds the others.
LEMMA MaxOf ==
    ASSUME NEW s, NEW m \in s, s \subseteq Int, \A x \in s : m >= x
    PROVE  Max(s) = m
<1>1. Max(s) \in s /\ \A x \in s : Max(s) >= x
  BY DEF Max
<1>2. Max(s) \in Int /\ m \in Int /\ Max(s) >= m /\ m >= Max(s)
  BY <1>1
<1>3. QED
  BY <1>2

\* A set of positions has its maximum.
LEMMA MaxIn ==
    ASSUME NEW n \in Nat, NEW s \in SUBSET (1..n), s # {}
    PROVE  Max(s) \in s
<1> DEFINE S == {k \in Nat : \A t \in SUBSET (1..k) : t # {} => Max(t) \in t}
<1>1. 0 \in S
  <2>1. 1..0 = {}
    OBVIOUS
  <2>2. QED
    BY <2>1
<1>2. ASSUME NEW k \in S PROVE k + 1 \in S
  <2>1. ASSUME NEW t \in SUBSET (1..(k+1)), t # {} PROVE Max(t) \in t
    <3>1. CASE k + 1 \in t
      <4>1. t \subseteq Int /\ \A x \in t : k + 1 >= x
        BY <2>1
      <4>2. QED
        BY <3>1, <4>1, MaxOf
    <3>2. CASE k + 1 \notin t
      <4>1. t \in SUBSET (1..k)
        BY <3>2
      <4>2. QED
        BY <4>1, <2>1, <1>2
    <3>3. QED
      BY <3>1, <3>2
  <2>2. QED
    BY <2>1, <1>2
<1> HIDE DEF S
<1>3. S = Nat
  <2>1. S \in SUBSET Nat
    BY DEF S
  <2> QED
   BY <1>1, <1>2, <2>1, NatSetInduction
<1>4. QED
  BY <1>3 DEF S

\* f is the function FoldLeft chooses to sum g over D: last position first.
SumsOver(f, D, g) ==
    f = [s \in SUBSET D |-> IF s = {} THEN 0 ELSE f[s \ {Max(s)}] + g[Max(s)]]

\* There is such a function, on the positions of any sequence.
LEMMA FoldExists ==
    ASSUME NEW n \in Nat, NEW g
    PROVE  \E f : SumsOver(f, 1..n, g)
<1> DEFINE S == {k \in Nat : \E f : SumsOver(f, 1..k, g)}
<1>1. 0 \in S
  <2> DEFINE f == [s \in SUBSET (1..0) |-> 0]
  <2>1. SumsOver(f, 1..0, g)
    BY DEF SumsOver
  <2>2. QED
    BY <2>1
<1>2. ASSUME NEW k \in S PROVE k + 1 \in S
  <2>1. PICK f : SumsOver(f, 1..k, g)
    OBVIOUS
  <2> DEFINE T == SUBSET (1..(k + 1))
             h == [s \in T |-> IF k + 1 \in s THEN f[s \ {k + 1}] + g[k + 1] ELSE f[s]]
  <2>2. ASSUME NEW s \in T
        PROVE  h[s] = IF s = {} THEN 0 ELSE h[s \ {Max(s)}] + g[Max(s)]
    <3>1. CASE k + 1 \in s
      <4>1. Max(s) = k + 1
        <5>1. s \subseteq Int /\ \A x \in s : k + 1 >= x
          OBVIOUS
        <5>2. QED
          BY <3>1, <5>1, MaxOf
      <4>2. s \ {k + 1} \in T /\ k + 1 \notin s \ {k + 1}
        OBVIOUS
      <4>3. h[s \ {k + 1}] = f[s \ {k + 1}]
        BY <4>2
      <4>4. h[s] = f[s \ {k + 1}] + g[k + 1]
        BY <3>1
      <4> HIDE DEF h
      <4>5. QED
        BY <3>1, <4>1, <4>3, <4>4
    <3>2. CASE k + 1 \notin s
      <4>1. s \in SUBSET (1..k)
        BY <3>2
      <4>2. f[s] = IF s = {} THEN 0 ELSE f[s \ {Max(s)}] + g[Max(s)]
        BY <2>1, <4>1 DEF SumsOver
      <4>3. s \ {Max(s)} \in T /\ k + 1 \notin s \ {Max(s)}
        BY <3>2
      <4>4. h[s \ {Max(s)}] = f[s \ {Max(s)}] /\ h[s] = f[s]
        BY <3>2, <4>3
      <4> HIDE DEF h
      <4>5. QED
        BY <4>2, <4>4
    <3>3. QED
      BY <3>1, <3>2
  <2>3. SumsOver(h, 1..(k + 1), g)
    <3>1. h = [s \in T |-> h[s]]
      OBVIOUS
    <3> HIDE DEF h
    <3>2. QED
      BY <3>1, <2>2 DEF SumsOver
  <2>4. QED
    BY <2>3
<1> HIDE DEF S
<1>3. S = Nat
  <2>1. S \in SUBSET Nat
    BY DEF S
  <2> QED
    BY <1>1, <1>2, <2>1, NatSetInduction
<1>4. QED
  BY <1>3 DEF S

\* A sum of naturals is one.
LEMMA FoldIsNat ==
    ASSUME NEW n \in Nat, NEW g \in [1..n -> Nat], NEW f, SumsOver(f, 1..n, g)
    PROVE  f[1..n] \in Nat
<1> DEFINE S == {k \in Nat : k <= n => f[1..k] \in Nat}
<1>1. 0 \in S
  BY DEF SumsOver
<1>2. ASSUME NEW k \in S PROVE k + 1 \in S
  <2> SUFFICES ASSUME k + 1 <= n PROVE f[1..(k + 1)] \in Nat
    OBVIOUS
  <2>0. k \in Nat /\ k + 1 \in 1..(k + 1)
    OBVIOUS
  <2>1. Max(1..(k + 1)) = k + 1
    <3>1. 1..(k + 1) \subseteq Int /\ \A x \in 1..(k + 1) : k + 1 >= x
      BY <2>0
    <3>2. QED
      BY <2>0, <3>1, MaxOf
  <2>2. (1..(k + 1)) \ {k + 1} = 1..k
    OBVIOUS
  <2>3. 1..(k + 1) \in SUBSET (1..n) /\ 1..(k + 1) # {}
    <3>1. \A x \in 1..(k + 1) : x \in 1..n
      BY <2>0
    <3>2. QED
      BY <2>0, <3>1
  <2>4. f[1..(k + 1)] = f[1..k] + g[k + 1]
    BY <2>1, <2>2, <2>3 DEF SumsOver
  <2>5. QED
    BY <2>4
<1> HIDE DEF S
<1>3. S = Nat
  <2>1. S \in SUBSET Nat
    BY DEF S
  <2> QED
    BY <1>1, <1>2, <2>1, NatSetInduction
<1>4. QED
  BY <1>3 DEF S

\* The sum of a sequence of naturals.
LEMMA SumIsNat ==
    ASSUME NEW w \in Seq(Nat)
    PROVE  FoldLeft(+, 0, w) \in Nat
<1> DEFINE n == Len(w)
<1>1. n \in Nat /\ DOMAIN w = 1..n /\ w \in [1..n -> Nat]
  OBVIOUS
<1>2. \E f : SumsOver(f, 1..n, w)
  BY <1>1, FoldExists
<1>3. SumsOver(CHOOSE f : SumsOver(f, 1..n, w), 1..n, w)
  BY <1>2
<1>4. FoldLeft(+, 0, w) = (CHOOSE f : SumsOver(f, 1..n, w))[1..n]
  BY <1>1 DEF SumsOver, FoldLeft, MapThenFoldSet
<1>5. QED
  BY <1>1, <1>3, <1>4, FoldIsNat
=============================================================================
