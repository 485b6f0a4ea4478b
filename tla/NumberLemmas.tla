---------------------------- MODULE NumberLemmas ----------------------------
(***************************************************************************)
(* Finite sets of numbers: their least and greatest members, and that they *)
(* can be listed in order.  Sequence numbers and receipts are such sets.   *)
(***************************************************************************)
EXTENDS Integers, FiniteSets, FiniteSetTheorems, WellFoundedInduction,
        NaturalsInduction, TLAPS

LEMMA LeastNumber ==
    ASSUME NEW S, S \subseteq Nat, S # {}
    PROVE  \E x \in S : \A y \in S : x <= y
<1> DEFINE R == OpToRel(<, Nat)
<1>1. PICK x \in S : \A y \in S : <<y, x>> \notin R
  <2>1. IsWellFoundedOn(R, Nat)
    BY NatLessThanWellFounded, Zenon
  <2> HIDE DEF R
  <2> QED
    BY <2>1, WFMin, Zenon
<1>2. \A y \in S : ~(y < x)
  BY <1>1 DEF OpToRel
<1> QED
  BY <1>2

LEMMA GreatestNumber ==
    ASSUME NEW n \in Nat, NEW S, S \subseteq 1..n, S # {}
    PROVE  \E x \in S : \A y \in S : y <= x
<1> DEFINE T == {k \in 0..n : n - k \in S}
<1>1. \A x \in S : n - x \in T
  <2> TAKE x \in S
  <2>1. x \in 1..n /\ n - (n - x) = x
    OBVIOUS
  <2> QED
    BY <2>1
<1>2. T \subseteq Nat /\ T # {}
  <2>1. T # {}
    BY <1>1
  <2>2. \A k \in T : k \in Nat
    OBVIOUS
  <2> QED
    BY <2>1, <2>2
<1>3. PICK k \in T : \A l \in T : k <= l
  <2> HIDE DEF T
  <2> QED
    BY <1>2, LeastNumber
<1>4. \A y \in S : y <= n - k
  <2> TAKE y \in S
  <2>1. n - y \in T
    BY <1>1
  <2>2. k <= n - y
    <3> HIDE DEF T
    <3> QED
      BY <2>1, <1>3
  <2>3. k \in Int /\ y \in Int
    OBVIOUS
  <2> QED
    BY <2>2, <2>3
<1> QED
  BY <1>3, <1>4

LEMMA IntervalSubset ==
    ASSUME NEW n \in Nat, NEW S, S \subseteq 1..n
    PROVE  IsFiniteSet(S) /\ Cardinality(S) \in Nat
<1>1. IsFiniteSet(1..n)
  BY FS_Interval
<1> QED
  BY <1>1, FS_Subset, FS_CardinalityType

\* Lists(f, S): f runs through members of S, each lower than the next.
Lists(f, S) ==
    /\ f \in [1..Cardinality(S) -> S]
    /\ \A i, j \in DOMAIN f : i < j => f[i] < f[j]

\* By the smallest set that cannot be listed: take its greatest member away.
LEMMA CanBeListed ==
    ASSUME NEW n \in Nat, NEW S, S \subseteq 1..n
    PROVE  \E f : Lists(f, S)
<1> DEFINE Unlisted == {k \in Nat : \E A \in SUBSET (1..n) :
                            Cardinality(A) = k /\ ~ \E f : Lists(f, A)}
<1>1. CASE Unlisted = {}
  BY <1>1, IntervalSubset
<1>2. CASE Unlisted # {}
  <2>1. PICK k \in Unlisted : \A l \in Unlisted : k <= l
    <3> Unlisted \subseteq Nat
      OBVIOUS
    <3> HIDE DEF Unlisted
    <3> QED
      BY <1>2, LeastNumber
  <2>2. PICK A \in SUBSET (1..n) : Cardinality(A) = k /\ ~ \E f : Lists(f, A)
    BY <2>1
  <2>3. IsFiniteSet(A) /\ k \in Nat
    BY <2>1, IntervalSubset
  <2>4. CASE A = {}
    <3>1. Cardinality(A) = 0
      BY <2>4, FS_EmptySet
    <3>2. Lists([i \in 1..0 |-> 0], A)
      BY <2>4, <3>1 DEF Lists
    <3> QED
      BY <2>2, <3>2
  <2>5. CASE A # {}
    <3>1. PICK x \in A : \A y \in A : y <= x
      BY <2>5, GreatestNumber
    <3> DEFINE B == A \ {x}
    <3>2. /\ Cardinality(B) = k - 1
          /\ k - 1 \in Nat
      <4>1. Cardinality(B) = Cardinality(A) - 1
        BY <2>3, FS_RemoveElement
      <4>2. Cardinality(B) \in Nat
        BY <2>3, IntervalSubset
      <4> QED
        BY <2>2, <4>1, <4>2
    <3>3. PICK f : Lists(f, B)
      <4>1. k - 1 \notin Unlisted
        BY <2>1, <2>3
      <4>2. B \in SUBSET (1..n)
        OBVIOUS
      <4> HIDE DEF B
      <4> QED
        BY <3>2, <4>1, <4>2
    <3> DEFINE g == [i \in 1..k |-> IF i = k THEN x ELSE f[i]]
    <3>4. /\ f \in [1..(k - 1) -> B]
          /\ \A i, j \in 1..(k - 1) : i < j => f[i] < f[j]
      BY <3>2, <3>3 DEF Lists
    <3>5. \A y \in B : y \in Nat /\ y < x
      BY <3>1
    <3>6. g \in [1..k -> A]
      BY <2>3, <3>4
    <3>7. \A i, j \in 1..k : i < j => g[i] < g[j]
      <4> SUFFICES ASSUME NEW i \in 1..k, NEW j \in 1..k, i < j
                   PROVE  g[i] < g[j]
        OBVIOUS
      <4>1. i \in 1..(k - 1) /\ f[i] \in B /\ g[i] = f[i]
        BY <2>3, <3>4
      <4>2. CASE j = k
        BY <4>1, <4>2, <3>5
      <4>3. CASE j # k
        BY <4>1, <4>3, <3>4, <2>3
      <4> QED
        BY <4>2, <4>3
    <3>8. Lists(g, A)
      <4> HIDE DEF g
      <4> QED
        BY <2>2, <3>6, <3>7 DEF Lists
    <3> QED
      BY <2>2, <3>8
  <2> QED
    BY <2>4, <2>5
<1> QED
  BY <1>1, <1>2

\* The members of S that i bounds: as many as the rank of i.
AtOrBelow(S, i) == {j \in S : j <= i}

\* A finite set of numbers has a member of every rank.
LEMMA RankExists ==
    ASSUME NEW n \in Nat, NEW S, S \subseteq 1..n, NEW k \in 1..Cardinality(S)
    PROVE  \E i \in S : Cardinality(AtOrBelow(S, i)) = k
<1> USE DEF AtOrBelow
<1> DEFINE Bad == {c \in Nat : \E A \in SUBSET (1..n) : Cardinality(A) = c /\ k <= c
                        /\ ~ \E i \in A : Cardinality({j \in A : j <= i}) = k}
<1>1. CASE Bad = {}
  <2>1. Cardinality(S) \in Nat
    BY IntervalSubset
  <2>2. Cardinality(S) \notin Bad
    BY <1>1
  <2> QED
    BY <2>1, <2>2
<1>2. CASE Bad # {}
  <2>1. PICK c \in Bad : \A l \in Bad : c <= l
    <3> Bad \subseteq Nat
      OBVIOUS
    <3> HIDE DEF Bad
    <3> QED
      BY <1>2, LeastNumber
  <2>2. PICK A \in SUBSET (1..n) : /\ Cardinality(A) = c /\ k <= c
                                  /\ ~ \E i \in A : Cardinality({j \in A : j <= i}) = k
    BY <2>1
  <2>3. IsFiniteSet(A) /\ c \in Nat
    BY <2>1, IntervalSubset
  <2>4. k \in Nat \ {0}
    <3>1. Cardinality(S) \in Nat
      BY IntervalSubset
    <3> QED
      BY <3>1
  <2>5. A # {}
    <3>1. SUFFICES ASSUME A = {} PROVE FALSE
      OBVIOUS
    <3>2. c = 0
      BY <3>1, <2>2, FS_EmptySet
    <3> QED
      BY <3>2, <2>2, <2>4
  <2>6. PICK x \in A : \A y \in A : y <= x
    BY <2>5, GreatestNumber
  <2>7. CASE k = c
    <3>1. {j \in A : j <= x} = A
      BY <2>6
    <3> QED
      BY <3>1, <2>2, <2>7
  <2>8. CASE k # c
    <3> DEFINE B == A \ {x}
    <3>1. Cardinality(B) = c - 1 /\ c - 1 \in Nat /\ k <= c - 1
      <4>1. Cardinality(B) = Cardinality(A) - 1
        BY <2>3, FS_RemoveElement
      <4>2. Cardinality(B) \in Nat
        BY <2>3, IntervalSubset
      <4> QED
        BY <2>2, <2>3, <2>4, <2>8, <4>1, <4>2
    <3>2. PICK i \in B : Cardinality({j \in B : j <= i}) = k
      <4>1. c - 1 \notin Bad
        BY <2>1, <2>3
      <4>2. B \in SUBSET (1..n)
        OBVIOUS
      <4> HIDE DEF B
      <4> QED
        BY <3>1, <4>1, <4>2
    <3>3. {j \in A : j <= i} = {j \in B : j <= i}
      <4>1. i \in Int /\ x \in Int /\ i <= x /\ i # x
        BY <2>6
      <4>2. ~(x <= i)
        BY <4>1
      <4> QED
        BY <4>2
    <3> QED
      BY <2>2, <3>2, <3>3
  <2> QED
    BY <2>7, <2>8
<1> QED
  BY <1>1, <1>2
=============================================================================
