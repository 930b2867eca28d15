------------------------------ MODULE SetLemmas ------------------------------
(***************************************************************************)
(* The least and the greatest element of sets of natural numbers, and sums *)
(* over sets, as Min, Max and MapThenSumSet of the community modules       *)
(* choose and fold them.                                                   *)
(***************************************************************************)
EXTENDS Integers, FiniteSetsExt, FiniteSetTheorems, WellFoundedInduction, TLAPS

\* A nonempty set of naturals has its minimum.
LEMMA MinOfNats ==
    ASSUME NEW S \in SUBSET Nat, S # {}
    PROVE  Min(S) \in S /\ \A y \in S : Min(S) <= y
<1>1. PICK x \in S : \A y \in S : ~(<<y, x>> \in OpToRel(<, Nat))
  BY NatLessThanWellFounded, WFMin
<1>2. ASSUME NEW y \in S PROVE x <= y
  <2>1. x \in Nat /\ y \in Nat
    OBVIOUS
  <2>2. ~(y < x)
    BY <1>1, <2>1 DEF OpToRel
  <2>. QED  BY <2>1, <2>2
<1>. QED  BY <1>2 DEF Min

\* A nonempty bounded set of naturals has its maximum.
LEMMA MaxOfBounded ==
    ASSUME NEW n \in Nat, NEW S \in SUBSET (0 .. n), S # {}
    PROVE  Max(S) \in S /\ \A y \in S : y <= Max(S)
<1>. DEFINE T == {n - y : y \in S}
<1>1. T \subseteq Nat /\ T # {}
  OBVIOUS
<1>2. Min(T) \in T /\ \A t \in T : Min(T) <= t
  BY <1>1, MinOfNats
<1>3. PICK x \in S : Min(T) = n - x
  BY <1>2
<1>4. ASSUME NEW y \in S PROVE y <= x
  <2>1. n - x <= n - y
    BY <1>2, <1>3
  <2>. QED  BY <2>1
<1>. QED  BY <1>4 DEF Max

-----------------------------------------------------------------------------
(* Induction, for sets instead of predicates. *)

\* A set of numbers that holds 0 and with each number the next one.
LEMMA NumberInduction ==
    ASSUME NEW G, 0 \in G, \A n \in Nat : n \in G => n + 1 \in G
    PROVE  \A n \in Nat : n \in G
<1>. DEFINE Bad == {n \in Nat : n \notin G}
<1>. SUFFICES ASSUME Bad # {} PROVE FALSE
  OBVIOUS
<1>1. PICK m \in Bad : \A n \in Bad : m <= n
  <2>1. Bad \in SUBSET Nat
    OBVIOUS
  <2>. HIDE DEF Bad
  <2>. QED  BY <2>1, MinOfNats
<1>2. m \in Nat /\ m # 0
  BY <1>1
<1>3. m - 1 \in Nat /\ m - 1 \notin Bad
  BY <1>1, <1>2
<1>. QED  BY <1>1, <1>2, <1>3

\* A set of finite sets that holds each set whose smaller subsets it holds.
LEMMA SubsetInduction ==
    ASSUME NEW S, IsFiniteSet(S), NEW G,
           \A T \in SUBSET S : (\A U \in SUBSET T : U # T => U \in G) => T \in G
    PROVE  \A T \in SUBSET S : T \in G
<1>. DEFINE Bad == {T \in SUBSET S : T \notin G}
<1>. SUFFICES ASSUME Bad # {} PROVE FALSE
  OBVIOUS
<1>1. IsWellFoundedOn(StrictSubsetOrdering(S), SUBSET S)
  <2>1. FiniteSubsetsOf(S) = SUBSET S
    BY FS_FiniteSubsetsOfFinite
  <2>2. IsWellFoundedOn(StrictSubsetOrdering(S), FiniteSubsetsOf(S))
    BY FS_StrictSubsetOrderingWellFounded
  <2>. QED  BY <2>1, <2>2, Zenon
<1>2. PICK T \in Bad : \A U \in Bad : <<U, T>> \notin StrictSubsetOrdering(S)
  <2>1. Bad \subseteq SUBSET S
    OBVIOUS
  <2>. HIDE DEF Bad
  <2>. QED  BY <1>1, <2>1, WFMin
<1>3. ASSUME NEW U \in SUBSET T, U # T PROVE U \in G
  <2>1. <<U, T>> \in StrictSubsetOrdering(S)
    BY <1>2, <1>3 DEF StrictSubsetOrdering
  <2>. QED  BY <1>2, <2>1
<1>. QED  BY <1>2, <1>3

-----------------------------------------------------------------------------
(* Sums. *)

Pick(s) == CHOOSE x \in s : TRUE

\* h adds up F over the subsets of S, each from the element that is picked.
Unfolds(h, F, S) ==
    h = [s \in SUBSET S |-> IF s = {} THEN 0 ELSE F[Pick(s)] + h[s \ {Pick(s)}]]

\* P[k] is the sum of the first k of the n numbers F.
PrefixSums(P, F, n) ==
    /\ \A j \in 1 .. n : F[j] \in Int
    /\ P \in [0 .. n -> Int] /\ P[0] = 0
    /\ \A k \in 1 .. n : P[k] = P[k - 1] + F[k]

\* The element that is picked is one of the set.
LEMMA PickIn ==
    ASSUME NEW s, s # {}
    PROVE  Pick(s) \in s
BY DEF Pick

\* The sums over all subsets of a finite set exist.
LEMMA SumsExist ==
    ASSUME NEW S, IsFiniteSet(S), NEW F, \A x \in S : F[x] \in Int
    PROVE  \E h \in [SUBSET S -> Int] : Unfolds(h, F, S)
<1>. DEFINE Upto(n) == {s \in SUBSET S : Cardinality(s) <= n}
            Sum(h, s) == IF s = {} THEN 0 ELSE F[Pick(s)] + h[s \ {Pick(s)}]
            G == {n \in Nat : \E h \in [Upto(n) -> Int] : \A s \in Upto(n) : h[s] = Sum(h, s)}
<1>1. \A s \in SUBSET S : Cardinality(s) \in Nat /\ (Cardinality(s) = 0 <=> s = {})
  BY FS_Subset, FS_CardinalityType, FS_EmptySet
<1>2. ASSUME NEW s \in SUBSET S, s # {}
      PROVE  /\ F[Pick(s)] \in Int /\ s \ {Pick(s)} \in SUBSET S
             /\ Cardinality(s \ {Pick(s)}) = Cardinality(s) - 1
  BY <1>2, PickIn, FS_Subset, FS_RemoveElement
<1>3. 0 \in G
  <2>. DEFINE h == [s \in Upto(0) |-> 0]
  <2>1. \A s \in Upto(0) : s = {}
    BY <1>1
  <2>2. h \in [Upto(0) -> Int] /\ \A s \in Upto(0) : h[s] = Sum(h, s)
    BY <2>1
  <2>. QED  BY <2>2
<1>4. ASSUME NEW n \in Nat, n \in G PROVE n + 1 \in G
  <2>1. PICK h \in [Upto(n) -> Int] : \A s \in Upto(n) : h[s] = Sum(h, s)
    BY <1>4
  <2>. DEFINE g == [s \in Upto(n + 1) |-> Sum(h, s)]
  <2>2. ASSUME NEW s \in Upto(n + 1), s # {}
        PROVE  s \ {Pick(s)} \in Upto(n) /\ F[Pick(s)] \in Int
    BY <1>1, <1>2, <2>2
  <2>3. \A s \in Upto(n + 1) : Sum(h, s) \in Int
    BY <2>1, <2>2
  <2>4. g \in [Upto(n + 1) -> Int]
    BY <2>3
  <2>5. \A s \in Upto(n) : s \in Upto(n + 1) /\ g[s] = h[s]
    BY <1>1, <2>1
  <2>6. \A s \in Upto(n + 1) : g[s] = Sum(g, s)
    BY <2>2, <2>5
  <2>. HIDE DEF g
  <2>7. \E k \in [Upto(n + 1) -> Int] : \A s \in Upto(n + 1) : k[s] = Sum(k, s)
    BY <2>4, <2>6, Zenon
  <2>8. n + 1 \in Nat
    OBVIOUS
  <2>. QED  BY <2>7, <2>8, Zenon
<1>. HIDE DEF G
<1>5. \A n \in Nat : n \in G
  BY <1>3, <1>4, NumberInduction
<1>6. Cardinality(S) \in Nat /\ Upto(Cardinality(S)) = SUBSET S
  BY FS_CardinalityType, FS_Subset
<1>7. PICK h \in [SUBSET S -> Int] : \A s \in SUBSET S : h[s] = Sum(h, s)
  BY <1>5, <1>6 DEF G
<1>8. Unfolds(h, F, S)
  BY <1>7 DEF Unfolds
<1>. QED  BY <1>8

\* Any element of a set can be added last.
LEMMA SumAny ==
    ASSUME NEW S, IsFiniteSet(S), NEW F, \A x \in S : F[x] \in Int,
           NEW h, Unfolds(h, F, S)
    PROVE  /\ \A T \in SUBSET S : h[T] \in Int
           /\ h[{}] = 0
           /\ \A T \in SUBSET S : \A x \in T : h[T] = F[x] + h[T \ {x}]
<1>1. \A T \in SUBSET S : h[T] = IF T = {} THEN 0 ELSE F[Pick(T)] + h[T \ {Pick(T)}]
  BY DEF Unfolds
<1>. DEFINE G == {T \in SUBSET S :
                    h[T] \in Int /\ \A x \in T : h[T] = F[x] + h[T \ {x}]}
<1>2. ASSUME NEW T \in SUBSET S, \A U \in SUBSET T : U # T => U \in G
      PROVE  T \in G
  <2>1. CASE T = {}
    <3>1. h[T] = 0
      BY <1>1, <2>1
    <3>. QED  BY <2>1, <3>1
  <2>2. CASE T # {}
    <3>. DEFINE p == Pick(T)
    <3>1. p \in T /\ F[p] \in Int /\ h[T] = F[p] + h[T \ {p}]
      BY <1>1, <2>2, PickIn
    <3>. HIDE DEF p
    <3>2. h[T \ {p}] \in Int
      BY <1>2, <3>1
    <3>3. ASSUME NEW x \in T, x # p PROVE h[T] = F[x] + h[T \ {x}]
      <4>1. T \ {p} \in G /\ x \in T \ {p} /\ T \ {x} \in G /\ p \in T \ {x}
        BY <1>2, <3>1, <3>3
      <4>2. (T \ {p}) \ {x} = (T \ {x}) \ {p}
        OBVIOUS
      <4>3. (T \ {p}) \ {x} \in G
        BY <1>2, <3>1
      <4>4. /\ h[T \ {p}] = F[x] + h[(T \ {p}) \ {x}]
            /\ h[T \ {x}] = F[p] + h[(T \ {x}) \ {p}]
        BY <4>1
      <4>5. h[(T \ {p}) \ {x}] \in Int /\ F[x] \in Int
        BY <4>3
      <4>6. h[T \ {x}] = F[p] + h[(T \ {p}) \ {x}]
        BY <4>2, <4>4
      <4>. DEFINE a == h[(T \ {p}) \ {x}]
                  b == h[T \ {p}]
                  c == h[T \ {x}]
      <4>7. h[T] = F[p] + b /\ b = F[x] + a /\ c = F[p] + a
            /\ a \in Int /\ F[x] \in Int /\ F[p] \in Int
        BY <3>1, <4>4, <4>5, <4>6
      <4>. HIDE DEF a, b, c
      <4>8. h[T] = F[x] + c
        BY <4>7
      <4>. QED  BY <4>8 DEF c
    <3>4. h[T] \in Int
      BY <3>1, <3>2
    <3>. QED  BY <3>1, <3>3, <3>4
  <2>. QED  BY <2>1, <2>2
<1>. HIDE DEF G
<1>3. \A T \in SUBSET S : T \in G
  BY <1>2, SubsetInduction
<1>. QED  BY <1>1, <1>3 DEF G

\* Sums over longer and longer intervals.
LEMMA IntervalSums ==
    ASSUME NEW n \in Nat, NEW F, \A j \in 1 .. n : F[j] \in Int
    PROVE  \E P : PrefixSums(P, F, n)
<1>1. IsFiniteSet(1 .. n)
  BY FS_Interval
<1>. DEFINE S == 1 .. n
<1>0. \A x \in S : F[x] \in Int
  OBVIOUS
<1>. HIDE DEF S
<1>2. PICK h \in [SUBSET S -> Int] : Unfolds(h, F, S)
  BY <1>0, <1>1, SumsExist DEF S
<1>3. /\ h[{}] = 0
      /\ \A T \in SUBSET S : \A x \in T : h[T] = F[x] + h[T \ {x}]
  <2>1. IsFiniteSet(S)
    BY <1>1 DEF S
  <2>. QED  BY <1>0, <1>2, <2>1, SumAny
<1>. DEFINE P == [k \in 0 .. n |-> h[1 .. k]]
<1>4. \A k \in 0 .. n : 1 .. k \in SUBSET S
  BY DEF S
<1>5. P \in [0 .. n -> Int]
  BY <1>4
<1>6. P[0] = 0
  BY <1>3
<1>7. ASSUME NEW k \in 1 .. n PROVE P[k] = P[k - 1] + F[k]
  <2>1. (1 .. k) \ {k} = 1 .. k - 1 /\ k \in 1 .. k
    OBVIOUS
  <2>2. h[1 .. k] = F[k] + h[1 .. k - 1]
    <3>. DEFINE T == 1 .. k
    <3>1. T \in SUBSET S /\ k \in T /\ T \ {k} = 1 .. k - 1
      BY <1>4, <2>1
    <3>. HIDE DEF T
    <3>2. h[T] = F[k] + h[T \ {k}]
      BY <1>3, <3>1
    <3>. QED  BY <3>1, <3>2 DEF T
  <2>3. P[k] = h[1 .. k] /\ P[k - 1] = h[1 .. k - 1] /\ P[k - 1] \in Int
    BY <1>5
  <2>. QED  BY <2>2, <2>3
<1>. HIDE DEF P
<1>8. PrefixSums(P, F, n)
  BY <1>5, <1>6, <1>7 DEF PrefixSums
<1>. QED  BY <1>8

\* Each sum adds a number to the sum before.
LEMMA PrefixSumStep ==
    ASSUME NEW n \in Nat, NEW F, NEW P, PrefixSums(P, F, n),
           NEW k \in 1 .. n, NEW i, i = k - 1
    PROVE  P[i] \in Int /\ P[k] = P[i] + F[k]
<1>1. i \in 0 .. n
  OBVIOUS
<1>. QED  BY <1>1 DEF PrefixSums

\* They are what the fold computes.
LEMMA IntervalSum ==
    ASSUME NEW n \in Nat, NEW F, NEW P, PrefixSums(P, F, n), NEW k \in 0 .. n
    PROVE  \A S, h : S = 1 .. k /\ Unfolds(h, F, S) => h[S] = P[k]
<1>. SUFFICES ASSUME NEW S, NEW h, S = 1 .. k, Unfolds(h, F, S)
              PROVE  h[S] = P[k]
  OBVIOUS
<1>. USE DEF PrefixSums
<1>1. IsFiniteSet(S)
  BY FS_Interval
<1>2. /\ h[{}] = 0
      /\ \A T \in SUBSET S : h[T] \in Int
      /\ \A T \in SUBSET S : \A x \in T : h[T] = F[x] + h[T \ {x}]
  <2>1. \A x \in S : F[x] \in Int
    OBVIOUS
  <2>2. Unfolds(h, F, S)
    OBVIOUS
  <2>. QED  BY ONLY <1>1, <2>1, <2>2, SumAny
<1>. DEFINE G == {i \in Nat : i <= k => h[1 .. i] = P[i]}
<1>3. 0 \in G
  BY <1>2
<1>4. ASSUME NEW i \in Nat, i \in G PROVE i + 1 \in G
  <2>. SUFFICES ASSUME i + 1 <= k PROVE h[1 .. i + 1] = P[i + 1]
    OBVIOUS
  <2>. DEFINE T == 1 .. i + 1
  <2>1. T \in SUBSET S
    OBVIOUS
  <2>2. i + 1 \in T
    OBVIOUS
  <2>3. T \ {i + 1} = 1 .. i
    <3>1. ASSUME NEW j \in T, j # i + 1 PROVE j \in 1 .. i
      BY <3>1
    <3>2. ASSUME NEW j \in 1 .. i PROVE j \in T /\ j # i + 1
      OBVIOUS
    <3>. HIDE DEF T
    <3>. QED  BY <3>1, <3>2, Zenon
  <2>. HIDE DEF T
  <2>4. h[T] = F[i + 1] + h[1 .. i]
    <3>1. h[T] = F[i + 1] + h[T \ {i + 1}]
      BY <1>2, <2>1, <2>2, Zenon
    <3>. QED  BY <2>3, <3>1, Zenon
  <2>5. h[1 .. i] = P[i] /\ P[i + 1] = P[i] + F[i + 1]
    BY <1>4
  <2>6. P[i] \in Int /\ F[i + 1] \in Int
    OBVIOUS
  <2>7. h[T] = P[i + 1]
    BY <2>4, <2>5, <2>6
  <2>. QED  BY <2>7 DEF T
<1>. HIDE DEF G
<1>5. \A i \in Nat : i \in G
  BY <1>3, <1>4, NumberInduction
<1>6. k \in G
  BY <1>5
<1>. QED  BY <1>6 DEF G

\* There is such a function.
LEMMA IntervalSumExists ==
    ASSUME NEW n \in Nat, NEW F, NEW P, PrefixSums(P, F, n), NEW k \in 0 .. n
    PROVE  \A S : S = 1 .. k => \E h : Unfolds(h, F, S)
<1>. SUFFICES ASSUME NEW S, S = 1 .. k PROVE \E h : Unfolds(h, F, S)
  OBVIOUS
<1>1. IsFiniteSet(S)
  BY FS_Interval
<1>2. \A x \in S : F[x] \in Int
  BY DEF PrefixSums
<1>. QED  BY <1>1, <1>2, SumsExist, Zenon
=============================================================================
