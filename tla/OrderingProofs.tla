---------------------------- MODULE OrderingProofs ----------------------------
(***************************************************************************)
(* Facts about finite orders: sets of numbers have a least element, and    *)
(* every finite set with a strict total order can be listed in that order. *)
(* The prover cannot instantiate the library's induction theorems, whose   *)
(* parameter is an operator; the lemmas here take a set of                 *)
(* counterexamples instead, and its least element.  An order is a set of   *)
(* pairs, for the same reason.                                             *)
(***************************************************************************)
EXTENDS Ordering, FiniteSetTheorems, FunctionTheorems, SequenceTheorems,
        WellFoundedInduction, TLAPS

\* The least-number principle.
LEMMA LeastNatural ==
    ASSUME NEW T, T \subseteq Nat, T # {}
    PROVE  \E m \in T : \A k \in T : m <= k
  <1> DEFINE R == OpToRel(<, Nat)
  <1>1. PICK m \in T : \A y \in T : <<y, m>> \notin R
    <2>1. IsWellFoundedOn(R, Nat)
      BY NatLessThanWellFounded
    <2> HIDE DEF R
    <2> QED
      BY <2>1, WFMin, Zenon
  <1>2. \A y \in T : ~(y < m)
    BY <1>1 DEF OpToRel
  <1> QED
    BY <1>2

\* A set of integers that is bounded below has a least element.
LEMMA LeastInteger ==
    ASSUME NEW T, T \subseteq Int, T # {}, NEW b \in Int, \A t \in T : b <= t
    PROVE  \E m \in T : \A k \in T : m <= k
  <1> DEFINE U == {t - b : t \in T}
  <1>1. U \subseteq Nat /\ U # {}
    <2>1. \A t \in T : t - b \in Nat
      OBVIOUS
    <2> QED
      BY <2>1
  <1>2. PICK u \in U : \A v \in U : u <= v
    <2> HIDE DEF U
    <2> QED
      BY <1>1, LeastNatural
  <1>3. PICK m \in T : u = m - b
    OBVIOUS
  <1>4. \A k \in T : m - b <= k - b
    BY <1>2, <1>3
  <1> QED
    BY <1>4

\* The pairs of R put T into a strict total order.
Orders(R, T) ==
    /\ \A a \in T : <<a, a>> \notin R
    /\ \A a, b \in T : a # b => <<a, b>> \in R \/ <<b, a>> \in R
    /\ \A a, b, c \in T : <<a, b>> \in R /\ <<b, c>> \in R => <<a, c>> \in R

IsLast(m, S, R) == \A x \in S : x # m => <<x, m>> \in R

\* A finite set has a last element.
LEMMA LastExists ==
    ASSUME NEW R, NEW T, Orders(R, T), NEW S \in SUBSET T, IsFiniteSet(S), S # {}
    PROVE  \E m \in S : IsLast(m, S, R)
  <1> DEFINE Bad == {n \in Nat : \E U \in SUBSET T :
                        /\ IsFiniteSet(U) /\ U # {} /\ Cardinality(U) = n
                        /\ ~ \E m \in U : IsLast(m, U, R)}
  <1>1. ASSUME Bad # {} PROVE FALSE
    <2>1. PICK n \in Bad : \A k \in Bad : n <= k
      <3>1. Bad \subseteq Nat
        OBVIOUS
      <3> HIDE DEF Bad
      <3> QED
        BY <1>1, <3>1, LeastNatural
    <2>2. PICK U \in SUBSET T : /\ IsFiniteSet(U) /\ U # {} /\ Cardinality(U) = n
                                /\ ~ \E m \in U : IsLast(m, U, R)
      OBVIOUS
    <2>3. PICK x \in U : TRUE
      BY <2>2
    <2>4. /\ IsFiniteSet(U \ {x}) /\ Cardinality(U \ {x}) = n - 1 /\ n - 1 \in Nat
      <3>1. IsFiniteSet(U \ {x}) /\ Cardinality(U \ {x}) = Cardinality(U) - 1
        BY <2>2, <2>3, FS_RemoveElement
      <3>2. Cardinality(U \ {x}) \in Nat
        BY <3>1, FS_CardinalityType
      <3> QED
        BY <2>2, <3>1, <3>2
    <2>5. U \ {x} # {}
      BY <2>2, <2>3 DEF IsLast
    <2>6. n - 1 \notin Bad
      BY <2>1, <2>4
    <2>7. PICK m \in U \ {x} : IsLast(m, U \ {x}, R)
      BY <2>4, <2>5, <2>6
    <2>8. CASE <<x, m>> \in R
      BY <2>2, <2>7, <2>8 DEF IsLast
    <2>9. CASE <<m, x>> \in R
      <3>1. \A y \in U : y # x => <<y, x>> \in R
        BY <2>3, <2>7, <2>9 DEF IsLast, Orders
      <3> QED
        BY <2>2, <2>3, <3>1 DEF IsLast
    <2> QED
      BY <2>3, <2>7, <2>8, <2>9 DEF Orders
  <1>2. Cardinality(S) \in Nat
    BY FS_CardinalityType
  <1> QED
    BY <1>1, <1>2

\* A sequence of SetToSeqs lists its set, each element once.
LEMMA ListsEach ==
    ASSUME NEW S, IsFiniteSet(S), NEW s \in SetToSeqs(S)
    PROVE  /\ s \in Seq(S) /\ Len(s) = Cardinality(S)
           /\ Cardinality(S) \in Nat /\ DOMAIN s = 1..Cardinality(S)
           /\ \A i, j \in DOMAIN s : i # j => s[i] # s[j]
           /\ \A x \in S : \E i \in DOMAIN s : s[i] = x
  <1> DEFINE n == Cardinality(S)
  <1>1. n \in Nat
    BY FS_CardinalityType
  <1>2. s \in [1..n -> S] /\ \A i, j \in 1..n : i # j => s[i] # s[j]
    BY DEF SetToSeqs
  <1>3. s \in Seq(S) /\ Len(s) = n
    BY <1>1, <1>2
  <1>4. \A x \in S : \E i \in 1..n : s[i] = x
    <2> DEFINE Range_s == {s[i] : i \in 1..n}
    <2>1. IsFiniteSet(1..n) /\ Cardinality(1..n) = n
      BY <1>1, FS_Interval
    <2>2. s \in Bijection(1..n, Range_s)
      BY <1>2 DEF Bijection, Injection, Surjection, IsInjective
    <2>3. ExistsBijection(1..n, Range_s)
      BY <2>2 DEF ExistsBijection
    <2>4. Cardinality(Range_s) = n
      <3> HIDE DEF Range_s
      <3> QED
        BY <2>1, <2>3, FS_Bijection
    <2>5. Range_s \subseteq S
      BY <1>2
    <2>6. Range_s = S
      <3> HIDE DEF Range_s
      <3> QED
        BY <2>4, <2>5, FS_Subset
    <2> QED
      BY <2>6
  <1> QED
    BY <1>1, <1>2, <1>3, <1>4

\* The sequence s is sorted by R.
Ordered(s, R) == \A i, j \in DOMAIN s : i < j => <<s[i], s[j]>> \in R

\* A finite set can be listed in any strict total order: by its last element
\* behind the others.
LEMMA OrderedExists ==
    ASSUME NEW R, NEW T, Orders(R, T), NEW S \in SUBSET T, IsFiniteSet(S)
    PROVE  \E s \in SetToSeqs(S) : Ordered(s, R)
  <1> DEFINE Bad == {n \in Nat : \E U \in SUBSET T :
                        /\ IsFiniteSet(U) /\ Cardinality(U) = n
                        /\ ~ \E s \in SetToSeqs(U) : Ordered(s, R)}
  <1>1. ASSUME Bad # {} PROVE FALSE
    <2>1. PICK n \in Bad : \A k \in Bad : n <= k
      <3>1. Bad \subseteq Nat
        OBVIOUS
      <3> HIDE DEF Bad
      <3> QED
        BY <1>1, <3>1, LeastNatural
    <2>2. PICK U \in SUBSET T : /\ IsFiniteSet(U) /\ Cardinality(U) = n
                                /\ ~ \E s \in SetToSeqs(U) : Ordered(s, R)
      OBVIOUS
    <2>3. n \in Nat
      OBVIOUS
    <2>4. CASE U = {}
      <3>1. n = 0
        BY <2>2, <2>4, FS_EmptySet
      <3>2. 1..0 = {}
        OBVIOUS
      <3> DEFINE none == [i \in {} |-> i]
      <3>3. none \in SetToSeqs(U) /\ Ordered(none, R)
        BY <2>2, <2>4, <3>1, <3>2 DEF SetToSeqs, Ordered
      <3> QED
        BY <2>2, <3>3
    <2>5. CASE U # {}
      <3>1. PICK m \in U : IsLast(m, U, R)
        BY <2>2, <2>5, LastExists
      <3> DEFINE V == U \ {m}
      <3>2. IsFiniteSet(V) /\ Cardinality(V) = n - 1 /\ n - 1 \in Nat
        <4>1. IsFiniteSet(V) /\ Cardinality(V) = Cardinality(U) - 1
          BY <2>2, <3>1, FS_RemoveElement
        <4>2. Cardinality(V) \in Nat
          BY <4>1, FS_CardinalityType
        <4> QED
          BY <2>2, <4>1, <4>2
      <3>3. n - 1 \notin Bad
        BY <2>1, <3>2
      <3>4. PICK s \in SetToSeqs(V) : Ordered(s, R)
        BY <3>2, <3>3
      <3>5. s \in [1..(n - 1) -> V] /\ \A i, j \in 1..(n - 1) : i # j => s[i] # s[j]
        BY <3>2 DEF SetToSeqs
      <3> DEFINE t == [i \in 1..n |-> IF i = n THEN m ELSE s[i]]
      <3>6. \A i \in 1..n : i # n => i \in 1..(n - 1)
        BY <2>3
      <3>7. t \in [1..n -> U]
        BY <3>1, <3>5, <3>6
      <3>8. \A i, j \in 1..n : i # j => t[i] # t[j]
        BY <3>5, <3>6
      <3>9. t \in SetToSeqs(U)
        <4> HIDE DEF t
        <4> QED
          BY <2>2, <3>7, <3>8 DEF SetToSeqs
      <3>10. Ordered(t, R)
        <4> SUFFICES ASSUME NEW i \in 1..n, NEW j \in 1..n, i < j
                     PROVE  <<t[i], t[j]>> \in R
          BY DEF Ordered
        <4>1. i \in 1..(n - 1) /\ t[i] = s[i]
          BY <2>3, <3>6
        <4>2. CASE j = n
          <5>1. s[i] \in V /\ t[j] = m
            BY <3>5, <4>1, <4>2
          <5> QED
            BY <3>1, <4>1, <5>1 DEF IsLast
        <4>3. CASE j # n
          <5>1. j \in 1..(n - 1) /\ t[j] = s[j]
            BY <3>6, <4>3
          <5> QED
            BY <3>4, <3>5, <4>1, <5>1 DEF Ordered
        <4> QED
          BY <4>2, <4>3
      <3> QED
        BY <2>2, <3>9, <3>10
    <2> QED
      BY <2>4, <2>5
  <1>2. Cardinality(S) \in Nat
    BY FS_CardinalityType
  <1> QED
    BY <1>1, <1>2

================================================================================
