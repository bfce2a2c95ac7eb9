-------------------------- MODULE SubsequenceProofs --------------------------
(***************************************************************************)
(* What proofs about lists rest on: a filtered sequence is the original at *)
(* increasing positions, all those that were asked for; and induction over *)
(* the numbers for a set of numbers, the induction theorems of the library *)
(* being about predicates, which no prover here can instantiate.           *)
(***************************************************************************)
EXTENDS Subsequences, Integers, FiniteSetTheorems, TLAPS

\* Ranks increase, and count from one to the number of positions.
LEMMA RanksCount ==
  ASSUME NEW I, I \subseteq Nat, IsFiniteSet(I)
  PROVE  /\ \A i \in I : Rank(I, i) \in 1..Cardinality(I)
         /\ \A i, j \in I : i < j => Rank(I, i) < Rank(I, j)
         /\ \A k \in 1..Cardinality(I) : \E i \in I : Rank(I, i) = k
<1> DEFINE Upto(i) == {j \in I : j <= i}
           n == Cardinality(I)
<1>1. n \in Nat
  BY FS_CardinalityType
<1>2. \A i \in I : IsFiniteSet(Upto(i)) /\ Cardinality(Upto(i)) <= n
  BY FS_Subset
<1>3. \A i \in I : Rank(I, i) \in 1..n
  <2> SUFFICES ASSUME NEW i \in I PROVE Rank(I, i) \in 1..n
    OBVIOUS
  <2>1. i \in Upto(i)
    OBVIOUS
  <2>2. Cardinality(Upto(i)) \in Nat /\ Cardinality(Upto(i)) # 0
    BY <1>2, <2>1, FS_CardinalityType, FS_EmptySet
  <2> QED
    BY <1>1, <1>2, <2>2 DEF Rank
<1>4. ASSUME NEW i \in I, NEW j \in I, i < j
      PROVE  Rank(I, i) < Rank(I, j)
  <2>1. Upto(i) \in SUBSET Upto(j) /\ Upto(i) # Upto(j)
    <3>1. j \in Upto(j) /\ j \notin Upto(i)
      BY <1>4
    <3>2. \A k \in I : k <= i => k <= j
      <4>1. \A k \in Nat : k <= i => k <= j
        BY <1>4
      <4> QED
        BY <4>1
    <3> QED
      BY <3>1, <3>2
  <2>2. /\ Cardinality(Upto(i)) <= Cardinality(Upto(j))
        /\ Cardinality(Upto(i)) # Cardinality(Upto(j))
    BY <1>2, <2>1, FS_Subset
  <2>3. Cardinality(Upto(i)) \in Nat /\ Cardinality(Upto(j)) \in Nat
    BY <1>2, FS_CardinalityType
  <2> QED
    BY <2>2, <2>3 DEF Rank
<1>5. [i \in I |-> Rank(I, i)] \in Injection(I, 1..n)
  <2>1. \A i, j \in I : Rank(I, i) = Rank(I, j) => i = j
    <3> SUFFICES ASSUME NEW i \in I, NEW j \in I, Rank(I, i) = Rank(I, j), i # j
                 PROVE  FALSE
      OBVIOUS
    <3>1. i < j \/ j < i
      OBVIOUS
    <3> QED
      BY <1>1, <1>3, <1>4, <3>1
  <2> QED
    BY <1>3, <2>1 DEF Injection, IsInjective
<1>6. IsFiniteSet(1..n) /\ Cardinality(1..n) = n
  BY <1>1, FS_Interval
<1>7. [i \in I |-> Rank(I, i)] \in Surjection(I, 1..n)
  BY <1>5, <1>6, FS_Injection
<1>8. \A k \in 1..n : \E i \in I : Rank(I, i) = k
  BY <1>7 DEF Surjection
<1> QED
  BY <1>3, <1>4, <1>8

\* Where each element of a filtered sequence comes from.
LEMMA PickedProperties ==
  ASSUME NEW T, NEW s \in Seq(T), NEW I \in SUBSET DOMAIN s
  PROVE  /\ IsFiniteSet(I) /\ Cardinality(I) \in Nat
         /\ Picked(s, I) \in Seq(T)
         /\ Len(Picked(s, I)) = Cardinality(I)
         /\ \E at \in [1..Cardinality(I) -> I] :
              /\ \A k \in 1..Cardinality(I) : Picked(s, I)[k] = s[at[k]]
              /\ \A k, l \in 1..Cardinality(I) : k < l => at[k] < at[l]
              /\ \A i \in I : \E k \in 1..Cardinality(I) : at[k] = i
<1> DEFINE n == Cardinality(I)
           at == [k \in 1..n |-> CHOOSE i \in I : Rank(I, i) = k]
<1>1. Len(s) \in Nat /\ DOMAIN s = 1..Len(s)
  OBVIOUS
<1>2. I \subseteq Nat /\ IsFiniteSet(I)
  <2>1. IsFiniteSet(1..Len(s))
    BY <1>1, FS_Interval
  <2>2. I \in SUBSET (1..Len(s)) /\ 1..Len(s) \subseteq Nat
    BY <1>1
  <2> QED
    BY <2>1, <2>2, FS_Subset
<1>3. n \in Nat
  BY <1>2, FS_CardinalityType
<1>4. /\ \A i \in I : Rank(I, i) \in 1..n
      /\ \A i, j \in I : i < j => Rank(I, i) < Rank(I, j)
      /\ \A k \in 1..n : \E i \in I : Rank(I, i) = k
  BY <1>2, RanksCount
<1>5. \A k \in 1..n : at[k] \in I /\ Rank(I, at[k]) = k
  BY <1>4
<1>6. at \in [1..n -> I]
  BY <1>5
<1>7. Picked(s, I) = [k \in 1..n |-> s[at[k]]]
  BY DEF Picked
<1>8. \A k \in 1..n : s[at[k]] \in T
  BY <1>1, <1>5
<1>9. Picked(s, I) \in Seq(T) /\ Len(Picked(s, I)) = n
  <2>1. Picked(s, I) \in [1..n -> T]
    <3> HIDE DEF at
    <3> QED
      BY <1>7, <1>8
  <2> HIDE DEF n
  <2> QED
    BY <1>3, <2>1
<1>10. ASSUME NEW k \in 1..n, NEW l \in 1..n, k < l
       PROVE  at[k] < at[l]
  <2>1. at[k] \in Nat /\ at[l] \in Nat
    BY <1>2, <1>5
  <2>2. ~(at[l] < at[k]) /\ at[l] # at[k]
    BY <1>4, <1>5, <1>10
  <2> QED
    BY <2>1, <2>2
<1>11. \A i \in I : at[Rank(I, i)] = i
  <2> SUFFICES ASSUME NEW i \in I PROVE at[Rank(I, i)] = i
    OBVIOUS
  <2>1. Rank(I, i) \in 1..n /\ Rank(I, at[Rank(I, i)]) = Rank(I, i)
    BY <1>4, <1>5
  <2>2. at[Rank(I, i)] \in I /\ i \in Nat /\ at[Rank(I, i)] \in Nat
    BY <1>2, <1>5, <2>1
  <2>3. ~(at[Rank(I, i)] < i) /\ ~(i < at[Rank(I, i)])
    BY <1>4, <2>1, <2>2
  <2> HIDE DEF at
  <2> QED
    BY <2>2, <2>3
<1>12. \A i \in I : \E k \in 1..n : at[k] = i
  BY <1>4, <1>11
<1> HIDE DEF at
<1> QED
  BY <1>2, <1>3, <1>6, <1>7, <1>9, <1>10, <1>12

\* r consists of elements of s, in their order: those at the positions at.
Embeds(at, r, s) ==
  /\ at \in [1..Len(r) -> 1..Len(s)]
  /\ \A k \in 1..Len(r) : r[k] = s[at[k]]
  /\ \A k, l \in 1..Len(r) : k < l => at[k] < at[l]

LEMMA PickedEmbeds ==
  ASSUME NEW T, NEW s \in Seq(T), NEW I \in SUBSET DOMAIN s
  PROVE  /\ Picked(s, I) \in Seq(T)
         /\ \E at : /\ Embeds(at, Picked(s, I), s)
                    /\ \A k \in 1..Len(Picked(s, I)) : at[k] \in I
                    /\ \A i \in I : \E k \in 1..Len(Picked(s, I)) : at[k] = i
<1>1. /\ Picked(s, I) \in Seq(T)
      /\ Len(Picked(s, I)) = Cardinality(I)
  BY PickedProperties
<1>2. PICK at \in [1..Cardinality(I) -> I] :
        /\ \A k \in 1..Cardinality(I) : Picked(s, I)[k] = s[at[k]]
        /\ \A k, l \in 1..Cardinality(I) : k < l => at[k] < at[l]
        /\ \A i \in I : \E k \in 1..Cardinality(I) : at[k] = i
  BY PickedProperties
<1>3. at \in [1..Cardinality(I) -> 1..Len(s)]
  BY <1>2
<1>4. Embeds(at, Picked(s, I), s)
  BY <1>1, <1>2, <1>3 DEF Embeds
<1> QED
  BY <1>1, <1>2, <1>4

\* What is filtered out is gone, the rest stays in order.
LEMMA WithoutEmbeds ==
  ASSUME NEW T, NEW s \in Seq(T), NEW S
  PROVE  /\ Without(s, S) \in Seq(T)
         /\ \E at : /\ Embeds(at, Without(s, S), s)
                    /\ \A k \in 1..Len(Without(s, S)) : s[at[k]] \notin S
                    /\ \A i \in 1..Len(s) : s[i] \notin S =>
                         \E k \in 1..Len(Without(s, S)) : at[k] = i
<1> DEFINE I == {i \in DOMAIN s : s[i] \notin S}
<1>1. I \in SUBSET DOMAIN s /\ DOMAIN s = 1..Len(s)
  OBVIOUS
<1>2. /\ \A i \in I : s[i] \notin S
      /\ \A i \in 1..Len(s) : s[i] \notin S => i \in I
  BY <1>1
<1> HIDE DEF I
<1>3. /\ Picked(s, I) \in Seq(T)
      /\ \E at : /\ Embeds(at, Picked(s, I), s)
                 /\ \A k \in 1..Len(Picked(s, I)) : at[k] \in I
                 /\ \A i \in I : \E k \in 1..Len(Picked(s, I)) : at[k] = i
  BY <1>1, PickedEmbeds
<1>4. Without(s, S) = Picked(s, I)
  BY DEF Without, I
<1> QED
  BY <1>2, <1>3, <1>4

(***************************************************************************)
(* Induction.                                                              *)
(***************************************************************************)
Smaller == {mn \in Nat \X Nat : mn[1] < mn[2]}

LEMMA LeastNatural ==
  ASSUME NEW T, T \subseteq Nat, T # {}
  PROVE  \E m \in T : \A n \in T : m <= n
<1>1. IsWellFoundedOn(Smaller, Nat)
  <2>1. Smaller = OpToRel(<, Nat)
    BY Zenon DEF OpToRel, Smaller
  <2> QED
    BY <2>1, NatLessThanWellFounded
<1>2. PICK m \in T : \A n \in T : <<n, m>> \notin Smaller
  BY <1>1, WFMin
<1>3. ASSUME NEW n \in Nat, n < m
      PROVE  <<n, m>> \in Smaller
  <2>1. <<n, m>> \in Nat \X Nat /\ <<n, m>>[1] < <<n, m>>[2]
    BY <1>3
  <2> QED
    BY <2>1, Zenon DEF Smaller
<1>4. \A n \in T : n \in Nat /\ m \in Nat /\ ~(n < m)
  BY <1>2, <1>3
<1>5. \A n \in T : m <= n
  BY <1>4
<1> QED
  BY <1>5

\* A set with zero that goes on from each number to the next has them all.
LEMMA SetInduction ==
  ASSUME NEW S, 0 \in S, \A n \in Nat : n \in S => n + 1 \in S
  PROVE  \A n \in Nat : n \in S
<1> DEFINE T == {n \in Nat : n \notin S}
<1>1. CASE T = {}
  BY <1>1
<1>2. CASE T # {}
  <2>1. T \subseteq Nat
    OBVIOUS
  <2> HIDE DEF T
  <2>2. PICK m \in T : \A n \in T : m <= n
    BY <1>2, <2>1, LeastNatural
  <2>3. m \in Nat /\ m \notin S
    BY DEF T
  <2>4. m # 0 /\ m - 1 \in Nat /\ m - 1 \notin T
    BY <2>2, <2>3
  <2>5. m - 1 \in S
    BY <2>4 DEF T
  <2>6. (m - 1) + 1 \in S
    BY <2>4, <2>5
  <2> QED
    BY <2>3, <2>6
<1> QED
  BY <1>1, <1>2

\* The same up to a bound, as a list is gone through.
LEMMA BoundedInduction ==
  ASSUME NEW S, NEW top \in Nat, 0 \in S, \A n \in 1..top : n - 1 \in S => n \in S
  PROVE  \A n \in 0..top : n \in S
<1> DEFINE U == {n \in Nat : n <= top => n \in S}
<1>1. 0 \in U
  OBVIOUS
<1>2. ASSUME NEW n \in Nat, n \in U
      PROVE  n + 1 \in U
  <2>1. CASE n + 1 <= top
    <3>1. n + 1 \in 1..top /\ (n + 1) - 1 = n
      BY <2>1
    <3>2. n \in S
      BY <1>2, <2>1
    <3> QED
      BY <3>1, <3>2
  <2>2. CASE ~(n + 1 <= top)
    BY <2>2
  <2> QED
    BY <2>1, <2>2
<1>3. \A n \in Nat : n \in U
  <2> HIDE DEF U
  <2> QED
    BY <1>1, <1>2, SetInduction
<1> QED
  BY <1>3

=============================================================================
