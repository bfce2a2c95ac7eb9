--------------------------- MODULE TournamentProofs ---------------------------
(***************************************************************************)
(* Proofs about the tournaments: Standings, TournamentRounds, Tournament.  *)
(*                                                                         *)
(* The first sections are about the algorithms: the final table ranks a    *)
(* podium, the Swiss pairing and the circle method seat everybody once.    *)
(* Then the cascades, over states t that need not be reachable: each       *)
(* function of Advancement is shown to keep Sound(t), whatever it decides  *)
(* on its way.  Two inductive invariants are built on it: RoundsInv, that  *)
(* the rounds are fair and go on, and SoundAndLively, that every pairing   *)
(* waits for something.  Both are shown of the model by rounds and of the  *)
(* model that is served, with its deadlines, restarts and crashes.         *)
(*                                                                         *)
(* A loop of the code is a fold or a recursive function in the model; its  *)
(* lemma "...Runs" hands out the states after each turn, and the proofs    *)
(* about it are by induction over the turns.                               *)
(***************************************************************************)
EXTENDS Tournament, SubsequenceProofs

-----------------------------------------------------------------------------
(* Sums and tables.                                                        *)

\* Tabulating a function does not change it.
LEMMA TabulatedIsIt ==
  ASSUME NEW f
  PROVE  Tabulated(f) = f
BY DEF Tabulated

\* A sum of integers is one.
LEMMA SumIsInt ==
  ASSUME NEW S, IsFiniteSet(S), NEW f, \A x \in S : f[x] \in Int
  PROVE  SumOver(f, S) \in Int
<1> DEFINE Some(s) == CHOOSE x \in s : TRUE
           At(g, s) == IF s = {} THEN 0 ELSE f[Some(s)] + g[s \ {Some(s)}]
           Small(n) == {s \in SUBSET S : Cardinality(s) <= n}
           T == {n \in Nat : \E g : g = [s \in Small(n) |-> At(g, s)]}
           N == Cardinality(S)
<1>1. N \in Nat /\ \A s \in SUBSET S : IsFiniteSet(s) /\ Cardinality(s) \in Nat /\ Cardinality(s) <= N
  BY FS_Subset, FS_CardinalityType
<1>2. ASSUME NEW s \in SUBSET S, s # {}
      PROVE  /\ Some(s) \in s
             /\ s \ {Some(s)} \in SUBSET S
             /\ Cardinality(s \ {Some(s)}) = Cardinality(s) - 1
  <2>1. Some(s) \in s
    BY <1>2
  <2> QED
    BY <1>1, <2>1, FS_RemoveElement
<1>3. \A s \in SUBSET S : Cardinality(s) = 0 => s = {}
  BY <1>1, FS_EmptySet
<1> HIDE DEF Some
<1>4. 0 \in T
  <2> DEFINE g == [s \in Small(0) |-> 0]
  <2>1. \A s \in Small(0) : s = {}
    BY <1>1, <1>3
  <2>2. g = [s \in Small(0) |-> At(g, s)]
    BY <2>1
  <2> QED
    BY <2>2
<1>5. ASSUME NEW n \in Nat, n \in T
      PROVE  n + 1 \in T
  <2>1. PICK g : g = [s \in Small(n) |-> At(g, s)]
    BY <1>5
  <2> DEFINE h == [s \in Small(n + 1) |-> IF s \in Small(n) THEN g[s] ELSE At(g, s)]
  <2>2. ASSUME NEW s \in Small(n + 1)
        PROVE  h[s] = At(h, s)
    <3>1. h[s] = At(g, s)
      BY <2>1
    <3>2. CASE s = {}
      BY <3>1, <3>2
    <3>3. CASE s # {}
      <4> DEFINE r == s \ {Some(s)}
      <4>1. r \in Small(n)
        BY <1>1, <1>2, <3>3
      <4>2. r \in Small(n + 1)
        BY <1>1, <4>1
      <4>3. h[r] = g[r]
        BY <4>1, <4>2
      <4> QED
        BY <3>1, <3>3, <4>3
    <3> QED
      BY <3>2, <3>3
  <2>3. h = [s \in Small(n + 1) |-> At(h, s)]
    BY <2>2
  <2>4. \E k : k = [s \in Small(n + 1) |-> At(k, s)]
    <3> HIDE DEF h, At
    <3> QED
      BY <2>3
  <2>5. n + 1 \in Nat
    OBVIOUS
  <2> HIDE DEF At, Small
  <2> QED
    BY <2>4, <2>5
<1>6. N \in T
  <2> HIDE DEF T, N
  <2> QED
    BY <1>1, <1>4, <1>5, SetInduction
<1>7. Small(N) = SUBSET S
  BY <1>1
<1> DEFINE iter == CHOOSE g : g = [s \in SUBSET S |-> At(g, s)]
<1>8. iter = [s \in SUBSET S |-> At(iter, s)]
  <2>1. \E g : g = [s \in SUBSET S |-> At(g, s)]
    BY <1>6, <1>7
  <2> QED
    BY <2>1
<1>9. SumOver(f, S) = iter[S]
  BY Zenon DEF SumOver, MapThenFoldSet, Some
<1> HIDE DEF iter
<1> DEFINE U == {n \in Nat : \A s \in Small(n) : iter[s] \in Int}
<1>10. 0 \in U
  <2>1. \A s \in Small(0) : s = {} /\ s \in SUBSET S
    BY <1>1, <1>3
  <2> QED
    BY <1>8, <2>1
<1>11. ASSUME NEW n \in Nat, n \in U
       PROVE  n + 1 \in U
  <2> SUFFICES ASSUME NEW s \in Small(n + 1) PROVE iter[s] \in Int
    OBVIOUS
  <2>1. CASE s = {}
    BY <1>8, <2>1
  <2>2. CASE s # {}
    <3> DEFINE r == s \ {Some(s)}
    <3>1. Some(s) \in S /\ r \in Small(n)
      BY <1>1, <1>2, <2>2
    <3>2. iter[r] \in Int /\ f[Some(s)] \in Int
      BY <1>11, <3>1
    <3>3. iter[s] = f[Some(s)] + iter[r]
      BY <1>8, <2>2
    <3> QED
      BY <3>2, <3>3
  <2> QED
    BY <2>1, <2>2
<1>12. N \in U
  <2> HIDE DEF U, N
  <2> QED
    BY <1>1, <1>10, <1>11, SetInduction
<1> QED
  BY <1>1, <1>9, <1>12

-----------------------------------------------------------------------------
(* standings.js: the final table.                                          *)

\* The keys a table is sorted by, n numbers each.
Keys(n) == [1..n -> Int]

\* No key is ahead of itself.
LEMMA AheadIrreflexive ==
  ASSUME NEW n \in Nat, NEW a \in Keys(n)
  PROVE  ~Ahead(a, a)
BY DEF Ahead, Keys

\* What is ahead of a key is ahead of all that it is ahead of.
LEMMA AheadTransitive ==
  ASSUME NEW n \in Nat, NEW a \in Keys(n), NEW b \in Keys(n), NEW c \in Keys(n),
         Ahead(a, b), Ahead(b, c)
  PROVE  Ahead(a, c)
<1>1. PICK i \in 1..n : a[i] > b[i] /\ \A j \in 1..(i - 1) : a[j] = b[j]
  BY DEF Ahead, Keys
<1>2. PICK k \in 1..n : b[k] > c[k] /\ \A j \in 1..(k - 1) : b[j] = c[j]
  BY DEF Ahead, Keys
<1>3. \A j \in 1..n : a[j] \in Int /\ b[j] \in Int /\ c[j] \in Int
  BY DEF Keys
<1> DEFINE m == IF i <= k THEN i ELSE k
<1>4. m \in 1..n /\ m \in DOMAIN a
  BY DEF Keys
<1>5. a[m] > c[m]
  <2>1. CASE i < k
    BY <1>1, <1>2, <1>3, <2>1
  <2>2. CASE i = k
    BY <1>1, <1>2, <1>3, <2>2
  <2>3. CASE i > k
    BY <1>1, <1>2, <1>3, <2>3
  <2> QED
    BY <2>1, <2>2, <2>3
<1>6. \A j \in 1..(m - 1) : a[j] = c[j]
  <2> SUFFICES ASSUME NEW j \in 1..(m - 1) PROVE a[j] = c[j]
    OBVIOUS
  <2>1. j \in 1..(i - 1) /\ j \in 1..(k - 1)
    OBVIOUS
  <2> QED
    BY <1>1, <1>2, <2>1
<1> HIDE DEF m
<1> QED
  BY <1>4, <1>5, <1>6 DEF Ahead

\* Of two different keys one is ahead.
LEMMA AheadTotal ==
  ASSUME NEW n \in Nat, NEW a \in Keys(n), NEW b \in Keys(n), a # b
  PROVE  Ahead(a, b) \/ Ahead(b, a)
<1> DEFINE D == {i \in 1..n : a[i] # b[i]}
<1>1. D # {} /\ D \subseteq Nat
  BY DEF Keys
<1> HIDE DEF D
<1>2. PICK i \in D : \A j \in D : i <= j
  BY <1>1, LeastNatural
<1>3. i \in 1..n /\ a[i] # b[i] /\ a[i] \in Int /\ b[i] \in Int
  BY DEF D, Keys
<1>4. ASSUME NEW j \in 1..(i - 1)
      PROVE  a[j] = b[j]
  BY <1>2, <1>3, <1>4 DEF D
<1>5. DOMAIN a = 1..n /\ DOMAIN b = 1..n
  BY DEF Keys
<1>6. a[i] > b[i] \/ b[i] > a[i]
  BY <1>3
<1>7. CASE a[i] > b[i]
  BY <1>3, <1>4, <1>5, <1>7 DEF Ahead
<1>8. CASE b[i] > a[i]
  <2>1. \A j \in 1..(i - 1) : b[j] = a[j]
    BY <1>4
  <2> QED
    BY <1>3, <1>5, <1>8, <2>1 DEF Ahead
<1> QED
  BY <1>6, <1>7, <1>8

\* Everybody in the field has the rank one more than how many are ahead.
IsPodium(ranks, field) ==
  /\ DOMAIN ranks = field
  /\ \A e \in field : ranks[e] = 1 + Cardinality({o \in field : ranks[o] < ranks[e]})

\* Ranking a field by keys gives a podium, ties sharing a rank.
LEMMA RankedByKeys ==
  ASSUME NEW field, IsFiniteSet(field), NEW n \in Nat, NEW key,
         \A e \in field : key[e] \in Keys(n),
         NEW ranks,
         ranks = [e \in field |-> 1 + Cardinality({o \in field : Ahead(key[o], key[e])})]
  PROVE  IsPodium(ranks, field)
<1> DEFINE better(e) == {o \in field : Ahead(key[o], key[e])}
<1>1. \A e \in field : IsFiniteSet(better(e)) /\ Cardinality(better(e)) \in Nat
  BY FS_Subset, FS_CardinalityType
<1>2. ASSUME NEW o \in field, NEW e \in field, Ahead(key[o], key[e])
      PROVE  ranks[o] < ranks[e]
  <2>1. better(o) \subseteq better(e)
    BY <1>2, AheadTransitive
  <2>2. o \in better(e) /\ o \notin better(o)
    BY <1>2, AheadIrreflexive
  <2>3. better(o) \in SUBSET better(e) /\ better(o) # better(e)
    BY <2>1, <2>2
  <2> HIDE DEF better
  <2>4. Cardinality(better(o)) <= Cardinality(better(e)) /\ Cardinality(better(o)) # Cardinality(better(e))
    BY <1>1, <2>3, FS_Subset
  <2> QED
    BY <1>1, <2>4 DEF better
<1>3. ASSUME NEW o \in field, NEW e \in field, ranks[o] < ranks[e]
      PROVE  Ahead(key[o], key[e])
  <2>1. ranks[o] \in Int /\ ranks[e] \in Int
    <3>1. \A x \in field : ranks[x] = 1 + Cardinality(better(x))
      OBVIOUS
    <3> HIDE DEF better
    <3> QED
      BY <1>1, <3>1
  <2>2. CASE key[o] = key[e]
    <3>1. better(o) = better(e)
      BY <2>2
    <3>2. ranks[o] = 1 + Cardinality(better(o)) /\ ranks[e] = 1 + Cardinality(better(e))
      OBVIOUS
    <3> HIDE DEF better
    <3> QED
      BY <1>3, <2>1, <3>1, <3>2
  <2>3. CASE Ahead(key[e], key[o])
    <3>1. ranks[e] < ranks[o]
      BY <1>2, <2>3, Zenon
    <3>2. ranks[o] < ranks[e]
      BY <1>3
    <3> HIDE DEF better
    <3> QED
      BY <2>1, <3>1, <3>2
  <2>4. key[o] \in Keys(n) /\ key[e] \in Keys(n)
    OBVIOUS
  <2> HIDE DEF better
  <2> QED
    BY <2>2, <2>3, <2>4, AheadTotal
<1>4. ASSUME NEW e \in field
      PROVE  {o \in field : ranks[o] < ranks[e]} = better(e)
  BY <1>2, <1>3
<1>5. DOMAIN ranks = field /\ \A e \in field : ranks[e] = 1 + Cardinality(better(e))
  OBVIOUS
<1> HIDE DEF better
<1> QED
  BY <1>4, <1>5 DEF IsPodium

\* A bag of results.
Results(completed) ==
  /\ IsFiniteSet(DOMAIN completed)
  /\ \A r \in DOMAIN completed : completed[r] \in Int

\* A score is a whole number of half points.
LEMMA ScoreIsInt ==
  ASSUME NEW e, NEW completed, Results(completed)
  PROVE  Score(e, completed) \in Int
<1> DEFINE f == [r \in DOMAIN completed |-> completed[r] * Points(e, r)]
<1>1. \A r : Points(e, r) \in Int
  BY DEF Points
<1>2. \A r \in DOMAIN completed : f[r] \in Int
  BY <1>1 DEF Results
<1>3. Score(e, completed) = SumOver(f, DOMAIN completed)
  BY DEF Score
<1> HIDE DEF f
<1> QED
  BY <1>2, <1>3, SumIsInt DEF Results

\* What finalTable sorts an entry by is a key: score, tie-breaks, seed.
LEMMA RankingKeyIsKey ==
  ASSUME NEW field, IsFiniteSet(field), NEW completed, Results(completed),
         NEW roundRobin \in BOOLEAN, NEW e \in field
  PROVE  RankingKey(e, Table(field, completed), completed, roundRobin)
           \in Keys(IF roundRobin THEN 4 ELSE 3)
<1> DEFINE pts == Table(field, completed)
<1>1. pts = [x \in field |-> Score(x, completed)]
  BY TabulatedIsIt DEF Table
<1>2. DOMAIN pts = field /\ \A x \in field : pts[x] \in Int
  BY <1>1, ScoreIsInt
<1> HIDE DEF pts
<1> DEFINE met == Opponents(e, completed) \cap DOMAIN pts
           level == {o \in Opponents(e, completed) \cap DOMAIN pts : pts[o] = pts[e]}
<1>3. IsFiniteSet(met) /\ IsFiniteSet(level)
  BY <1>2, FS_Subset
<1>4. \A o : Taken(e, o, completed) \in Int
  BY DEF Taken
<1>5. Buchholz(e, pts, completed) \in Int
  <2>1. \A x \in met : pts[x] \in Int
    BY <1>2
  <2> QED
    BY <1>3, <2>1, SumIsInt DEF Buchholz
<1>6. SonnebornBerger(e, pts, completed) \in Int
  <2> DEFINE f == [o \in met |-> Taken(e, o, completed) * pts[o]]
  <2>1. \A x \in met : f[x] \in Int
    BY <1>2, <1>4
  <2>2. SonnebornBerger(e, pts, completed) = SumOver(f, met)
    BY DEF SonnebornBerger
  <2> HIDE DEF f, met
  <2> QED
    BY <1>3, <2>1, <2>2, SumIsInt
<1>7. HeadToHead(e, pts, completed) \in Int
  <2> DEFINE f == [o \in level |-> Taken(e, o, completed)]
  <2>1. \A x \in level : f[x] \in Int
    BY <1>4
  <2>2. HeadToHead(e, pts, completed) = SumOver(f, level)
    BY DEF HeadToHead
  <2> HIDE DEF f, level
  <2> QED
    BY <1>3, <2>1, <2>2, SumIsInt
<1>8. Wins(e, completed) \in Int
  BY FS_Subset, FS_CardinalityType DEF Wins, Results
<1> QED
  BY <1>2, <1>5, <1>6, <1>7, <1>8 DEF RankingKey, Keys, pts

\* finalTable ranks whoever is in the field by what was completed, and in
\* no other way: nobody is missing, and no rank is skipped or taken twice but
\* for a tie.
LEMMA FinalTableIsPodium ==
  ASSUME NEW field, IsFiniteSet(field), NEW completed, Results(completed),
         NEW roundRobin \in BOOLEAN
  PROVE  IsPodium(FinalTable(field, completed, roundRobin), field)
<1> DEFINE pts == Table(field, completed)
           key == Tabulated([e \in field |-> RankingKey(e, pts, completed, roundRobin)])
           n == IF roundRobin THEN 4 ELSE 3
<1>1. key = [e \in field |-> RankingKey(e, pts, completed, roundRobin)]
  BY TabulatedIsIt
<1>2. n \in Nat /\ \A e \in field : key[e] \in Keys(n)
  BY <1>1, RankingKeyIsKey
<1>3. FinalTable(field, completed, roundRobin)
        = [e \in field |-> 1 + Cardinality({o \in field : Ahead(key[o], key[e])})]
  BY DEF FinalTable
<1> HIDE DEF key, n
<1> QED
  BY <1>2, <1>3, RankedByKeys

-----------------------------------------------------------------------------
(* The Swiss system: rows in order of score.                               *)

\* How many come before x in the order L.
Place(S, L, x) == Cardinality({y \in S : <<y, x>> \in L})

\* L orders S strictly and totally.
Orders(L, S) ==
  /\ \A x \in S : <<x, x>> \notin L
  /\ \A x, y, z \in S : <<x, y>> \in L /\ <<y, z>> \in L => <<x, z>> \in L
  /\ \A x, y \in S : x # y => <<x, y>> \in L \/ <<y, x>> \in L

\* In a finite set that is ordered each place is taken once.
LEMMA PlacesAreTaken ==
  ASSUME NEW S, IsFiniteSet(S), NEW L, Orders(L, S)
  PROVE  /\ \A x \in S : Place(S, L, x) \in 0..(Cardinality(S) - 1)
         /\ \A x, y \in S : <<x, y>> \in L => Place(S, L, x) < Place(S, L, y)
         /\ \A x, y \in S : Place(S, L, x) = Place(S, L, y) => x = y
         /\ \A k \in 0..(Cardinality(S) - 1) : \E x \in S : Place(S, L, x) = k
<1> DEFINE n == Cardinality(S)
           before(x) == {y \in S : <<y, x>> \in L}
<1>0. /\ \A x \in S : <<x, x>> \notin L
      /\ \A x, y, z \in S : <<x, y>> \in L /\ <<y, z>> \in L => <<x, z>> \in L
      /\ \A x, y \in S : x # y => <<x, y>> \in L \/ <<y, x>> \in L
  BY DEF Orders
<1>1. n \in Nat
  BY FS_CardinalityType
<1>2. \A x \in S : IsFiniteSet(before(x)) /\ Cardinality(before(x)) \in Nat
  BY FS_Subset, FS_CardinalityType
<1>3. ASSUME NEW x \in S
      PROVE  Cardinality(before(x)) < n
  <2>1. before(x) \in SUBSET S /\ before(x) # S
    BY <1>0
  <2> HIDE DEF before
  <2>2. Cardinality(before(x)) <= n /\ Cardinality(before(x)) # n
    BY <2>1, FS_Subset
  <2> QED
    BY <1>1, <1>2, <2>2
<1>4. ASSUME NEW x \in S, NEW y \in S, <<x, y>> \in L
      PROVE  Cardinality(before(x)) < Cardinality(before(y))
  <2>1. before(x) \in SUBSET before(y) /\ before(x) # before(y)
    <3>1. x \in before(y) /\ x \notin before(x)
      BY <1>0, <1>4
    <3>2. before(x) \subseteq before(y)
      BY <1>0, <1>4
    <3> QED
      BY <3>1, <3>2
  <2>2. IsFiniteSet(before(y))
    BY <1>2
  <2> HIDE DEF before
  <2>3. Cardinality(before(x)) <= Cardinality(before(y)) /\ Cardinality(before(x)) # Cardinality(before(y))
    BY <2>1, <2>2, FS_Subset
  <2> QED
    BY <1>2, <2>3
<1>5. \A x : Place(S, L, x) = Cardinality(before(x))
  BY DEF Place
<1> HIDE DEF before
<1>6. ASSUME NEW x \in S, NEW y \in S, Place(S, L, x) = Place(S, L, y)
      PROVE  x = y
  <2>1. CASE <<x, y>> \in L
    BY <1>2, <1>4, <1>5, <1>6, <2>1
  <2>2. CASE <<y, x>> \in L
    BY <1>2, <1>4, <1>5, <1>6, <2>2
  <2> QED
    BY <1>0, <2>1, <2>2
<1>7. \A x \in S : Place(S, L, x) \in 0..(n - 1)
  BY <1>1, <1>2, <1>3, <1>5
<1>8. [x \in S |-> Place(S, L, x)] \in Injection(S, 0..(n - 1))
  BY <1>6, <1>7 DEF Injection, IsInjective
<1>9. IsFiniteSet(0..(n - 1)) /\ Cardinality(0..(n - 1)) = n
  <2>1. 0 \in Int /\ n - 1 \in Int /\ (0 > n - 1 <=> n = 0)
    BY <1>1
  <2> QED
    BY <1>1, <2>1, FS_Interval
<1>10. [x \in S |-> Place(S, L, x)] \in Surjection(S, 0..(n - 1))
  BY <1>8, <1>9, FS_Injection
<1>11. \A k \in 0..(n - 1) : \E x \in S : Place(S, L, x) = k
  BY <1>10 DEF Surjection
<1> QED
  BY <1>4, <1>5, <1>6, <1>7, <1>11

\* What a table is sorted into: the same rows in another order.
Reordered(s, r) ==
  /\ Len(s) = Len(r)
  /\ \E at \in [1..Len(r) -> 1..Len(r)] :
       /\ \A k \in 1..Len(r) : s[k] = r[at[k]]
       /\ \A k, l \in 1..Len(r) : at[k] = at[l] => k = l
       /\ \A i \in 1..Len(r) : \E k \in 1..Len(r) : at[k] = i

\* sortedByScore loses no row and adds none.
LEMMA SortedIsReordered ==
  ASSUME NEW R, NEW rows \in Seq(R), \A i \in 1..Len(rows) : rows[i].score \in Int
  PROVE  SortedByScore(rows) \in Seq(R) /\ Reordered(SortedByScore(rows), rows)
<1> DEFINE n == Len(rows)
           higher(j, i) == \/ rows[j].score > rows[i].score
                           \/ rows[j].score = rows[i].score /\ j < i
           L == {ji \in (1..n) \X (1..n) : higher(ji[1], ji[2])}
           at == [k \in 1..n |-> CHOOSE i \in 1..n : 1 + Place(1..n, L, i) = k]
           sorted == SortedByScore(rows)
<1>1. n \in Nat /\ DOMAIN rows = 1..n
  OBVIOUS
<1>2. IsFiniteSet(1..n) /\ Cardinality(1..n) = n
  BY <1>1, FS_Interval
<1>3. \A i, j \in 1..n : <<j, i>> \in L <=> higher(j, i)
  OBVIOUS
<1>4. /\ \A x \in 1..n : ~higher(x, x)
      /\ \A x, y, z \in 1..n : higher(x, y) /\ higher(y, z) => higher(x, z)
      /\ \A x, y \in 1..n : x # y => higher(x, y) \/ higher(y, x)
  OBVIOUS
<1>5. \A i \in 1..n : 1 + Cardinality({j \in DOMAIN rows : higher(j, i)}) = 1 + Place(1..n, L, i)
  <2> SUFFICES ASSUME NEW i \in 1..n
               PROVE  {j \in DOMAIN rows : higher(j, i)} = {y \in 1..n : <<y, i>> \in L}
    BY DEF Place
  <2> QED
    BY <1>1, <1>3
<1> HIDE DEF L
<1>6. sorted = [k \in 1..n |-> rows[at[k]]]
  <2>1. SortedByScore(rows)
          = [k \in DOMAIN rows |->
               rows[CHOOSE i \in DOMAIN rows : 1 + Cardinality({j \in DOMAIN rows : higher(j, i)}) = k]]
    BY TabulatedIsIt DEF SortedByScore
  <2>2. \A k : (CHOOSE i \in DOMAIN rows : 1 + Cardinality({j \in DOMAIN rows : higher(j, i)}) = k)
                 = (CHOOSE i \in 1..n : 1 + Place(1..n, L, i) = k)
    BY <1>1, <1>5
  <2> HIDE DEF higher
  <2> QED
    BY <1>1, <2>1, <2>2
<1> HIDE DEF higher
<1>7. /\ \A x \in 1..n : Place(1..n, L, x) \in 0..(n - 1)
      /\ \A x, y \in 1..n : Place(1..n, L, x) = Place(1..n, L, y) => x = y
      /\ \A k \in 0..(n - 1) : \E x \in 1..n : Place(1..n, L, x) = k
  <2>1. Orders(L, 1..n)
    BY <1>3, <1>4 DEF Orders
  <2> DEFINE S == 1..n
  <2>2. /\ \A x \in S : Place(S, L, x) \in 0..(Cardinality(S) - 1)
        /\ \A x, y \in S : Place(S, L, x) = Place(S, L, y) => x = y
        /\ \A k \in 0..(Cardinality(S) - 1) : \E x \in S : Place(S, L, x) = k
    <3>1. IsFiniteSet(S) /\ Orders(L, S)
      BY <1>2, <2>1
    <3> HIDE DEF S
    <3> QED
      BY <3>1, PlacesAreTaken
  <2> QED
    BY <1>2, <2>2
<1>8. \A k \in 1..n : at[k] \in 1..n /\ 1 + Place(1..n, L, at[k]) = k
  <2> SUFFICES ASSUME NEW k \in 1..n
               PROVE  \E i \in 1..n : 1 + Place(1..n, L, i) = k
    OBVIOUS
  <2>1. k - 1 \in 0..(n - 1)
    OBVIOUS
  <2>2. PICK i \in 1..n : Place(1..n, L, i) = k - 1
    BY <1>7, <2>1
  <2> QED
    BY <2>2
<1>9. \A i \in 1..n : 1 + Place(1..n, L, i) \in 1..n /\ at[1 + Place(1..n, L, i)] = i
  <2> SUFFICES ASSUME NEW i \in 1..n
               PROVE  1 + Place(1..n, L, i) \in 1..n /\ at[1 + Place(1..n, L, i)] = i
    OBVIOUS
  <2>1. 1 + Place(1..n, L, i) \in 1..n
    BY <1>1, <1>7
  <2>2. /\ at[1 + Place(1..n, L, i)] \in 1..n
        /\ 1 + Place(1..n, L, at[1 + Place(1..n, L, i)]) = 1 + Place(1..n, L, i)
    BY <1>8, <2>1
  <2>3. Place(1..n, L, at[1 + Place(1..n, L, i)]) = Place(1..n, L, i)
    <3> HIDE DEF at
    <3> QED
      BY <1>7, <2>2
  <2> HIDE DEF at
  <2> QED
    BY <1>7, <2>1, <2>2, <2>3
<1>10. at \in [1..n -> 1..n]
  BY <1>8
<1> HIDE DEF at
<1>11. \A k \in 1..n : sorted[k] = rows[at[k]] /\ sorted[k] \in R
  BY <1>1, <1>6, <1>8
<1>12. sorted \in Seq(R) /\ Len(sorted) = n
  <2>1. sorted \in [1..n -> R]
    BY <1>6, <1>11
  <2> HIDE DEF sorted
  <2> QED
    BY <1>1, <2>1
<1>13. \A k, l \in 1..n : at[k] = at[l] => k = l
  BY <1>8
<1>14. \A i \in 1..n : \E k \in 1..n : at[k] = i
  BY <1>9
<1> HIDE DEF sorted
<1> QED
  BY <1>10, <1>11, <1>12, <1>13, <1>14 DEF Reordered, sorted

-----------------------------------------------------------------------------
(* foldPairs.                                                              *)

\* Whom the i-th of the top half may be paired with when T are taken.
FoldChoices(group, half, T, i) ==
  LET free  == (half + 1)..(2 * half) \ T
      fresh == {j \in free : group[j].id \notin group[i].opponents}
  IN  IF fresh # {} THEN fresh ELSE free

\* The bottom half being taken, one by one.
Folds(taken, group, half) ==
  /\ taken[0] = {}
  /\ \A i \in 1..half :
       taken[i] = taken[i - 1] \cup {Min(FoldChoices(group, half, taken[i - 1], i))}
  /\ FoldPairs(group)
       = [i \in 1..half |->
            <<group[i].id, group[CHOOSE j \in taken[i] \ taken[i - 1] : TRUE].id>>]

\* What the loop of foldPairs has taken after each of its turns.
LEMMA FoldUnrolls ==
  ASSUME NEW group, NEW half \in Nat, half = Len(group) \div 2
  PROVE  \E taken : Folds(taken, group, half)
<1> DEFINE Next1(T, i) == T \cup {Min(FoldChoices(group, half, T, i))}
           At(g, i) == IF i = 0 THEN {} ELSE Next1(g[i - 1], i)
           S == {n \in Nat : \E g : g = [i \in 0..n |-> At(g, i)]}
<1>1. 0 \in S
  <2> DEFINE g == [i \in 0..0 |-> {}]
  <2>1. g = [i \in 0..0 |-> At(g, i)]
    OBVIOUS
  <2> QED
    BY <2>1
<1>2. ASSUME NEW n \in Nat, n \in S
      PROVE  n + 1 \in S
  <2>1. PICK g : g = [i \in 0..n |-> At(g, i)]
    BY <1>2
  <2> DEFINE h == [i \in 0..(n + 1) |-> IF i = n + 1 THEN Next1(g[n], n + 1) ELSE g[i]]
  <2> HIDE DEF Next1
  <2>2. ASSUME NEW i \in 0..(n + 1)
        PROVE  h[i] = At(h, i)
    <3>1. CASE i = n + 1
      <4>1. i # 0 /\ i - 1 = n /\ n \in 0..(n + 1) /\ n # n + 1
        BY <3>1
      <4>2. h[n] = g[n]
        BY <4>1
      <4> QED
        BY <3>1, <4>1, <4>2
    <3>2. CASE i = 0
      <4>1. h[0] = g[0] /\ g[0] = {}
        BY <2>1
      <4> QED
        BY <3>2, <4>1
    <3>3. CASE i \in 1..n
      <4>1. i \in 0..n /\ i # 0 /\ i - 1 \in 0..n /\ i - 1 \in 0..(n + 1) /\ i - 1 # n + 1 /\ i # n + 1
        BY <3>3
      <4>2. h[i] = g[i] /\ h[i - 1] = g[i - 1]
        BY <4>1
      <4>3. g[i] = At(g, i)
        BY <2>1, <4>1
      <4> QED
        BY <4>1, <4>2, <4>3
    <3> QED
      BY <3>1, <3>2, <3>3
  <2>3. h = [i \in 0..(n + 1) |-> At(h, i)]
    BY <2>2
  <2>4. \E f : f = [i \in 0..(n + 1) |-> At(f, i)]
    <3> HIDE DEF h, At
    <3> QED
      BY <2>3
  <2> QED
    BY <2>4
<1>3. \A n \in Nat : n \in S
  <2> HIDE DEF S
  <2> QED
    BY <1>1, <1>2, SetInduction
<1> DEFINE taken == CHOOSE g : g = [i \in 0..half |-> At(g, i)]
<1>4. taken = [i \in 0..half |-> At(taken, i)]
  <2>1. \E g : g = [i \in 0..half |-> At(g, i)]
    BY <1>3
  <2> QED
    BY <2>1
<1>5. FoldPairs(group)
        = [i \in 1..half |->
             <<group[i].id, group[CHOOSE j \in taken[i] \ taken[i - 1] : TRUE].id>>]
  <2> DEFINE middle == Len(group) \div 2
             At2(g, i) == IF i = 0 THEN {}
                          ELSE g[i - 1] \cup {Min(FoldChoices(group, middle, g[i - 1], i))}
             taken2 == CHOOSE g : g = [i \in 0..middle |-> At2(g, i)]
  <2>1. FoldPairs(group)
          = [i \in 1..middle |->
               <<group[i].id, group[CHOOSE j \in taken2[i] \ taken2[i - 1] : TRUE].id>>]
    BY Zenon DEF FoldPairs, FoldChoices
  <2>2. middle = half
    OBVIOUS
  <2> HIDE DEF middle
  <2> QED
    BY <2>1, <2>2
<1> HIDE DEF taken
<1>6. taken[0] = {}
  BY <1>4
<1>7. ASSUME NEW i \in 1..half
      PROVE  taken[i] = Next1(taken[i - 1], i)
  <2>1. i \in 0..half /\ i # 0
    OBVIOUS
  <2> HIDE DEF Next1
  <2> QED
    BY <1>4, <2>1
<1>8. Folds(taken, group, half)
  BY <1>5, <1>6, <1>7 DEF Folds
<1> QED
  BY <1>8

\* The least element of a set of numbers is in it.
LEMMA MinIsIn ==
  ASSUME NEW T, T \subseteq Nat, T # {}
  PROVE  Min(T) \in T /\ \A n \in T : Min(T) <= n
<1>1. \E m \in T : \A n \in T : m <= n
  BY LeastNatural
<1> QED
  BY <1>1 DEF Min

\* Whom of the bottom half each of the top half meets.
Partners(partner, group, half) ==
  /\ partner \in [1..half -> (half + 1)..(2 * half)]
  /\ \A i, k \in 1..half : partner[i] = partner[k] => i = k
  /\ \A j \in (half + 1)..(2 * half) : \E i \in 1..half : partner[i] = j
  /\ FoldPairs(group) = [i \in 1..half |-> <<group[i].id, group[partner[i]].id>>]

\* Each of the top half gets one of the bottom half, no two the same.
LEMMA FoldPartners ==
  ASSUME NEW group, NEW half \in Nat, half = Len(group) \div 2
  PROVE  \E partner : Partners(partner, group, half)
<1> DEFINE upper == (half + 1)..(2 * half)
<1>1. PICK taken : Folds(taken, group, half)
  BY FoldUnrolls
<1>2. IsFiniteSet(upper) /\ Cardinality(upper) = half /\ upper \subseteq Nat
  <2>1. half + 1 \in Int /\ 2 * half \in Int /\ (half + 1 > 2 * half <=> half = 0)
    OBVIOUS
  <2>2. IsFiniteSet(upper) /\ Cardinality(upper) = IF half + 1 > 2 * half THEN 0 ELSE 2 * half - (half + 1) + 1
    BY <2>1, FS_Interval
  <2> QED
    BY <2>1, <2>2
<1> DEFINE S == {i \in 0..half : taken[i] \subseteq upper /\ Cardinality(taken[i]) = i}
           m == [i \in 1..half |-> Min(FoldChoices(group, half, taken[i - 1], i))]
<1>3. 0 \in S
  BY <1>1, FS_EmptySet DEF Folds
<1>4. ASSUME NEW i \in 1..half, i - 1 \in S
      PROVE  /\ i \in S
             /\ m[i] \in upper /\ m[i] \notin taken[i - 1]
             /\ taken[i] = taken[i - 1] \cup {m[i]}
  <2>1. taken[i - 1] \subseteq upper /\ Cardinality(taken[i - 1]) = i - 1 /\ IsFiniteSet(taken[i - 1])
    BY <1>2, <1>4, FS_Subset
  <2>2. upper \ taken[i - 1] # {}
    <3>1. taken[i - 1] # upper
      BY <1>2, <2>1
    <3> QED
      BY <2>1, <3>1
  <2>3. /\ FoldChoices(group, half, taken[i - 1], i) \subseteq upper \ taken[i - 1]
        /\ FoldChoices(group, half, taken[i - 1], i) # {}
    BY <2>2 DEF FoldChoices
  <2>4. m[i] \in upper /\ m[i] \notin taken[i - 1]
    <3>1. FoldChoices(group, half, taken[i - 1], i) \subseteq Nat
      BY <1>2, <2>3
    <3>2. m[i] = Min(FoldChoices(group, half, taken[i - 1], i))
      OBVIOUS
    <3> QED
      BY <2>3, <3>1, <3>2, MinIsIn
  <2>5. taken[i] = taken[i - 1] \cup {m[i]}
    BY <1>1 DEF Folds
  <2>6. Cardinality(taken[i]) = i
    <3> HIDE DEF m, upper
    <3>1. Cardinality(taken[i]) = (i - 1) + 1
      BY <2>1, <2>4, <2>5, FS_AddElement
    <3> QED
      BY <3>1
  <2>7. taken[i] \subseteq upper /\ i \in 0..half
    <3> HIDE DEF m, upper
    <3> QED
      BY <2>1, <2>4, <2>5
  <2> HIDE DEF m, upper
  <2> QED
    BY <2>4, <2>5, <2>6, <2>7
<1>5. \A i \in 0..half : i \in S
  <2> HIDE DEF S
  <2> QED
    BY <1>3, <1>4, BoundedInduction
<1>6. ASSUME NEW i \in 1..half
      PROVE  /\ m[i] \in upper /\ m[i] \notin taken[i - 1]
             /\ taken[i] = taken[i - 1] \cup {m[i]}
  <2>1. i - 1 \in 0..half
    OBVIOUS
  <2> HIDE DEF S, m, upper
  <2> QED
    BY <1>4, <1>5, <2>1
<1> HIDE DEF m
\* Who was taken stays taken.
<1> DEFINE U == {k \in 0..half : \A i \in 1..half : i <= k => m[i] \in taken[k]}
<1>7. 0 \in U
  OBVIOUS
<1>8. ASSUME NEW k \in 1..half, k - 1 \in U
      PROVE  k \in U
  <2>1. taken[k] = taken[k - 1] \cup {m[k]}
    BY <1>6
  <2>2. \A i \in 1..half : i <= k => i = k \/ i <= k - 1
    OBVIOUS
  <2> QED
    BY <1>8, <2>1, <2>2
<1>9. \A k \in 0..half : k \in U
  <2> HIDE DEF U
  <2> QED
    BY <1>7, <1>8, BoundedInduction
<1>10. ASSUME NEW i \in 1..half, NEW k \in 1..half, i < k
       PROVE  m[i] # m[k]
  <2>1. k - 1 \in 0..half /\ i <= k - 1
    BY <1>10
  <2>2. m[i] \in taken[k - 1]
    BY <1>9, <2>1
  <2> QED
    BY <1>6, <2>2
<1>11. \A i, k \in 1..half : m[i] = m[k] => i = k
  <2> SUFFICES ASSUME NEW i \in 1..half, NEW k \in 1..half, m[i] = m[k], i # k PROVE FALSE
    OBVIOUS
  <2>1. i < k \/ k < i
    OBVIOUS
  <2> QED
    BY <1>10, <2>1
<1> DEFINE partner == [i \in 1..half |-> m[i]]
<1>12. partner \in [1..half -> upper]
  BY <1>6
<1>13. \A j \in upper : \E i \in 1..half : partner[i] = j
  <2>1. partner \in Injection(1..half, upper)
    BY <1>11, <1>12 DEF Injection, IsInjective
  <2>2. IsFiniteSet(1..half) /\ Cardinality(1..half) = half
    BY FS_Interval
  <2>3. partner \in Surjection(1..half, upper)
    <3> HIDE DEF partner, upper
    <3> QED
      BY <1>2, <2>1, <2>2, FS_Injection
  <2> QED
    BY <2>3 DEF Surjection
<1>14. ASSUME NEW i \in 1..half
       PROVE  (CHOOSE j \in taken[i] \ taken[i - 1] : TRUE) = m[i]
  <2>1. taken[i] \ taken[i - 1] = {m[i]}
    BY <1>6
  <2> QED
    BY <2>1
<1>15. FoldPairs(group) = [i \in 1..half |-> <<group[i].id, group[partner[i]].id>>]
  BY <1>1, <1>14 DEF Folds
<1>16. \A i, k \in 1..half : partner[i] = partner[k] => i = k
  BY <1>11
<1>17. Partners(partner, group, half)
  <2> HIDE DEF partner
  <2> QED
    BY <1>12, <1>13, <1>15, <1>16 DEF Partners
<1> QED
  BY <1>17

\* A list of pairs in which each of S has exactly one place.
PairsUp(pairs, S) ==
  /\ pairs \in Seq(S \X S)
  /\ \A k \in 1..Len(pairs) : pairs[k][1] # pairs[k][2]
  /\ \A k, l \in 1..Len(pairs) : \A e \in S :
       e \in {pairs[k][1], pairs[k][2]} /\ e \in {pairs[l][1], pairs[l][2]} => k = l
  /\ \A e \in S : \E k \in 1..Len(pairs) : e \in {pairs[k][1], pairs[k][2]}

\* Who is in a list of rows.
Ids(s) == {s[i].id : i \in 1..Len(s)}
\* Nobody is in it twice.
DistinctIds(s) == \A i, j \in 1..Len(s) : s[i].id = s[j].id => i = j

\* foldPairs pairs up a group of even size: everybody has exactly one place.
LEMMA FoldPairsUp ==
  ASSUME NEW R, NEW group \in Seq(R), DistinctIds(group), NEW half \in Nat, Len(group) = 2 * half
  PROVE  PairsUp(FoldPairs(group), Ids(group)) /\ Len(FoldPairs(group)) = half
<1> DEFINE pairs == FoldPairs(group)
           S == Ids(group)
<1>1. half = Len(group) \div 2
  OBVIOUS
<1>2. PICK partner : Partners(partner, group, half)
  BY <1>1, FoldPartners
<1>3. \A i \in 1..half : /\ i \in 1..Len(group) /\ partner[i] \in 1..Len(group)
                         /\ partner[i] > half
  <2> SUFFICES ASSUME NEW i \in 1..half
               PROVE  i \in 1..Len(group) /\ partner[i] \in 1..Len(group) /\ partner[i] > half
    OBVIOUS
  <2>1. partner[i] \in (half + 1)..(2 * half)
    BY <1>2 DEF Partners
  <2> QED
    BY <2>1
<1>4. \A i \in 1..half : pairs[i] = <<group[i].id, group[partner[i]].id>>
  BY <1>2 DEF Partners
<1>5. pairs \in [1..half -> S \X S]
  <2>1. \A i \in 1..half : pairs[i] \in S \X S
    <3> SUFFICES ASSUME NEW i \in 1..half PROVE pairs[i] \in S \X S
      OBVIOUS
    <3>1. group[i].id \in S /\ group[partner[i]].id \in S
      BY <1>3 DEF Ids
    <3>2. pairs[i] = <<group[i].id, group[partner[i]].id>>
      BY <1>4
    <3> HIDE DEF pairs, S
    <3>3. <<group[i].id, group[partner[i]].id>> \in S \X S
      BY <3>1
    <3> QED
      BY <3>2, <3>3
  <2> QED
    BY <1>2, <2>1 DEF Partners
<1>6. pairs \in Seq(S \X S) /\ Len(pairs) = half
  <2> HIDE DEF pairs, S
  <2> QED
    BY <1>5
<1> HIDE DEF pairs, S
<1>7. ASSUME NEW k \in 1..half
      PROVE  pairs[k][1] # pairs[k][2]
  <2>1. k # partner[k]
    BY <1>3
  <2> QED
    BY <1>3, <1>4, <2>1 DEF DistinctIds
<1>8. ASSUME NEW k \in 1..half, NEW l \in 1..half, NEW e,
             e \in {pairs[k][1], pairs[k][2]}, e \in {pairs[l][1], pairs[l][2]}
      PROVE  k = l
  <2>1. /\ e = group[k].id \/ e = group[partner[k]].id
        /\ e = group[l].id \/ e = group[partner[l]].id
    BY <1>4, <1>8
  <2>2. k # partner[l] /\ l # partner[k]
    BY <1>3
  <2>3. k = l \/ partner[k] = partner[l]
    BY <1>3, <2>1, <2>2 DEF DistinctIds
  <2> QED
    BY <1>2, <2>3 DEF Partners
<1>9. ASSUME NEW e \in S
      PROVE  \E k \in 1..half : e \in {pairs[k][1], pairs[k][2]}
  <2>1. PICK i \in 1..Len(group) : e = group[i].id
    BY DEF Ids, S
  <2>2. CASE i <= half
    <3>1. i \in 1..half
      BY <2>2
    <3> QED
      BY <1>4, <2>1, <3>1
  <2>3. CASE i > half
    <3>1. i \in (half + 1)..(2 * half)
      BY <2>3
    <3>2. PICK k \in 1..half : partner[k] = i
      BY <1>2, <3>1 DEF Partners
    <3> QED
      BY <1>4, <2>1, <3>2
  <2> QED
    BY <2>2, <2>3
<1>10. PairsUp(pairs, S)
  <2>1. \A k \in 1..Len(pairs) : pairs[k][1] # pairs[k][2]
    BY <1>6, <1>7
  <2>2. \A k, l \in 1..Len(pairs) : \A e \in S :
          e \in {pairs[k][1], pairs[k][2]} /\ e \in {pairs[l][1], pairs[l][2]} => k = l
    BY <1>6, <1>8
  <2>3. \A e \in S : \E k \in 1..Len(pairs) : e \in {pairs[k][1], pairs[k][2]}
    BY <1>6, <1>9
  <2> QED
    BY <1>6, <2>1, <2>2, <2>3 DEF PairsUp
<1> QED
  BY <1>6, <1>10 DEF pairs, S

\* Two lists of pairs of different players make one.
LEMMA PairsUpJoined ==
  ASSUME NEW p, NEW S, PairsUp(p, S), NEW q, NEW T, PairsUp(q, T), S \cap T = {}
  PROVE  PairsUp(p \o q, S \cup T) /\ Len(p \o q) = Len(p) + Len(q)
<1> DEFINE r == p \o q
           P == (S \cup T) \X (S \cup T)
<1>1. /\ p \in Seq(S \X S) /\ q \in Seq(T \X T)
      /\ p \in Seq(P) /\ q \in Seq(P)
  <2>1. p \in Seq(S \X S) /\ q \in Seq(T \X T)
    BY DEF PairsUp
  <2>2. S \X S \subseteq P /\ T \X T \subseteq P
    OBVIOUS
  <2> HIDE DEF P
  <2> QED
    BY <2>1, <2>2
<1>2. /\ r \in Seq(P) /\ Len(r) = Len(p) + Len(q)
      /\ Len(p) \in Nat /\ Len(q) \in Nat
      /\ \A k \in 1..Len(p) : r[k] = p[k]
      /\ \A k \in 1..Len(q) : r[Len(p) + k] = q[k]
  <2> HIDE DEF P
  <2> QED
    BY <1>1
<1>3. ASSUME NEW k \in 1..Len(r)
      PROVE  \/ /\ k \in 1..Len(p) /\ r[k] = p[k]
                /\ p[k][1] \in S /\ p[k][2] \in S
             \/ /\ k - Len(p) \in 1..Len(q) /\ r[k] = q[k - Len(p)]
                /\ q[k - Len(p)][1] \in T /\ q[k - Len(p)][2] \in T
  <2>1. CASE k <= Len(p)
    <3>1. k \in 1..Len(p)
      BY <1>2, <2>1
    <3>2. p[k] \in S \X S
      BY <1>1, <3>1
    <3> QED
      BY <1>2, <3>1, <3>2
  <2>2. CASE k > Len(p)
    <3>1. k - Len(p) \in 1..Len(q) /\ Len(p) + (k - Len(p)) = k
      BY <1>2, <2>2
    <3>2. q[k - Len(p)] \in T \X T
      BY <1>1, <3>1
    <3> QED
      BY <1>2, <3>1, <3>2
  <2> QED
    BY <1>2, <2>1, <2>2
<1> HIDE DEF r
<1>4. ASSUME NEW k \in 1..Len(r)
      PROVE  r[k][1] # r[k][2]
  <2>1. CASE k \in 1..Len(p) /\ r[k] = p[k]
    BY <2>1 DEF PairsUp
  <2>2. CASE k - Len(p) \in 1..Len(q) /\ r[k] = q[k - Len(p)]
    BY <2>2 DEF PairsUp
  <2> QED
    BY <1>3, <2>1, <2>2
<1>5. ASSUME NEW k \in 1..Len(r), NEW l \in 1..Len(r), NEW e \in S \cup T,
             e \in {r[k][1], r[k][2]}, e \in {r[l][1], r[l][2]}
      PROVE  k = l
  <2>1. CASE e \in S
    <3>1. k \in 1..Len(p) /\ r[k] = p[k] /\ l \in 1..Len(p) /\ r[l] = p[l]
      BY <1>3, <1>5, <2>1
    <3> QED
      BY <1>5, <2>1, <3>1 DEF PairsUp
  <2>2. CASE e \in T
    <3>1. /\ k - Len(p) \in 1..Len(q) /\ r[k] = q[k - Len(p)]
          /\ l - Len(p) \in 1..Len(q) /\ r[l] = q[l - Len(p)]
      BY <1>3, <1>5, <2>2
    <3>2. k - Len(p) = l - Len(p)
      BY <1>5, <2>2, <3>1 DEF PairsUp
    <3> QED
      BY <1>2, <3>2
  <2> QED
    BY <2>1, <2>2
<1>6. ASSUME NEW e \in S \cup T
      PROVE  \E k \in 1..Len(r) : e \in {r[k][1], r[k][2]}
  <2>1. CASE e \in S
    <3>1. PICK k \in 1..Len(p) : e \in {p[k][1], p[k][2]}
      BY <2>1 DEF PairsUp
    <3>2. k \in 1..Len(r) /\ r[k] = p[k]
      BY <1>2
    <3> QED
      BY <3>1, <3>2
  <2>2. CASE e \in T
    <3>1. PICK k \in 1..Len(q) : e \in {q[k][1], q[k][2]}
      BY <2>2 DEF PairsUp
    <3>2. Len(p) + k \in 1..Len(r) /\ r[Len(p) + k] = q[k]
      BY <1>2
    <3> QED
      BY <3>1, <3>2
  <2> QED
    BY <2>1, <2>2
<1> QED
  BY <1>2, <1>4, <1>5, <1>6 DEF PairsUp, r

\* Who can be paired up is an even number of players.
LEMMA EvenIfPairedUp ==
  ASSUME NEW p, NEW S, PairsUp(p, S)
  PROVE  Len(p) \in Nat /\ IsFiniteSet(S) /\ Cardinality(S) = 2 * Len(p)
<1> DEFINE n == Len(p)
           f == [k \in 1..(2 * n) |-> IF k <= n THEN p[k][1] ELSE p[k - n][2]]
<1>1. p \in Seq(S \X S) /\ n \in Nat
  BY DEF PairsUp
<1>2. \A k \in 1..n : p[k][1] \in S /\ p[k][2] \in S /\ p[k][1] # p[k][2]
  <2> SUFFICES ASSUME NEW k \in 1..n PROVE p[k][1] \in S /\ p[k][2] \in S /\ p[k][1] # p[k][2]
    OBVIOUS
  <2>1. p[k] \in S \X S
    BY <1>1
  <2> QED
    BY <2>1 DEF PairsUp
<1>3. ASSUME NEW k \in 1..(2 * n)
      PROVE  \/ k \in 1..n /\ f[k] = p[k][1]
             \/ k - n \in 1..n /\ f[k] = p[k - n][2]
  BY <1>1
<1>4. f \in [1..(2 * n) -> S]
  <2>1. \A k \in 1..(2 * n) : f[k] \in S
    BY <1>2, <1>3
  <2> QED
    BY <2>1
<1>5. ASSUME NEW k \in 1..(2 * n), NEW l \in 1..(2 * n), f[k] = f[l]
      PROVE  k = l
  <2> HIDE DEF f
  <2>1. f[k] \in S /\ \A i, j \in 1..n :
          f[k] \in {p[i][1], p[i][2]} /\ f[k] \in {p[j][1], p[j][2]} => i = j
    BY <1>4 DEF PairsUp
  <2>2. \/ k \in 1..n /\ l \in 1..n /\ k = l
        \/ k - n \in 1..n /\ l - n \in 1..n /\ k - n = l - n
    BY <1>2, <1>3, <1>5, <2>1
  <2> QED
    BY <1>1, <2>2
<1>6. ASSUME NEW e \in S
      PROVE  \E k \in 1..(2 * n) : f[k] = e
  <2>1. PICK k \in 1..n : e \in {p[k][1], p[k][2]}
    BY DEF PairsUp
  <2>2. CASE e = p[k][1]
    <3>1. k \in 1..(2 * n) /\ f[k] = e
      BY <1>1, <2>2
    <3> QED
      BY <3>1
  <2>3. CASE e = p[k][2]
    <3>1. k + n \in 1..(2 * n) /\ f[k + n] = e
      BY <1>1, <2>3
    <3> QED
      BY <3>1
  <2> QED
    BY <2>1, <2>2, <2>3
<1>7. f \in Bijection(1..(2 * n), S)
  <2> HIDE DEF f
  <2> QED
    BY <1>4, <1>5, <1>6 DEF Bijection, Injection, IsInjective, Surjection
<1>8. ExistsBijection(1..(2 * n), S)
  BY <1>7 DEF ExistsBijection
<1>9. IsFiniteSet(1..(2 * n)) /\ Cardinality(1..(2 * n)) = 2 * n
  <2>1. 2 * n \in Nat
    BY <1>1
  <2> QED
    BY <2>1, FS_Interval
<1> QED
  BY <1>1, <1>8, <1>9, FS_Bijection

-----------------------------------------------------------------------------
(* pairByScore.                                                            *)

\* The scores of a table, the k-th of them, and the rows that have a score.
Scores(rows) == {r.score : r \in Range(rows)}
ScoreAt(S, k) == CHOOSE x \in S : Cardinality({y \in S : y > x}) = k - 1
GroupOf(rows, v) == Picked(rows, {i \in DOMAIN rows : rows[i].score = v})
\* One turn of pairByScore: the group is paired, an odd one carries its last.
AddGroup(done, g) ==
  IF Len(g) % 2 = 1
  THEN [carry |-> <<Last(g)>>, pairs |-> done \o FoldPairs(Front(g))]
  ELSE [carry |-> <<>>, pairs |-> done \o FoldPairs(g)]

\* The score groups being paired from the top.
GroupsPaired(from, rows) ==
  /\ from[0] = [carry |-> <<>>, pairs |-> <<>>]
  /\ \A k \in 1..Cardinality(Scores(rows)) :
       from[k] = AddGroup(from[k - 1].pairs,
                          from[k - 1].carry \o GroupOf(rows, ScoreAt(Scores(rows), k)))
  /\ PairByScore(rows) = from[Cardinality(Scores(rows))].pairs

\* What the loop of pairByScore has done after each of its turns.
LEMMA PairByScoreUnrolls ==
  ASSUME NEW rows, Cardinality(Scores(rows)) \in Nat
  PROVE  \E from : GroupsPaired(from, rows)
<1> DEFINE top == Cardinality(Scores(rows))
           none == [carry |-> <<>>, pairs |-> <<>>]
           Next1(t, i) == AddGroup(t.pairs, t.carry \o GroupOf(rows, ScoreAt(Scores(rows), i)))
           At(g, i) == IF i = 0 THEN none ELSE Next1(g[i - 1], i)
           S == {n \in Nat : \E g : g = [i \in 0..n |-> At(g, i)]}
<1>1. 0 \in S
  <2> DEFINE g == [i \in 0..0 |-> none]
  <2>1. g = [i \in 0..0 |-> At(g, i)]
    OBVIOUS
  <2> QED
    BY <2>1
<1>2. ASSUME NEW n \in Nat, n \in S
      PROVE  n + 1 \in S
  <2>1. PICK g : g = [i \in 0..n |-> At(g, i)]
    BY <1>2
  <2> DEFINE h == [i \in 0..(n + 1) |-> IF i = n + 1 THEN Next1(g[n], n + 1) ELSE g[i]]
  <2> HIDE DEF Next1, none
  <2>2. ASSUME NEW i \in 0..(n + 1)
        PROVE  h[i] = At(h, i)
    <3>1. CASE i = n + 1
      <4>1. i # 0 /\ i - 1 = n /\ n \in 0..(n + 1) /\ n # n + 1
        BY <3>1
      <4>2. h[n] = g[n]
        BY <4>1
      <4> QED
        BY <3>1, <4>1, <4>2
    <3>2. CASE i = 0
      <4>1. h[0] = g[0] /\ g[0] = none
        BY <2>1
      <4> QED
        BY <3>2, <4>1
    <3>3. CASE i \in 1..n
      <4>1. i \in 0..n /\ i # 0 /\ i - 1 \in 0..n /\ i - 1 \in 0..(n + 1) /\ i - 1 # n + 1 /\ i # n + 1
        BY <3>3
      <4>2. h[i] = g[i] /\ h[i - 1] = g[i - 1]
        BY <4>1
      <4>3. g[i] = At(g, i)
        BY <2>1, <4>1
      <4> QED
        BY <4>1, <4>2, <4>3
    <3> QED
      BY <3>1, <3>2, <3>3
  <2>3. h = [i \in 0..(n + 1) |-> At(h, i)]
    BY <2>2
  <2>4. \E f : f = [i \in 0..(n + 1) |-> At(f, i)]
    <3> HIDE DEF h, At
    <3> QED
      BY <2>3
  <2> QED
    BY <2>4
<1>3. \A n \in Nat : n \in S
  <2> HIDE DEF S
  <2> QED
    BY <1>1, <1>2, SetInduction
<1> DEFINE from == CHOOSE g : g = [i \in 0..top |-> At(g, i)]
<1>4. from = [i \in 0..top |-> At(from, i)]
  <2>1. \E g : g = [i \in 0..top |-> At(g, i)]
    BY <1>3
  <2> QED
    BY <2>1
<1>5. PairByScore(rows) = from[top].pairs
  BY Zenon DEF PairByScore, Scores, ScoreAt, GroupOf, AddGroup
<1> HIDE DEF from
<1>6. from[0] = none
  BY <1>4
<1>7. ASSUME NEW i \in 1..top
      PROVE  from[i] = Next1(from[i - 1], i)
  <2>1. i \in 0..top /\ i # 0
    OBVIOUS
  <2> HIDE DEF Next1
  <2> QED
    BY <1>4, <2>1
<1>8. GroupsPaired(from, rows)
  BY <1>5, <1>6, <1>7 DEF GroupsPaired
<1> QED
  BY <1>8

\* A turn pairs up those of the group but for at most one, who is carried
\* down.
LEMMA AddGroupPairsUp ==
  ASSUME NEW R, NEW g \in Seq(R), DistinctIds(g),
         NEW done, NEW S, PairsUp(done, S), S \cap Ids(g) = {}
  PROVE  /\ AddGroup(done, g).carry \in Seq(R)
         /\ Len(AddGroup(done, g).carry) <= 1
         /\ Ids(AddGroup(done, g).carry) \subseteq Ids(g)
         /\ PairsUp(AddGroup(done, g).pairs, (S \cup Ids(g)) \ Ids(AddGroup(done, g).carry))
<1> DEFINE a == AddGroup(done, g)
           n == Len(g)
<1>1. n \in Nat
  OBVIOUS
<1>2. CASE n % 2 = 1
  <2> DEFINE half == n \div 2
             f == Front(g)
  <2>1. half \in Nat /\ n = 2 * half + 1
    BY <1>1, <1>2
  <2>2. f \in Seq(R) /\ Len(f) = 2 * half /\ \A i \in 1..(2 * half) : f[i] = g[i] /\ i \in 1..n
    BY <2>1 DEF Front
  <2>3. DistinctIds(f)
    BY <2>2 DEF DistinctIds
  <2>4. PairsUp(FoldPairs(f), Ids(f))
    <3> HIDE DEF f, half
    <3> QED
      BY <2>1, <2>2, <2>3, FoldPairsUp
  <2>5. a.carry = <<g[n]>> /\ a.pairs = done \o FoldPairs(f)
    BY <1>2 DEF AddGroup, Last
  <2>6. a.carry \in Seq(R) /\ Len(a.carry) = 1 /\ a.carry[1] = g[n] /\ n \in 1..n
    BY <2>1, <2>5
  <2>7. Ids(a.carry) = {g[n].id}
    BY <2>6 DEF Ids
  <2>8. Ids(f) = Ids(g) \ {g[n].id}
    <3>1. ASSUME NEW e \in Ids(f)
          PROVE  e \in Ids(g) \ {g[n].id}
      <4>1. PICK i \in 1..(2 * half) : e = f[i].id
        BY <2>2 DEF Ids
      <4>2. i \in 1..n /\ i # n /\ f[i] = g[i]
        BY <2>1, <2>2
      <4> QED
        BY <2>6, <4>1, <4>2 DEF Ids, DistinctIds
    <3>2. ASSUME NEW e \in Ids(g) \ {g[n].id}
          PROVE  e \in Ids(f)
      <4>1. PICK i \in 1..n : e = g[i].id
        BY DEF Ids
      <4>2. i \in 1..(2 * half)
        BY <2>1, <3>2, <4>1
      <4> QED
        BY <2>2, <4>1, <4>2 DEF Ids
    <3> QED
      BY <3>1, <3>2
  <2>9. S \cap Ids(f) = {} /\ S \cup Ids(f) = (S \cup Ids(g)) \ Ids(a.carry)
    <3>1. g[n].id \in Ids(g)
      BY <2>6 DEF Ids
    <3> QED
      BY <2>7, <2>8, <3>1
  <2>10. PairsUp(done \o FoldPairs(f), S \cup Ids(f))
    BY <2>4, <2>9, PairsUpJoined
  <2> HIDE DEF a, f
  <2>11. Ids(a.carry) \subseteq Ids(g)
    BY <2>6, <2>7 DEF Ids
  <2>12. PairsUp(a.pairs, (S \cup Ids(g)) \ Ids(a.carry))
    BY <2>5, <2>9, <2>10
  <2>13. Len(a.carry) <= 1
    BY <2>6
  <2> QED
    BY <2>6, <2>11, <2>12, <2>13, Zenon DEF a
<1>3. CASE n % 2 # 1
  <2> DEFINE half == n \div 2
  <2>1. half \in Nat /\ n = 2 * half
    BY <1>1, <1>3
  <2>2. PairsUp(FoldPairs(g), Ids(g))
    <3> HIDE DEF half
    <3> QED
      BY <2>1, FoldPairsUp
  <2>3. a.carry = <<>> /\ a.pairs = done \o FoldPairs(g)
    BY <1>3 DEF AddGroup
  <2>4. a.carry \in Seq(R) /\ Len(a.carry) = 0 /\ Ids(a.carry) = {}
    BY <2>3 DEF Ids
  <2>5. PairsUp(done \o FoldPairs(g), S \cup Ids(g))
    BY <2>2, PairsUpJoined
  <2>6. (S \cup Ids(g)) \ Ids(a.carry) = S \cup Ids(g)
    BY <2>4
  <2> HIDE DEF a
  <2>7. PairsUp(a.pairs, (S \cup Ids(g)) \ Ids(a.carry))
    BY <2>3, <2>5, <2>6
  <2>8. Len(a.carry) <= 1 /\ Ids(a.carry) \subseteq Ids(g)
    BY <2>4
  <2> QED
    BY <2>4, <2>7, <2>8, Zenon DEF a
<1> QED
  BY <1>2, <1>3

\* The places of the scores from the top.
LEMMA ScoresArePlaced ==
  ASSUME NEW R, NEW rows \in Seq(R), \A i \in 1..Len(rows) : rows[i].score \in Int
  PROVE  /\ Cardinality(Scores(rows)) \in Nat
         /\ \E place :
              /\ \A i \in 1..Len(rows) : place[rows[i].score] \in 0..(Cardinality(Scores(rows)) - 1)
              /\ \A k \in 1..Cardinality(Scores(rows)) : \A i \in 1..Len(rows) :
                   place[rows[i].score] = k - 1 <=> rows[i].score = ScoreAt(Scores(rows), k)
<1> DEFINE S == Scores(rows)
           L == {yx \in S \X S : yx[1] > yx[2]}
           f == [i \in 1..Len(rows) |-> rows[i].score]
           place == [x \in S |-> Place(S, L, x)]
<1>1. Len(rows) \in Nat /\ DOMAIN rows = 1..Len(rows)
  OBVIOUS
<1>2. /\ S \subseteq Int
      /\ \A i \in 1..Len(rows) : rows[i].score \in S
  BY <1>1 DEF Scores, Range
<1>3. IsFiniteSet(S)
  <2>1. f \in Surjection(1..Len(rows), S)
    <3>1. f \in [1..Len(rows) -> S]
      BY <1>2
    <3>2. \A x \in S : \E i \in 1..Len(rows) : f[i] = x
      BY <1>1 DEF Scores, Range
    <3> QED
      BY <3>1, <3>2 DEF Surjection
  <2>2. IsFiniteSet(1..Len(rows))
    BY <1>1, FS_Interval
  <2> HIDE DEF f, S
  <2> QED
    BY <2>1, <2>2, FS_Surjection
<1>4. Cardinality(S) \in Nat
  BY <1>3, FS_CardinalityType
<1> HIDE DEF S
<1>5. Orders(L, S)
  <2>1. \A x, y \in S : <<x, y>> \in L <=> x > y
    OBVIOUS
  <2> HIDE DEF L
  <2> QED
    BY <1>2, <2>1 DEF Orders
<1>6. \A x \in S : {y \in S : <<y, x>> \in L} = {y \in S : y > x}
  OBVIOUS
<1> HIDE DEF L
<1>7. \A x \in S : Place(S, L, x) = Cardinality({y \in S : y > x})
  BY <1>6 DEF Place
<1>8. /\ \A x \in S : Place(S, L, x) \in 0..(Cardinality(S) - 1)
      /\ \A x, y \in S : Place(S, L, x) = Place(S, L, y) => x = y
      /\ \A k \in 0..(Cardinality(S) - 1) : \E x \in S : Place(S, L, x) = k
  BY <1>3, <1>5, PlacesAreTaken
<1>9. ASSUME NEW k \in 1..Cardinality(S)
      PROVE  ScoreAt(S, k) \in S /\ place[ScoreAt(S, k)] = k - 1
  <2>1. k - 1 \in 0..(Cardinality(S) - 1)
    BY <1>4
  <2>2. \E x \in S : Cardinality({y \in S : y > x}) = k - 1
    BY <1>7, <1>8, <2>1
  <2>3. ScoreAt(S, k) \in S /\ Cardinality({y \in S : y > ScoreAt(S, k)}) = k - 1
    BY <2>2 DEF ScoreAt
  <2> QED
    BY <1>7, <2>3
<1>10. \A x \in S : place[x] = Place(S, L, x)
  OBVIOUS
<1> HIDE DEF place
<1>11. \A i \in 1..Len(rows) : place[rows[i].score] \in 0..(Cardinality(S) - 1)
  BY <1>2, <1>8, <1>10
<1>12. \A k \in 1..Cardinality(S) : \A i \in 1..Len(rows) :
         place[rows[i].score] = k - 1 <=> rows[i].score = ScoreAt(S, k)
  <2> SUFFICES ASSUME NEW k \in 1..Cardinality(S), NEW i \in 1..Len(rows)
               PROVE  place[rows[i].score] = k - 1 <=> rows[i].score = ScoreAt(S, k)
    OBVIOUS
  <2> DEFINE x == rows[i].score
             y == ScoreAt(S, k)
  <2>1. x \in S /\ y \in S /\ place[y] = k - 1
    BY <1>2, <1>9
  <2> HIDE DEF x, y
  <2>2. place[x] = place[y] => x = y
    BY <1>8, <1>10, <2>1
  <2> QED
    BY <2>1, <2>2 DEF x, y
<1> QED
  BY <1>4, <1>11, <1>12 DEF S

\* The group of a score is the rows that have it.
LEMMA GroupOfScore ==
  ASSUME NEW R, NEW rows \in Seq(R), DistinctIds(rows), NEW v
  PROVE  /\ GroupOf(rows, v) \in Seq(R)
         /\ DistinctIds(GroupOf(rows, v))
         /\ \A e : e \in Ids(GroupOf(rows, v))
                     <=> \E i \in 1..Len(rows) : rows[i].score = v /\ e = rows[i].id
<1> DEFINE I == {i \in DOMAIN rows : rows[i].score = v}
           G == GroupOf(rows, v)
           n == Cardinality(I)
<1>1. I \in SUBSET DOMAIN rows /\ DOMAIN rows = 1..Len(rows) /\ Len(rows) \in Nat
  OBVIOUS
<1>2. G = Picked(rows, I)
  BY DEF GroupOf
<1>3. \A i : i \in I <=> i \in 1..Len(rows) /\ rows[i].score = v
  BY <1>1
<1> HIDE DEF I, G
<1>4. G \in Seq(R) /\ Len(G) = n /\ n \in Nat
  BY <1>1, <1>2, PickedProperties
<1>5. PICK at \in [1..n -> I] :
        /\ \A k \in 1..n : G[k] = rows[at[k]]
        /\ \A k, l \in 1..n : k < l => at[k] < at[l]
        /\ \A i \in I : \E k \in 1..n : at[k] = i
  BY <1>1, <1>2, PickedProperties
<1>6. \A k \in 1..n : at[k] \in 1..Len(rows) /\ rows[at[k]].score = v
  BY <1>3, <1>5
<1>7. ASSUME NEW k \in 1..n, NEW l \in 1..n, G[k].id = G[l].id
      PROVE  k = l
  <2>1. at[k] = at[l]
    BY <1>5, <1>6, <1>7 DEF DistinctIds
  <2>2. ~(k < l) /\ ~(l < k)
    BY <1>5, <1>6, <2>1
  <2> QED
    BY <1>4, <2>2
<1>8. DistinctIds(G)
  BY <1>4, <1>7 DEF DistinctIds
<1>9. ASSUME NEW e, e \in Ids(G)
      PROVE  \E i \in 1..Len(rows) : rows[i].score = v /\ e = rows[i].id
  <2>1. PICK k \in 1..n : e = G[k].id
    BY <1>4, <1>9 DEF Ids
  <2> QED
    BY <1>5, <1>6, <2>1
<1>10. ASSUME NEW i \in 1..Len(rows), rows[i].score = v
       PROVE  rows[i].id \in Ids(G)
  <2>1. i \in I
    BY <1>3, <1>10
  <2>2. PICK k \in 1..n : at[k] = i
    BY <1>5, <2>1
  <2>3. G[k] = rows[i] /\ k \in 1..Len(G)
    BY <1>4, <1>5, <2>2
  <2> QED
    BY <2>3 DEF Ids
<1> QED
  BY <1>4, <1>8, <1>9, <1>10 DEF G

\* 1..n has n elements.
LEMMA UpTo ==
  ASSUME NEW n \in Nat
  PROVE  IsFiniteSet(1..n) /\ Cardinality(1..n) = n
BY FS_Interval

\* Whoever stands in an even table is paired once.
LEMMA PairByScorePairsUp ==
  ASSUME NEW R, NEW rows \in Seq(R), \A i \in 1..Len(rows) : rows[i].score \in Int,
         DistinctIds(rows), NEW half \in Nat, Len(rows) = 2 * half
  PROVE  PairsUp(PairByScore(rows), Ids(rows))
<1> DEFINE top == Cardinality(Scores(rows))
<1>1. Len(rows) \in Nat /\ top \in Nat
  BY ScoresArePlaced
<1>0. IsFiniteSet(1..Len(rows)) /\ Cardinality(1..Len(rows)) = Len(rows)
  BY <1>1, UpTo
<1>2. PICK from : GroupsPaired(from, rows)
  BY <1>1, PairByScoreUnrolls
<1>3. PICK place :
              /\ \A i \in 1..Len(rows) : place[rows[i].score] \in 0..(top - 1)
              /\ \A k \in 1..top : \A i \in 1..Len(rows) :
                   place[rows[i].score] = k - 1 <=> rows[i].score = ScoreAt(Scores(rows), k)
  BY ScoresArePlaced
<1> HIDE DEF top
<1> DEFINE Above(k) == {e \in Ids(rows) :
                          \E i \in 1..Len(rows) : e = rows[i].id /\ place[rows[i].score] < k}
           Good(k) == /\ from[k].carry \in Seq(R)
                      /\ Len(from[k].carry) <= 1
                      /\ Ids(from[k].carry) \subseteq Above(k)
                      /\ PairsUp(from[k].pairs, Above(k) \ Ids(from[k].carry))
           S == {k \in 0..top : Good(k)}
<1>4. 0 \in S
  <2>1. Above(0) = {}
    BY <1>3
  <2>2. from[0].carry = <<>> /\ from[0].pairs = <<>>
    BY <1>2 DEF GroupsPaired
  <2>3. Ids(from[0].carry) = {} /\ from[0].carry \in Seq(R) /\ Len(from[0].carry) = 0
    BY <2>2 DEF Ids
  <2>4. PairsUp(<<>>, {})
    BY DEF PairsUp
  <2>6. Ids(from[0].carry) \subseteq Above(0) /\ Above(0) \ Ids(from[0].carry) = {}
    BY <2>1, <2>3
  <2> HIDE DEF Above
  <2>7. PairsUp(from[0].pairs, Above(0) \ Ids(from[0].carry))
    BY <2>2, <2>4, <2>6
  <2>5. Good(0)
    BY <2>3, <2>6, <2>7
  <2> QED
    BY <1>1, <2>5
<1>5. ASSUME NEW k \in 1..top, k - 1 \in S
      PROVE  k \in S
  <2> DEFINE v == ScoreAt(Scores(rows), k)
             c == from[k - 1].carry
             G == GroupOf(rows, v)
             g == c \o G
             done == from[k - 1].pairs
             T == Above(k - 1) \ Ids(c)
  <2>1. Good(k - 1)
    BY <1>5
  <2>2. from[k] = AddGroup(done, g)
    BY <1>2 DEF GroupsPaired, top
  <2>3. /\ G \in Seq(R) /\ DistinctIds(G)
        /\ \A e : e \in Ids(G) <=> \E i \in 1..Len(rows) : rows[i].score = v /\ e = rows[i].id
    BY GroupOfScore
  <2>4. \A i \in 1..Len(rows) : place[rows[i].score] = k - 1 <=> rows[i].score = v
    BY <1>3
  <2>5. \A i \in 1..Len(rows) : place[rows[i].score] \in Int
    BY <1>3
  <2>6. \A e : e \in Above(k) <=> e \in Above(k - 1) \/ e \in Ids(G)
    <3>1. ASSUME NEW e, e \in Above(k)
          PROVE  e \in Above(k - 1) \/ e \in Ids(G)
      <4>1. PICK i \in 1..Len(rows) : e = rows[i].id /\ place[rows[i].score] < k
        BY <3>1
      <4>2. place[rows[i].score] < k - 1 \/ place[rows[i].score] = k - 1
        BY <1>1, <2>5, <4>1
      <4> QED
        BY <2>3, <2>4, <3>1, <4>1, <4>2
    <3>2. ASSUME NEW e, e \in Above(k - 1)
          PROVE  e \in Above(k)
      <4>1. PICK i \in 1..Len(rows) : e = rows[i].id /\ place[rows[i].score] < k - 1
        BY <3>2
      <4>2. place[rows[i].score] < k
        BY <2>5, <4>1
      <4> QED
        BY <3>2, <4>1, <4>2
    <3>3. ASSUME NEW e, e \in Ids(G)
          PROVE  e \in Above(k)
      <4>1. PICK i \in 1..Len(rows) : rows[i].score = v /\ e = rows[i].id
        BY <2>3, <3>3
      <4>2. place[rows[i].score] = k - 1 /\ e \in Ids(rows)
        BY <2>4, <4>1 DEF Ids
      <4>3. place[rows[i].score] < k
        BY <4>2
      <4> QED
        BY <4>1, <4>2, <4>3
    <3> QED
      BY <3>1, <3>2, <3>3
  <2>7. ASSUME NEW e, e \in Above(k - 1), e \in Ids(G)
        PROVE  FALSE
    <3>1. PICK i \in 1..Len(rows) : e = rows[i].id /\ place[rows[i].score] < k - 1
      BY <2>7
    <3>2. PICK j \in 1..Len(rows) : rows[j].score = v /\ e = rows[j].id
      BY <2>3, <2>7
    <3>3. i = j
      BY <3>1, <3>2 DEF DistinctIds
    <3> QED
      BY <2>4, <2>5, <3>1, <3>2, <3>3
  <2> HIDE DEF G, v, Above
  <2>8. /\ c \in Seq(R) /\ Len(c) \in Nat /\ Len(c) <= 1
        /\ Ids(c) \subseteq Above(k - 1)
        /\ PairsUp(done, T)
    BY <2>1
  <2> HIDE DEF c, done
  <2>9. /\ g \in Seq(R) /\ Len(g) = Len(c) + Len(G) /\ Len(G) \in Nat
        /\ \A i \in 1..Len(c) : g[i] = c[i]
        /\ \A i \in 1..Len(G) : g[Len(c) + i] = G[i]
    BY <2>3, <2>8
  <2> HIDE DEF g
  <2>10. ASSUME NEW i \in 1..Len(g)
         PROVE  \/ /\ i \in 1..Len(c) /\ i = 1 /\ g[i] = c[i] /\ g[i].id \in Ids(c)
                \/ /\ i - Len(c) \in 1..Len(G) /\ g[i] = G[i - Len(c)]
                   /\ g[i].id \in Ids(G)
    <3>1. CASE i <= Len(c)
      <4>1. i \in 1..Len(c) /\ i = 1
        BY <2>8, <3>1
      <4> QED
        BY <2>9, <4>1 DEF Ids
    <3>2. CASE i > Len(c)
      <4>1. i - Len(c) \in 1..Len(G) /\ Len(c) + (i - Len(c)) = i
        BY <2>8, <2>9, <3>2
      <4> QED
        BY <2>9, <4>1 DEF Ids
    <3> QED
      BY <2>8, <3>1, <3>2
  <2>11. DistinctIds(g)
    <3> SUFFICES ASSUME NEW i \in 1..Len(g), NEW j \in 1..Len(g), g[i].id = g[j].id
                 PROVE  i = j
      BY DEF DistinctIds
    <3>1. CASE g[i].id \in Ids(c)
      <4>1. g[i].id \notin Ids(G)
        BY <2>7, <2>8, <3>1
      <4> QED
        BY <2>10, <4>1
    <3>2. CASE g[i].id \notin Ids(c)
      <4>1. /\ i - Len(c) \in 1..Len(G) /\ g[i] = G[i - Len(c)]
            /\ j - Len(c) \in 1..Len(G) /\ g[j] = G[j - Len(c)]
        BY <2>10, <3>2
      <4>2. i - Len(c) = j - Len(c)
        BY <2>3, <4>1 DEF DistinctIds
      <4> QED
        BY <2>8, <4>2
    <3> QED
      BY <3>1, <3>2
  <2>12. \A e : e \in Ids(g) <=> e \in Ids(c) \/ e \in Ids(G)
    <3>1. ASSUME NEW e, e \in Ids(g)
          PROVE  e \in Ids(c) \/ e \in Ids(G)
      <4>1. PICK i \in 1..Len(g) : e = g[i].id
        BY <3>1 DEF Ids
      <4> QED
        BY <2>10, <4>1
    <3>2. ASSUME NEW e, e \in Ids(c)
          PROVE  e \in Ids(g)
      <4>1. PICK i \in 1..Len(c) : e = c[i].id
        BY <3>2 DEF Ids
      <4>2. i \in 1..Len(g) /\ g[i] = c[i]
        BY <2>8, <2>9
      <4> QED
        BY <4>1, <4>2 DEF Ids
    <3>3. ASSUME NEW e, e \in Ids(G)
          PROVE  e \in Ids(g)
      <4>1. PICK i \in 1..Len(G) : e = G[i].id
        BY <3>3 DEF Ids
      <4>2. Len(c) + i \in 1..Len(g) /\ g[Len(c) + i] = G[i]
        BY <2>8, <2>9
      <4> QED
        BY <4>1, <4>2 DEF Ids
    <3> QED
      BY <3>1, <3>2, <3>3
  <2>13. T \cap Ids(g) = {} /\ T \cup Ids(g) = Above(k)
    BY <2>6, <2>7, <2>8, <2>12
  <2>14. /\ from[k].carry \in Seq(R)
         /\ Len(from[k].carry) <= 1
         /\ Ids(from[k].carry) \subseteq Ids(g)
         /\ PairsUp(from[k].pairs, (T \cup Ids(g)) \ Ids(from[k].carry))
    <3> HIDE DEF T
    <3> QED
      BY <2>2, <2>8, <2>9, <2>11, <2>13, AddGroupPairsUp
  <2>15. Ids(from[k].carry) \subseteq Above(k)
    BY <2>13, <2>14
  <2>16. PairsUp(from[k].pairs, Above(k) \ Ids(from[k].carry))
    BY <2>13, <2>14
  <2> QED
    BY <2>14, <2>15, <2>16
<1>6. \A k \in 0..top : k \in S
  <2> HIDE DEF S
  <2> QED
    BY <1>1, <1>4, <1>5, BoundedInduction
<1>7. Good(top)
  <2>1. top \in S
    <3> HIDE DEF S
    <3> QED
      BY <1>1, <1>6
  <2> HIDE DEF Good
  <2> QED
    BY <2>1
<1>8. Above(top) = Ids(rows)
  <2>1. \A i \in 1..Len(rows) : place[rows[i].score] < top
    BY <1>1, <1>3
  <2> QED
    BY <2>1 DEF Ids
<1> DEFINE c == from[top].carry
           pairs == from[top].pairs
<1> HIDE DEF Above
<1>9. /\ c \in Seq(R) /\ Len(c) \in Nat /\ Len(c) <= 1
      /\ Ids(c) \subseteq Ids(rows)
      /\ PairsUp(pairs, Ids(rows) \ Ids(c))
  BY <1>7, <1>8
<1>10. IsFiniteSet(Ids(rows)) /\ Cardinality(Ids(rows)) = Len(rows)
  <2> DEFINE f == [i \in 1..Len(rows) |-> rows[i].id]
  <2>1. f \in Bijection(1..Len(rows), Ids(rows))
    <3>1. \A i \in 1..Len(rows) : f[i] \in Ids(rows)
      BY DEF Ids
    <3>2. \A e \in Ids(rows) : \E i \in 1..Len(rows) : f[i] = e
      BY DEF Ids
    <3>3. \A i, j \in 1..Len(rows) : f[i] = f[j] => i = j
      BY DEF DistinctIds
    <3> QED
      BY <3>1, <3>2, <3>3 DEF Bijection, Injection, IsInjective, Surjection
  <2>2. ExistsBijection(1..Len(rows), Ids(rows))
    <3> HIDE DEF f
    <3> QED
      BY <2>1 DEF ExistsBijection
  <2> QED
    BY <1>0, <2>2, FS_Bijection
<1> HIDE DEF c, pairs
<1>11. Ids(c) = {}
  <2>0. Len(c) = 0 => Ids(c) = {}
    BY DEF Ids
  <2>5. Len(c) = 0 \/ Len(c) = 1
    <3> DEFINE n == Len(c)
    <3>1. n \in Nat
      BY <1>9
    <3>2. n <= 1
      BY <1>9
    <3>3. n = 0 \/ n = 1
      <4> HIDE DEF n
      <4> QED
        BY <3>1, <3>2
    <3> QED
      BY <3>3, Zenon
  <2> SUFFICES ASSUME Len(c) = 1 PROVE FALSE
    BY <2>0, <2>5
  <2>1. Ids(c) = {c[1].id}
    BY <1>9 DEF Ids
  <2>2. c[1].id \in Ids(rows)
    BY <1>9, <2>1
  <2>3. Cardinality(Ids(rows) \ {c[1].id}) = Len(rows) - 1
    BY <1>10, <2>2, FS_RemoveElement
  <2>4. Len(pairs) \in Nat /\ Cardinality(Ids(rows) \ {c[1].id}) = 2 * Len(pairs)
    BY <1>9, <2>1, EvenIfPairedUp
  <2> QED
    BY <1>1, <2>3, <2>4
<1>12. PairsUp(pairs, Ids(rows))
  <2>1. Ids(rows) \ Ids(c) = Ids(rows)
    BY <1>11
  <2> QED
    BY <1>9, <2>1
<1>13. PairByScore(rows) = pairs
  BY <1>2 DEF GroupsPaired, pairs, top
<1> QED
  BY <1>12, <1>13

-----------------------------------------------------------------------------
(* The bye, and the round as a whole.                                      *)

\* A round in which each of S has exactly one match or bye.
SeatsOnce(pairs, S) ==
  /\ pairs \in Seq(S \X (S \cup {Nobody}))
  /\ \A k \in 1..Len(pairs) : pairs[k][1] # pairs[k][2]
  /\ \A k, l \in 1..Len(pairs) : \A e \in S :
       e \in {pairs[k][1], pairs[k][2]} /\ e \in {pairs[l][1], pairs[l][2]} => k = l
  /\ \A e \in S : \E k \in 1..Len(pairs) : e \in {pairs[k][1], pairs[k][2]}

\* Whoever has a bye in it had none before, or everybody had.
ByesAreShared(pairs, rows) ==
  \A k \in 1..Len(pairs) :
    pairs[k][2] = Nobody =>
      \E i \in 1..Len(rows) :
        /\ rows[i].id = pairs[k][1]
        /\ rows[i].hadBye => \A j \in 1..Len(rows) : rows[j].hadBye

\* Reordered, a table has the same rows.
LEMMA ReorderedIds ==
  ASSUME NEW R, NEW s \in Seq(R), NEW r \in Seq(R), Reordered(s, r), DistinctIds(r)
  PROVE  Ids(s) = Ids(r) /\ DistinctIds(s) /\ Len(s) = Len(r)
<1>1. PICK at \in [1..Len(r) -> 1..Len(r)] :
         /\ \A k \in 1..Len(r) : s[k] = r[at[k]]
         /\ \A k, l \in 1..Len(r) : at[k] = at[l] => k = l
         /\ \A i \in 1..Len(r) : \E k \in 1..Len(r) : at[k] = i
  BY DEF Reordered
<1>2. Len(s) = Len(r)
  BY DEF Reordered
<1>0. \A k \in 1..Len(r) : at[k] \in 1..Len(r)
  OBVIOUS
<1>3. Ids(s) = Ids(r)
  <2>1. ASSUME NEW e, e \in Ids(s)
        PROVE  e \in Ids(r)
    <3>1. PICK k \in 1..Len(s) : e = s[k].id
      BY <2>1 DEF Ids
    <3>2. at[k] \in 1..Len(r) /\ e = r[at[k]].id
      BY <1>0, <1>1, <1>2, <3>1
    <3> QED
      BY <3>2 DEF Ids
  <2>2. ASSUME NEW e, e \in Ids(r)
        PROVE  e \in Ids(s)
    <3>1. PICK i \in 1..Len(r) : e = r[i].id
      BY <2>2 DEF Ids
    <3>2. PICK k \in 1..Len(r) : at[k] = i
      BY <1>1
    <3>3. k \in 1..Len(s) /\ e = s[k].id
      BY <1>1, <1>2, <3>1, <3>2
    <3> QED
      BY <3>3 DEF Ids
  <2> QED
    BY <2>1, <2>2
<1>4. ASSUME NEW i \in 1..Len(s), NEW j \in 1..Len(s), s[i].id = s[j].id
      PROVE  i = j
  <2>1. i \in 1..Len(r) /\ j \in 1..Len(r)
    BY <1>2
  <2>2. r[at[i]].id = r[at[j]].id /\ at[i] \in 1..Len(r) /\ at[j] \in 1..Len(r)
    BY <1>0, <1>1, <1>4, <2>1
  <2>3. at[i] = at[j]
    BY <2>2 DEF DistinctIds
  <2> QED
    BY <1>1, <2>1, <2>3
<1> QED
  BY <1>2, <1>3, <1>4 DEF DistinctIds

\* The greatest element of a set of numbers is in it.
LEMMA MaxIsIn ==
  ASSUME NEW T, NEW n \in Nat, T \subseteq 1..n, T # {}
  PROVE  Max(T) \in T /\ \A i \in T : i <= Max(T)
<1> DEFINE U == {n - i : i \in T}
<1>1. U \subseteq Nat /\ U # {}
  <2>1. PICK i : i \in T
    OBVIOUS
  <2>2. n - i \in U
    BY <2>1
  <2>3. ASSUME NEW j \in T
        PROVE  n - j \in Nat
    <3>1. j \in 1..n
      OBVIOUS
    <3> HIDE DEF U
    <3> QED
      BY <3>1
  <2>4. U \subseteq Nat
    BY <2>3
  <2> QED
    BY <2>2, <2>4
<1>2. PICK m \in U : \A u \in U : m <= u
  <2> HIDE DEF U
  <2> QED
    BY <1>1, LeastNatural
<1>3. PICK x \in T : m = n - x
  BY <1>2
<1>4. ASSUME NEW y \in T
      PROVE  x >= y
  <2>1. n - y \in U
    OBVIOUS
  <2>2. n - x <= n - y
    BY <1>2, <1>3, <2>1
  <2> QED
    BY <2>2
<1>5. \E z \in T : \A y \in T : z >= y
  BY <1>4
<1>6. Max(T) \in T /\ \A y \in T : Max(T) >= y
  BY <1>5 DEF Max
<1>7. T \subseteq Int
  OBVIOUS
<1> QED
  BY <1>6, <1>7

\* The bye goes to one that had none, unless all had one.
LEMMA ByeIsPlaced ==
  ASSUME NEW R, NEW s \in Seq(R), Len(s) > 0
  PROVE  /\ ByePlace(s) \in 1..Len(s)
         /\ s[ByePlace(s)].hadBye => \A j \in 1..Len(s) : s[j].hadBye
<1> DEFINE without == {i \in DOMAIN s : ~s[i].hadBye}
<1>1. Len(s) \in Nat /\ DOMAIN s = 1..Len(s)
  OBVIOUS
<1>2. without \subseteq 1..Len(s)
  BY <1>1
<1>3. ByePlace(s) = IF without # {} THEN Max(without) ELSE Len(s)
  BY DEF ByePlace
<1>4. CASE without # {}
  <2>1. Max(without) \in without
    <3> HIDE DEF without
    <3> QED
      BY <1>1, <1>2, <1>4, MaxIsIn
  <2> QED
    BY <1>2, <1>3, <1>4, <2>1
<1>5. CASE without = {}
  BY <1>1, <1>3, <1>5
<1> QED
  BY <1>4, <1>5

\* The row of who has the bye is taken out, and no other.
LEMMA RowRemoved ==
  ASSUME NEW R, NEW s \in Seq(R), NEW p \in 1..Len(s), DistinctIds(s)
  PROVE  /\ RemoveAt(s, p) \in Seq(R)
         /\ Len(RemoveAt(s, p)) = Len(s) - 1
         /\ DistinctIds(RemoveAt(s, p))
         /\ Ids(RemoveAt(s, p)) = Ids(s) \ {s[p].id}
         /\ \A k \in 1..(Len(s) - 1) : \E i \in 1..Len(s) : RemoveAt(s, p)[k] = s[i]
<1> DEFINE r == RemoveAt(s, p)
           from(k) == IF k < p THEN k ELSE k + 1
<1>1. Len(s) \in Nat /\ p \in Nat /\ 1 <= p /\ p <= Len(s)
  OBVIOUS
<1>2. r = SubSeq(s, 1, p - 1) \o SubSeq(s, p + 1, Len(s))
  BY DEF RemoveAt
<1>3. /\ SubSeq(s, 1, p - 1) \in Seq(R) /\ Len(SubSeq(s, 1, p - 1)) = p - 1
      /\ \A k \in 1..(p - 1) : SubSeq(s, 1, p - 1)[k] = s[k]
  BY <1>1
<1>4. /\ SubSeq(s, p + 1, Len(s)) \in Seq(R) /\ Len(SubSeq(s, p + 1, Len(s))) = Len(s) - p
      /\ \A k \in 1..(Len(s) - p) : SubSeq(s, p + 1, Len(s))[k] = s[k + p]
  <2>1. SubSeq(s, p + 1, Len(s)) \in Seq(R) /\ Len(SubSeq(s, p + 1, Len(s))) = Len(s) - p
    BY <1>1
  <2>2. \A k \in 1..(Len(s) - p) : SubSeq(s, p + 1, Len(s))[k] = s[k + p]
    BY <1>1
  <2> QED
    BY <2>1, <2>2
<1> DEFINE a == SubSeq(s, 1, p - 1)
           b == SubSeq(s, p + 1, Len(s))
<1>11. /\ r = a \o b /\ a \in Seq(R) /\ b \in Seq(R)
       /\ Len(a) = p - 1 /\ Len(b) = Len(s) - p
  BY <1>2, <1>3, <1>4
<1>5. r \in Seq(R) /\ Len(r) = Len(s) - 1
  <2> HIDE DEF r, a, b
  <2> QED
    BY <1>1, <1>11
<1>6. \A k \in 1..(Len(s) - 1) : r[k] = s[from(k)] /\ from(k) \in 1..Len(s) /\ from(k) # p
  <2> SUFFICES ASSUME NEW k \in 1..(Len(s) - 1)
               PROVE  r[k] = s[from(k)] /\ from(k) \in 1..Len(s) /\ from(k) # p
    OBVIOUS
  <2>1. CASE k < p
    <3>1. r[k] = SubSeq(s, 1, p - 1)[k]
      BY <1>1, <1>2, <1>3, <1>4, <2>1
    <3> QED
      BY <1>1, <1>3, <2>1, <3>1
  <2>2. CASE ~(k < p)
    <3>1. k - (p - 1) \in 1..(Len(s) - p) /\ (k - (p - 1)) + p = k + 1
      BY <1>1, <2>2
    <3>2. r[k] = SubSeq(s, p + 1, Len(s))[k - (p - 1)]
      <4>1. Len(a) < k /\ k \in 1..(Len(a) + Len(b))
        <5>1. Len(a) = p - 1 /\ Len(b) = Len(s) - p
          BY <1>11
        <5> HIDE DEF a, b
        <5> QED
          BY <1>1, <2>2, <5>1
      <4>2. (a \o b)[k] = b[k - Len(a)]
        <5> HIDE DEF a, b
        <5> QED
          BY <1>11, <4>1
      <4>3. Len(a) = p - 1
        BY <1>11
      <4> HIDE DEF r
      <4> QED
        BY <1>11, <4>2, <4>3
    <3>3. r[k] = s[k + 1]
      BY <1>4, <3>1, <3>2
    <3> QED
      BY <1>1, <2>2, <3>3
  <2> QED
    BY <2>1, <2>2
<1>7. \A i \in 1..Len(s) : i # p => \E k \in 1..(Len(s) - 1) : from(k) = i
  <2> SUFFICES ASSUME NEW i \in 1..Len(s), i # p
               PROVE  \E k \in 1..(Len(s) - 1) : from(k) = i
    OBVIOUS
  <2>1. CASE i < p
    <3>1. i \in 1..(Len(s) - 1) /\ from(i) = i
      BY <1>1, <2>1
    <3> QED
      BY <3>1
  <2>2. CASE p < i
    <3>1. i - 1 \in 1..(Len(s) - 1) /\ from(i - 1) = i
      BY <1>1, <2>2
    <3> QED
      BY <3>1
  <2> QED
    BY <1>1, <2>1, <2>2
<1>8. \A k, l \in 1..(Len(s) - 1) : from(k) = from(l) => k = l
  OBVIOUS
<1> HIDE DEF from, r
<1>9. DistinctIds(r)
  BY <1>5, <1>6, <1>8 DEF DistinctIds
<1>10. Ids(r) = Ids(s) \ {s[p].id}
  <2>1. \A e : e \in Ids(r) => e \in Ids(s) /\ e # s[p].id
    BY <1>5, <1>6 DEF Ids, DistinctIds
  <2>2. ASSUME NEW e, e \in Ids(s), e # s[p].id
        PROVE  e \in Ids(r)
    <3>1. PICK i \in 1..Len(s) : e = s[i].id
      BY <2>2 DEF Ids
    <3>2. PICK k \in 1..(Len(s) - 1) : from(k) = i
      BY <1>7, <2>2, <3>1
    <3>3. k \in 1..Len(r) /\ e = r[k].id
      BY <1>5, <1>6, <3>1, <3>2
    <3> QED
      BY <3>3 DEF Ids
  <2> QED
    BY <2>1, <2>2
<1> QED
  BY <1>5, <1>6, <1>9, <1>10 DEF r
\* Who is paired up has one match each.
LEMMA PairsUpSeats ==
  ASSUME NEW pairs, NEW S, PairsUp(pairs, S), Nobody \notin S
  PROVE  /\ SeatsOnce(pairs, S)
         /\ \A k \in 1..Len(pairs) : pairs[k][2] # Nobody
<1>1. pairs \in Seq(S \X S)
  BY DEF PairsUp
<1>2. \A k \in 1..Len(pairs) : pairs[k] \in S \X S
  BY <1>1
<1>3. \A k \in 1..Len(pairs) : pairs[k][2] # Nobody
  BY <1>2
<1>4. pairs \in Seq(S \X (S \cup {Nobody}))
  <2>1. S \X S \subseteq S \X (S \cup {Nobody})
    OBVIOUS
  <2> DEFINE P == S \X S
             Q == S \X (S \cup {Nobody})
  <2> HIDE DEF P, Q
  <2>2. pairs \in Seq(P) /\ P \subseteq Q
    BY <1>1, <2>1 DEF P, Q
  <2>3. pairs \in Seq(Q)
    BY <2>2
  <2> QED
    BY <2>3 DEF Q
<1> QED
  BY <1>3, <1>4 DEF PairsUp, SeatsOnce

\* One pair of two is added to a list of pairs of others, and may be a bye.
LEMMA ByeAppended ==
  ASSUME NEW p, NEW S, PairsUp(p, S), Nobody \notin S, NEW e, e \notin S, e # Nobody
  PROVE  /\ SeatsOnce(Append(p, <<e, Nobody>>), S \cup {e})
         /\ \A k \in 1..Len(Append(p, <<e, Nobody>>)) :
              Append(p, <<e, Nobody>>)[k][2] = Nobody => Append(p, <<e, Nobody>>)[k][1] = e
<1> DEFINE q == Append(p, <<e, Nobody>>)
           T == S \cup {e}
           n == Len(p)
           Q == T \X (T \cup {Nobody})
<1>1. p \in Seq(S \X S) /\ n \in Nat
  BY DEF PairsUp
<1>2. \A k \in 1..n : p[k] \in S \X S /\ p[k][1] \in S /\ p[k][2] \in S
  BY <1>1
<1>3. /\ \A k \in 1..n : p[k][1] # p[k][2]
      /\ \A k, l \in 1..n : \A x \in S :
           x \in {p[k][1], p[k][2]} /\ x \in {p[l][1], p[l][2]} => k = l
      /\ \A x \in S : \E k \in 1..n : x \in {p[k][1], p[k][2]}
  BY DEF PairsUp
<1>4. p \in Seq(Q) /\ <<e, Nobody>> \in Q
  <2>1. S \X S \subseteq Q /\ <<e, Nobody>> \in Q
    OBVIOUS
  <2> DEFINE P == S \X S
  <2>2. p \in Seq(P) /\ P \subseteq Q
    BY <1>1, <2>1
  <2> HIDE DEF P, Q
  <2> QED
    BY <2>1, <2>2
<1>5. /\ q \in Seq(Q) /\ Len(q) = n + 1 /\ q[n + 1] = <<e, Nobody>>
      /\ \A k \in 1..n : q[k] = p[k]
  <2> HIDE DEF Q
  <2> QED
    BY <1>4
<1> HIDE DEF q
<1>6. \A k \in 1..(n + 1) : k \in 1..n \/ k = n + 1
  BY <1>1
<1>7. q[n + 1][1] = e /\ q[n + 1][2] = Nobody
  BY <1>5
<1>8. \A k \in 1..n : q[k][1] = p[k][1] /\ q[k][2] = p[k][2] /\ q[k][1] \in S /\ q[k][2] \in S
  BY <1>2, <1>5
<1>9. \A k \in 1..(n + 1) : q[k][1] # q[k][2]
  BY <1>3, <1>6, <1>7, <1>8
<1>10. ASSUME NEW k \in 1..(n + 1), NEW l \in 1..(n + 1), NEW x \in T,
              x \in {q[k][1], q[k][2]}, x \in {q[l][1], q[l][2]}
       PROVE  k = l
  <2>1. CASE x = e
    BY <1>6, <1>7, <1>8, <1>10, <2>1
  <2>2. CASE x # e
    <3>1. x \in S /\ x # Nobody
      BY <2>2
    <3>2. k \in 1..n /\ l \in 1..n
      BY <1>6, <1>7, <1>10, <2>2, <3>1
    <3>3. x \in {p[k][1], p[k][2]} /\ x \in {p[l][1], p[l][2]}
      BY <1>8, <1>10, <3>2
    <3> QED
      BY <1>3, <3>1, <3>2, <3>3
  <2> QED
    BY <2>1, <2>2
<1>11. ASSUME NEW x \in T
       PROVE  \E k \in 1..(n + 1) : x \in {q[k][1], q[k][2]}
  <2>1. CASE x = e
    <3>1. n + 1 \in 1..(n + 1)
      BY <1>1
    <3> QED
      BY <1>7, <2>1, <3>1
  <2>2. CASE x # e
    <3>1. x \in S
      BY <2>2
    <3>2. PICK k \in 1..n : x \in {p[k][1], p[k][2]}
      BY <1>3, <3>1
    <3>3. k \in 1..(n + 1)
      BY <1>1
    <3> QED
      BY <1>8, <3>2, <3>3
  <2> QED
    BY <2>1, <2>2
<1>12. \A k \in 1..(n + 1) : q[k][2] = Nobody => q[k][1] = e
  BY <1>6, <1>7, <1>8
<1>13. SeatsOnce(q, T)
  <2>1. q \in Seq(T \X (T \cup {Nobody})) /\ Len(q) = n + 1
    BY <1>5
  <2> HIDE DEF T
  <2> QED
    BY <1>9, <1>10, <1>11, <2>1 DEF SeatsOnce
<1> QED
  BY <1>5, <1>12, <1>13 DEF q

\* What swiss.js pairs: each of the table once, and a bye to whom it is due.
LEMMA SwissRoundSeatsOnce ==
  ASSUME NEW R, NEW rows \in Seq(R), \A i \in 1..Len(rows) : rows[i].score \in Int,
         DistinctIds(rows), Nobody \notin Ids(rows)
  PROVE  /\ SeatsOnce(GenerateNextRound(rows), Ids(rows))
         /\ ByesAreShared(GenerateNextRound(rows), rows)
<1> DEFINE sorted == SortedByScore(rows)
           place == ByePlace(sorted)
           rest == RemoveAt(sorted, place)
<1>1. /\ sorted \in Seq(R) /\ Reordered(sorted, rows)
      /\ Ids(sorted) = Ids(rows) /\ DistinctIds(sorted) /\ Len(sorted) = Len(rows)
  BY SortedIsReordered, ReorderedIds
<1>2. Len(rows) \in Nat
  OBVIOUS
<1>3. PICK at \in [1..Len(rows) -> 1..Len(rows)] :
         /\ \A k \in 1..Len(rows) : sorted[k] = rows[at[k]]
         /\ \A i \in 1..Len(rows) : \E k \in 1..Len(rows) : at[k] = i
  BY <1>1 DEF Reordered
<1>4. \A k \in 1..Len(rows) : at[k] \in 1..Len(rows) /\ sorted[k].score \in Int
  BY <1>3
<1>5. GenerateNextRound(rows)
        = IF Len(rows) % 2 = 0 THEN PairByScore(sorted)
          ELSE Append(PairByScore(rest), <<sorted[place].id, Nobody>>)
  BY DEF GenerateNextRound
<1> HIDE DEF sorted
<1>6. CASE Len(rows) % 2 = 0
  <2> DEFINE half == Len(rows) \div 2
  <2>1. half \in Nat /\ Len(sorted) = 2 * half
    BY <1>1, <1>2, <1>6
  <2> HIDE DEF half
  <2>2. PairsUp(PairByScore(sorted), Ids(rows))
    BY <1>1, <1>4, <2>1, PairByScorePairsUp
  <2>3. /\ SeatsOnce(PairByScore(sorted), Ids(rows))
        /\ \A k \in 1..Len(PairByScore(sorted)) : PairByScore(sorted)[k][2] # Nobody
    BY <2>2, PairsUpSeats
  <2> QED
    BY <1>5, <1>6, <2>3 DEF ByesAreShared
<1>7. CASE Len(rows) % 2 # 0
  <2> DEFINE half == Len(rows) \div 2
             e == sorted[place].id
  <2>1. half \in Nat /\ Len(sorted) = 2 * half + 1 /\ Len(sorted) > 0 /\ Len(sorted) - 1 = 2 * half
    BY <1>1, <1>2, <1>7
  <2> HIDE DEF half
  <2>2. /\ place \in 1..Len(sorted)
        /\ sorted[place].hadBye => \A j \in 1..Len(sorted) : sorted[j].hadBye
    BY <1>1, <2>1, ByeIsPlaced
  <2> HIDE DEF place
  <2>3. /\ rest \in Seq(R)
        /\ Len(rest) = Len(sorted) - 1
        /\ DistinctIds(rest)
        /\ Ids(rest) = Ids(sorted) \ {e}
        /\ \A k \in 1..(Len(sorted) - 1) : \E i \in 1..Len(sorted) : rest[k] = sorted[i]
    BY <1>1, <2>2, RowRemoved
  <2> HIDE DEF rest
  <2>4. \A i \in 1..Len(rest) : rest[i].score \in Int
    BY <1>1, <1>4, <2>3
  <2>5. PairsUp(PairByScore(rest), Ids(rest))
    BY <2>1, <2>3, <2>4, PairByScorePairsUp
  <2>6. e \in Ids(rows) /\ e # Nobody /\ Nobody \notin Ids(rest) /\ e \notin Ids(rest)
        /\ Ids(rest) \cup {e} = Ids(rows)
    <3>1. e \in Ids(sorted)
      BY <2>2 DEF Ids
    <3> HIDE DEF e
    <3> QED
      BY <1>1, <2>3, <3>1
  <2> DEFINE pairs == Append(PairByScore(rest), <<e, Nobody>>)
  <2>7. GenerateNextRound(rows) = pairs
    BY <1>5, <1>7
  <2>8. /\ SeatsOnce(pairs, Ids(rest) \cup {e})
        /\ \A k \in 1..Len(pairs) : pairs[k][2] = Nobody => pairs[k][1] = e
    <3> HIDE DEF e
    <3> QED
      BY <2>5, <2>6, ByeAppended
  <2>9. SeatsOnce(pairs, Ids(rows))
    <3> HIDE DEF e, pairs
    <3> QED
      BY <2>6, <2>8
  <2>10. \E i \in 1..Len(rows) :
           /\ rows[i].id = e
           /\ rows[i].hadBye => \A j \in 1..Len(rows) : rows[j].hadBye
    <3>1. at[place] \in 1..Len(rows) /\ sorted[place] = rows[at[place]]
      BY <1>1, <1>3, <1>4, <2>2
    <3>2. ASSUME rows[at[place]].hadBye, NEW j \in 1..Len(rows)
          PROVE  rows[j].hadBye
      <4>1. PICK k \in 1..Len(rows) : at[k] = j
        BY <1>3
      <4>2. sorted[k].hadBye /\ sorted[k] = rows[j]
        BY <1>1, <1>3, <2>2, <3>1, <3>2, <4>1
      <4> QED
        BY <4>2
    <3> QED
      BY <3>1, <3>2
  <2>11. ByesAreShared(pairs, rows)
    <3> HIDE DEF e, pairs
    <3> QED
      BY <2>8, <2>10 DEF ByesAreShared
  <2> QED
    BY <2>7, <2>9, <2>11
<1> QED
  BY <1>6, <1>7

-----------------------------------------------------------------------------
(* roundRobin.js: the circle method.                                       *)

\* What % does on numbers that are off by less than the modulus.
LEMMA ModOfSmall ==
  ASSUME NEW m \in Nat, m > 0, NEW x \in Int, -m <= x, x < m
  PROVE  x % m = IF x >= 0 THEN x ELSE x + m
<1>1. CASE x >= 0
  BY <1>1
<1>2. CASE x < 0
  BY <1>2
<1> QED
  BY <1>1, <1>2

\* Who sits where of m + 1 in round r, counted from 0.
SeatAt(m, r, i) ==
  IF i = 0 THEN 1 ELSE IF i >= r + 1 THEN i + 1 - r ELSE i + 1 - r + m

\* The circle method moves everybody to a seat of his own.
LEMMA SeatsMove ==
  ASSUME NEW m \in Nat, m > 0, NEW r \in 0..(m - 1)
  PROVE  /\ \A i \in 0..m : SeatAt(m, r, i) \in 1..(m + 1)
         /\ \A i, j \in 0..m : SeatAt(m, r, i) = SeatAt(m, r, j) => i = j
         /\ \A p \in 1..(m + 1) : \E i \in 0..m : SeatAt(m, r, i) = p
<1>1. \A i \in 0..m : SeatAt(m, r, i) \in 1..(m + 1)
  BY DEF SeatAt
<1>2. \A i, j \in 0..m : SeatAt(m, r, i) = SeatAt(m, r, j) => i = j
  BY DEF SeatAt
<1>3. ASSUME NEW p \in 1..(m + 1)
      PROVE  \E i \in 0..m : SeatAt(m, r, i) = p
  <2>1. CASE p = 1
    <3>1. 0 \in 0..m /\ SeatAt(m, r, 0) = 1
      BY DEF SeatAt
    <3> QED
      BY <2>1, <3>1
  <2>2. CASE p # 1 /\ p - 1 + r <= m
    <3>1. p - 1 + r \in 0..m /\ SeatAt(m, r, p - 1 + r) = p
      BY <2>2 DEF SeatAt
    <3> QED
      BY <3>1
  <2>3. CASE p # 1 /\ p - 1 + r > m
    <3>1. p - 1 + r - m \in 0..m /\ SeatAt(m, r, p - 1 + r - m) = p
      BY <2>3 DEF SeatAt
    <3> QED
      BY <3>1
  <2> QED
    BY <2>1, <2>2, <2>3
<1> QED
  BY <1>1, <1>2, <1>3

\* The same two.
Same(p, q) == (p[1] = q[1] /\ p[2] = q[2]) \/ (p[1] = q[2] /\ p[2] = q[1])

\* A round of the circle method: the two ends of the list meet, then the next.
RoundOf(list, m, h, r) ==
  [i \in 1..h |->
     LET a == list[SeatAt(m, r, i - 1)]
         b == list[SeatAt(m, r, 2 * h - i)]
     IN  IF a = Nobody THEN <<b, Nobody>> ELSE <<a, b>>]

\* Who meets in each match of a round.
Ends(pairs, list, m, h, r) ==
  \A i \in 1..h :
    Same(pairs[i], <<list[SeatAt(m, r, i - 1)], list[SeatAt(m, r, 2 * h - i)]>>)

\* Nobody is in a list twice.
Injective(list) == \A p, q \in 1..Len(list) : list[p] = list[q] => p = q

\* Those who are in the list, but for the empty seat.
Seated(list, S) == \A e : e \in S <=> e # Nobody /\ \E p \in 1..Len(list) : list[p] = e

\* A round of the circle method seats everybody exactly once.
LEMMA RoundSeatsOnce ==
  ASSUME NEW L, NEW list \in Seq(L), Injective(list), NEW h \in Nat, h > 0,
         NEW m \in Nat, m + 1 = 2 * h, Len(list) = 2 * h, NEW r \in 0..(m - 1),
         NEW S, Seated(list, S)
  PROVE  /\ SeatsOnce(RoundOf(list, m, h, r), S)
         /\ Len(RoundOf(list, m, h, r)) = h
         /\ Ends(RoundOf(list, m, h, r), list, m, h, r)
<1> DEFINE pairs == RoundOf(list, m, h, r)
           a(i) == list[SeatAt(m, r, i - 1)]
           b(i) == list[SeatAt(m, r, 2 * h - i)]
<1>1. m \in Nat /\ m > 0 /\ m + 1 = 2 * h
  OBVIOUS
<1>2. /\ \A i \in 0..m : SeatAt(m, r, i) \in 1..(m + 1)
      /\ \A i, j \in 0..m : SeatAt(m, r, i) = SeatAt(m, r, j) => i = j
      /\ \A p \in 1..(m + 1) : \E i \in 0..m : SeatAt(m, r, i) = p
  <2> HIDE DEF pairs, a, b
  <2> QED
    BY <1>1, SeatsMove
<1>3. \A i \in 1..h : pairs[i] = IF a(i) = Nobody THEN <<b(i), Nobody>> ELSE <<a(i), b(i)>>
  BY DEF RoundOf
<1>4. pairs = [i \in 1..h |-> pairs[i]]
  BY DEF RoundOf
<1> HIDE DEF pairs
<1>5. ASSUME NEW i \in 0..m, NEW j \in 0..m, list[SeatAt(m, r, i)] = list[SeatAt(m, r, j)]
      PROVE  i = j
  <2>1. SeatAt(m, r, i) \in 1..Len(list) /\ SeatAt(m, r, j) \in 1..Len(list)
    BY <1>1, <1>2
  <2>2. SeatAt(m, r, i) = SeatAt(m, r, j)
    BY <1>5, <2>1 DEF Injective
  <2> QED
    BY <1>2, <2>2
<1>6. ASSUME NEW i \in 1..h
      PROVE  /\ i - 1 \in 0..m /\ 2 * h - i \in 0..m /\ i - 1 # 2 * h - i
             /\ a(i) # b(i)
             /\ a(i) \in S \cup {Nobody} /\ b(i) \in S \cup {Nobody}
  <2>1. i - 1 \in 0..m /\ 2 * h - i \in 0..m /\ i - 1 # 2 * h - i
    BY <1>1
  <2>2. a(i) # b(i)
    BY <1>5, <2>1
  <2>3. SeatAt(m, r, i - 1) \in 1..Len(list) /\ SeatAt(m, r, 2 * h - i) \in 1..Len(list)
    BY <1>1, <1>2, <2>1
  <2>4. a(i) \in S \cup {Nobody} /\ b(i) \in S \cup {Nobody}
    BY <2>3 DEF Seated
  <2> QED
    BY <2>1, <2>2, <2>4
<1>7. ASSUME NEW i \in 1..h
      PROVE  /\ pairs[i] \in S \X (S \cup {Nobody})
             /\ pairs[i][1] # pairs[i][2]
             /\ {pairs[i][1], pairs[i][2]} = {a(i), b(i)}
             /\ Same(pairs[i], <<a(i), b(i)>>)
  <2>1. pairs[i] = IF a(i) = Nobody THEN <<b(i), Nobody>> ELSE <<a(i), b(i)>>
    BY <1>3
  <2>2. a(i) # b(i) /\ a(i) \in S \cup {Nobody} /\ b(i) \in S \cup {Nobody}
    BY <1>6
  <2> HIDE DEF a, b
  <2>3. CASE a(i) = Nobody
    BY <2>1, <2>2, <2>3 DEF Same
  <2>4. CASE a(i) # Nobody
    BY <2>1, <2>2, <2>4 DEF Same
  <2> QED
    BY <2>3, <2>4
<1>8. pairs \in Seq(S \X (S \cup {Nobody})) /\ Len(pairs) = h
  <2> DEFINE Q == S \X (S \cup {Nobody})
  <2>1. \A i \in 1..h : pairs[i] \in Q
    BY <1>7
  <2> HIDE DEF Q
  <2>2. pairs \in [1..h -> Q]
    BY <1>4, <2>1
  <2>3. pairs \in Seq(Q) /\ Len(pairs) = h
    BY <2>2
  <2> QED
    BY <2>3 DEF Q
\* Each place is one end of one match.
<1>9. ASSUME NEW k \in 1..h, NEW l \in 1..h, NEW e,
             e \in {pairs[k][1], pairs[k][2]}, e \in {pairs[l][1], pairs[l][2]}
      PROVE  k = l
  <2>1. PICK i \in {k - 1, 2 * h - k} : e = list[SeatAt(m, r, i)]
    BY <1>7, <1>9
  <2>2. PICK j \in {l - 1, 2 * h - l} : e = list[SeatAt(m, r, j)]
    BY <1>7, <1>9
  <2>3. i \in 0..m /\ j \in 0..m
    BY <1>6, <2>1, <2>2
  <2>4. i = j
    BY <1>5, <2>1, <2>2, <2>3
  <2> QED
    BY <1>1, <2>4
<1>10. ASSUME NEW e \in S
       PROVE  \E k \in 1..h : e \in {pairs[k][1], pairs[k][2]}
  <2>1. PICK p \in 1..Len(list) : list[p] = e
    BY DEF Seated
  <2>2. PICK i \in 0..m : SeatAt(m, r, i) = p
    BY <1>1, <1>2, <2>1
  <2>3. CASE i <= h - 1
    <3>1. i + 1 \in 1..h /\ (i + 1) - 1 = i
      BY <2>3
    <3>2. a(i + 1) = e
      BY <2>1, <2>2, <3>1
    <3> QED
      BY <1>7, <3>1, <3>2
  <2>4. CASE i > h - 1
    <3>1. 2 * h - i \in 1..h /\ 2 * h - (2 * h - i) = i
      BY <2>4
    <3>2. b(2 * h - i) = e
      BY <2>1, <2>2, <3>1
    <3> QED
      BY <1>7, <3>1, <3>2
  <2> QED
    BY <2>3, <2>4
<1> HIDE DEF a, b
<1>11. SeatsOnce(pairs, S)
  <2>1. /\ \A k \in 1..h : pairs[k][1] # pairs[k][2]
        /\ \A k, l \in 1..h : \A e \in S :
             e \in {pairs[k][1], pairs[k][2]} /\ e \in {pairs[l][1], pairs[l][2]} => k = l
        /\ \A e \in S : \E k \in 1..h : e \in {pairs[k][1], pairs[k][2]}
    <3>1. \A k \in 1..h : pairs[k][1] # pairs[k][2]
      BY <1>7
    <3>2. \A k, l \in 1..h : \A e \in S :
             e \in {pairs[k][1], pairs[k][2]} /\ e \in {pairs[l][1], pairs[l][2]} => k = l
      BY <1>9, Zenon
    <3>3. \A e \in S : \E k \in 1..h : e \in {pairs[k][1], pairs[k][2]}
      BY <1>10, Zenon
    <3> QED
      BY <3>1, <3>2, <3>3, Zenon
  <2> QED
    BY <1>8, <2>1 DEF SeatsOnce
<1>12. Ends(pairs, list, m, h, r)
  BY <1>7 DEF Ends, a, b
<1> QED
  BY <1>8, <1>11, <1>12 DEF pairs

\* Two places are opposite each other in one round only.
LEMMA OppositeOnce ==
  ASSUME NEW h \in Nat, h > 0, NEW m \in Nat, m + 1 = 2 * h, NEW r \in 0..(m - 1), NEW s \in 0..(m - 1),
         NEW i \in 1..h, NEW j \in 1..h,
         Same(<<SeatAt(m, r, i - 1), SeatAt(m, r, 2 * h - i)>>,
              <<SeatAt(m, s, j - 1), SeatAt(m, s, 2 * h - j)>>)
  PROVE  r = s
<1> DEFINE a == SeatAt(m, r, i - 1)
           b == SeatAt(m, r, 2 * h - i)
           c == SeatAt(m, s, j - 1)
           d == SeatAt(m, s, 2 * h - j)
<1>1. m \in Nat /\ m > 0 /\ m + 1 = 2 * h
  OBVIOUS
<1>2. a \in Int /\ b \in Int /\ c \in Int /\ d \in Int
  BY DEF SeatAt
<1>3. (a = c /\ b = d) \/ (a = d /\ b = c)
  BY DEF Same
<1>4. a + b = c + d
  <2> HIDE DEF a, b, c, d
  <2> QED
    BY <1>2, <1>3
<1>5. i = 1 <=> a = 1
  BY DEF SeatAt
<1>6. j = 1 <=> c = 1
  BY DEF SeatAt
<1>7. b # 1 /\ d # 1
  BY DEF SeatAt
<1>8. i = 1 <=> j = 1
  <2> HIDE DEF a, b, c, d
  <2> QED
    BY <1>3, <1>5, <1>6, <1>7
<1>9. CASE i = 1
  <2>1. b = d
    <3> HIDE DEF a, b, c, d
    <3> QED
      BY <1>3, <1>5, <1>7, <1>9
  <2>2. b = m + 1 - r /\ d = m + 1 - s
    BY <1>8, <1>9 DEF SeatAt
  <2> QED
    BY <1>1, <2>1, <2>2
<1>10. CASE i # 1
  <2>1. a + b \in {m + 2 - 2 * r, 2 * m + 2 - 2 * r, 3 * m + 2 - 2 * r}
    BY <1>10 DEF SeatAt
  <2>2. c + d \in {m + 2 - 2 * s, 2 * m + 2 - 2 * s, 3 * m + 2 - 2 * s}
    BY <1>8, <1>10 DEF SeatAt
  <2> HIDE DEF a, b, c, d
  <2> QED
    BY <1>1, <1>4, <2>1, <2>2
<1> QED
  BY <1>9, <1>10
\* What roundRobin.js pairs: each of S once in every round, and nobody with the
\* same in two of them.
RoundRobin(all, S) ==
  /\ Len(all) \in Nat \ {0}
  /\ \A r \in 1..Len(all) : SeatsOnce(all[r], S) /\ Len(all[r]) > 0
  /\ \A r, s \in 1..Len(all) : \A i \in 1..Len(all[r]) : \A j \in 1..Len(all[s]) :
       Same(all[r][i], all[s][j]) => r = s

\* generateAllRounds seats everybody exactly once in every round, and no two
\* players meet in two rounds.
LEMMA AllRoundsAreFair ==
  ASSUME NEW P, NEW players \in Seq(P), Injective(players), Len(players) >= 2,
         NEW S, Seated(players, S), Nobody \notin Range(players)
  PROVE  RoundRobin(GenerateAllRounds(players), S)
<1> DEFINE list == IF Len(players) % 2 = 0 THEN players ELSE Append(players, Nobody)
           L == P \cup {Nobody}
           n == Len(list)
           h == Len(list) \div 2
           all == GenerateAllRounds(players)
<1>1. Len(players) \in Nat /\ players \in Seq(L)
  OBVIOUS
<1>2. /\ list \in Seq(L) /\ n \in Nat /\ n >= 2 /\ n % 2 = 0
      /\ Injective(list) /\ Seated(list, S)
  <2>1. CASE Len(players) % 2 = 0
    BY <1>1, <2>1
  <2>2. CASE Len(players) % 2 # 0
    <3> DEFINE q == Append(players, Nobody)
               k == Len(players)
    <3>1. list = q
      BY <2>2
    <3>2. /\ q \in Seq(L) /\ Len(q) = k + 1
          /\ q[k + 1] = Nobody
          /\ \A p \in 1..k : q[p] = players[p]
      <4> HIDE DEF L
      <4>1. Nobody \in L
        BY DEF L
      <4> QED
        BY <1>1, <4>1
    <3>3. \A p \in 1..k : players[p] # Nobody
      BY <1>1 DEF Range
    <3>4. \A p \in 1..(k + 1) : p \in 1..k \/ p = k + 1
      BY <1>1
    <3>7. \A p, r \in 1..k : players[p] = players[r] => p = r
      BY DEF Injective
    <3>8. (k + 1) % 2 = 0 /\ k + 1 >= 2 /\ k \in Nat
      BY <1>1, <2>2
    <3> HIDE DEF q, k
    <3>5. Injective(q)
      BY <3>2, <3>3, <3>4, <3>7 DEF Injective
    <3>6. Seated(q, S)
      <4>1. ASSUME NEW e
            PROVE  (\E p \in 1..(k + 1) : q[p] = e) <=> e = Nobody \/ \E p \in 1..k : players[p] = e
        <5>1. k + 1 \in 1..(k + 1) /\ \A p \in 1..k : p \in 1..(k + 1)
          BY <3>8
        <5> QED
          BY <3>2, <3>4, <5>1
      <4>2. \A e : e \in S <=> e # Nobody /\ \E p \in 1..k : players[p] = e
        BY DEF Seated, k
      <4>3. \A e : e \in S <=> e # Nobody /\ \E p \in 1..(k + 1) : q[p] = e
        BY <4>1, <4>2
      <4> QED
        BY <3>2, <4>3 DEF Seated
    <3>9. q \in Seq(L) /\ Len(q) = k + 1
      BY <3>2
    <3> HIDE DEF list, L
    <3> QED
      BY <3>1, <3>5, <3>6, <3>8, <3>9
  <2> QED
    BY <2>1, <2>2
<1>3. all = [r \in 1..(n - 1) |-> [i \in 1..(n \div 2) |->
               LET seat(x, y) == IF y = 0 THEN list[1] ELSE list[2 + ((y - 1 - x) % (n - 1))]
                   a == seat(r - 1, i - 1)
                   b == seat(r - 1, n - 1 - (i - 1))
               IN  IF a = Nobody THEN <<b, Nobody>> ELSE <<a, b>>]]
  BY DEF GenerateAllRounds
<1> HIDE DEF list
<1>4. h \in Nat /\ h > 0 /\ n = 2 * h /\ n - 1 \in Nat /\ (n - 1) + 1 = 2 * h /\ n - 1 > 0
  BY <1>2
<1> HIDE DEF h, n, all
<1>5. ASSUME NEW r \in 1..(n - 1)
      PROVE  all[r] = RoundOf(list, n - 1, h, r - 1)
  <2> DEFINE seat(y) == IF y = 0 THEN list[1] ELSE list[2 + ((y - 1 - (r - 1)) % (n - 1))]
             meeting(a, b) == IF a = Nobody THEN <<b, Nobody>> ELSE <<a, b>>
  <2>1. n \div 2 = h
    BY <1>4
  <2>2. all[r] = [i \in 1..h |-> meeting(seat(i - 1), seat(n - 1 - (i - 1)))]
    BY <1>3, <2>1
  <2>3. ASSUME NEW y \in 0..(n - 1)
        PROVE  seat(y) = list[SeatAt(n - 1, r - 1, y)]
    <3>1. CASE y = 0
      BY <3>1 DEF SeatAt
    <3>2. CASE y # 0
      <4> DEFINE x == y - 1 - (r - 1)
                 m == n - 1
      <4>1. m \in Nat /\ m > 0 /\ x \in Int /\ -m <= x /\ x < m
        BY <1>4, <3>2
      <4>2. x % m = IF x >= 0 THEN x ELSE x + m
        <5> HIDE DEF x, m
        <5> QED
          BY <4>1, ModOfSmall
      <4>3. seat(y) = list[2 + (x % m)]
        BY <3>2
      <4>4. SeatAt(m, r - 1, y) = 2 + (IF x >= 0 THEN x ELSE x + m)
        BY <1>4, <3>2 DEF SeatAt
      <4> HIDE DEF x, m, seat
      <4>5. seat(y) = list[SeatAt(m, r - 1, y)]
        BY <4>2, <4>3, <4>4
      <4> QED
        BY <4>5 DEF m
    <3> QED
      BY <3>1, <3>2
  <2>4. ASSUME NEW i \in 1..h
        PROVE  meeting(seat(i - 1), seat(n - 1 - (i - 1)))
                 = meeting(list[SeatAt(n - 1, r - 1, i - 1)], list[SeatAt(n - 1, r - 1, 2 * h - i)])
    <3>1. i - 1 \in 0..(n - 1) /\ n - 1 - (i - 1) = 2 * h - i /\ 2 * h - i \in 0..(n - 1)
      BY <1>4
    <3> HIDE DEF meeting, seat
    <3> QED
      BY <2>3, <3>1
  <2>5. RoundOf(list, n - 1, h, r - 1)
          = [i \in 1..h |-> meeting(list[SeatAt(n - 1, r - 1, i - 1)],
                                    list[SeatAt(n - 1, r - 1, 2 * h - i)])]
    BY DEF RoundOf
  <2> HIDE DEF meeting, seat
  <2> QED
    BY <2>2, <2>4, <2>5
<1>6. Len(all) = n - 1 /\ Len(all) \in Nat \ {0}
  BY <1>3, <1>4
<1>7. ASSUME NEW r \in 1..(n - 1)
      PROVE  /\ SeatsOnce(all[r], S) /\ Len(all[r]) = h
             /\ Ends(all[r], list, n - 1, h, r - 1)
  <2>1. r - 1 \in 0..((n - 1) - 1)
    BY <1>4
  <2> DEFINE m == n - 1
             x == r - 1
  <2>2. m \in Nat /\ m + 1 = 2 * h /\ x \in 0..(m - 1) /\ Len(list) = 2 * h
    BY <1>4, <2>1 DEF n
  <2>3. all[r] = RoundOf(list, m, h, x)
    BY <1>5
  <2> HIDE DEF m, x
  <2>4. SeatsOnce(all[r], S) /\ Len(all[r]) = h /\ Ends(all[r], list, m, h, x)
    <3> HIDE DEF L
    <3>1. list \in Seq(L) /\ Injective(list) /\ Seated(list, S)
      BY <1>2
    <3>2. h \in Nat /\ h > 0
      BY <1>4
    <3>3. /\ SeatsOnce(RoundOf(list, m, h, x), S) /\ Len(RoundOf(list, m, h, x)) = h
          /\ Ends(RoundOf(list, m, h, x), list, m, h, x)
      BY <2>2, <3>1, <3>2, RoundSeatsOnce
    <3> QED
      BY <2>3, <3>3
  <2> QED
    BY <2>4, Zenon DEF m, x
<1>8. ASSUME NEW r \in 1..(n - 1), NEW s \in 1..(n - 1), NEW i \in 1..h, NEW j \in 1..h,
             Same(all[r][i], all[s][j])
      PROVE  r = s
  <2> DEFINE m == n - 1
             a == SeatAt(m, r - 1, i - 1)
             b == SeatAt(m, r - 1, 2 * h - i)
             c == SeatAt(m, s - 1, j - 1)
             d == SeatAt(m, s - 1, 2 * h - j)
  <2>1. Same(all[r][i], <<list[a], list[b]>>) /\ Same(all[s][j], <<list[c], list[d]>>)
    BY <1>7 DEF Ends
  <2>2. m \in Nat /\ m > 0 /\ m + 1 = 2 * h /\ r - 1 \in 0..(m - 1) /\ s - 1 \in 0..(m - 1)
    BY <1>4
  <2>3. i - 1 \in 0..m /\ 2 * h - i \in 0..m /\ j - 1 \in 0..m /\ 2 * h - j \in 0..m
    BY <1>4
  <2>4. a \in 1..Len(list) /\ b \in 1..Len(list) /\ c \in 1..Len(list) /\ d \in 1..Len(list)
    <3>1. m + 1 = Len(list)
      BY <1>4 DEF n
    <3>2. a \in 1..(m + 1) /\ b \in 1..(m + 1) /\ c \in 1..(m + 1) /\ d \in 1..(m + 1)
      <4> HIDE DEF m
      <4> QED
        BY <2>2, <2>3, SeatsMove
    <3> HIDE DEF m, a, b, c, d
    <3> QED
      BY <3>1, <3>2
  <2> HIDE DEF a, b, c, d
  <2>5. Same(<<list[a], list[b]>>, <<list[c], list[d]>>)
    BY <1>8, <2>1 DEF Same
  <2>6. Same(<<a, b>>, <<c, d>>)
    BY <1>2, <2>4, <2>5 DEF Same, Injective
  <2>7. r - 1 = s - 1
    <3> HIDE DEF m
    <3> QED
      BY <1>4, <2>2, <2>6, OppositeOnce DEF a, b, c, d
  <2> QED
    BY <2>7
<1>9. RoundRobin(all, S)
  BY <1>4, <1>6, <1>7, <1>8 DEF RoundRobin
<1> QED
  BY <1>9 DEF all

-----------------------------------------------------------------------------
(* The parts of a tournament.                                              *)

\* The fields of a tournament, and those of a pairing.
TournamentFields ==
  {"format", "status", "withdrawn", "ranks", "entries", "nextEntry", "round", "current",
   "pairings", "completed", "bracket", "results", "closings"}
PairingFields == {"player1", "player2", "round", "state", "winner", "noShow", "life"}

\* The pairings that were decided, byes among them.
Decided(t) == {id \in DOMAIN t.pairings : t.pairings[id].state = "Completed"}

\* What no cascade touches.
Fixed(s, t) ==
  /\ t.format = s.format
  /\ t.entries = s.entries
  /\ t.nextEntry = s.nextEntry
  /\ t.bracket = s.bracket

\* A tournament has its fields, and each of its pairings has its own.
WellFormed(t) ==
  /\ DOMAIN t = TournamentFields
  /\ t.format \in Formats
  /\ t.round \in Nat
  /\ IsFiniteSet(DOMAIN t.pairings)
  /\ t.pairings = [id \in DOMAIN t.pairings |-> t.pairings[id]]
  /\ \A id \in DOMAIN t.pairings : DOMAIN t.pairings[id] = PairingFields

\* completedPairings has each decided pairing once and nothing else.
Counted(t) == t.completed = SetToBag(Decided(t))

\* A pairing nobody has had to do with yet.
FreshPairing(p) ==
  \/ p.state = "Open" /\ p.life = NewLife
  \/ p.state = "Completed" /\ p.life = SettledLife

\* The same match, however it stands.
SamePlayers(p, q) ==
  /\ q.player1 = p.player1 /\ q.player2 = p.player2
  /\ q.round = p.round /\ q.noShow = p.noShow

\* What a cascade may do: decide open pairings and add fresh ones.
Evolves(s, t) ==
  /\ Fixed(s, t)
  /\ DOMAIN s.pairings \subseteq DOMAIN t.pairings
  /\ \A id \in DOMAIN s.pairings :
       \/ t.pairings[id] = s.pairings[id]
       \/ /\ IsOpen(s, id)
          /\ SamePlayers(s.pairings[id], t.pairings[id])
          /\ t.pairings[id].state = "Completed" /\ t.pairings[id].life = SettledLife
  /\ \A id \in DOMAIN t.pairings \ DOMAIN s.pairings : FreshPairing(t.pairings[id])

\* With sets a function at one point, whether it was defined there or not.
LEMMA WithFields ==
  ASSUME NEW f, NEW x, NEW v
  PROVE  /\ \A y : y \in DOMAIN With(f, x, v) <=> y \in DOMAIN f \/ y = x
         /\ With(f, x, v)[x] = v
         /\ \A y \in DOMAIN f : y # x => With(f, x, v)[y] = f[y]
<1>1. With(f, x, v) = [y \in DOMAIN f \cup {x} |-> IF y = x THEN v ELSE f[y]]
  BY TabulatedIsIt DEF With
<1> QED
  BY <1>1

\* Counting one more is having one more.
LEMMA BagOfOneMore ==
  ASSUME NEW S, NEW x, x \notin S
  PROVE  SetToBag(S) (+) SetToBag({x}) = SetToBag(S \cup {x})
BY DEF SetToBag, (+)

\* _recordCompletion counts the pairing and enters a bracket's result.
LEMMA RecordedFields ==
  ASSUME NEW t, WellFormed(t), NEW id
  PROVE  LET u == Recorded(t, id)
         IN  /\ DOMAIN u = TournamentFields
             /\ Fixed(t, u)
             /\ u.pairings = t.pairings
             /\ u.completed = t.completed (+) SetToBag({id})
             /\ u.status = t.status /\ u.withdrawn = t.withdrawn /\ u.ranks = t.ranks
             /\ u.round = t.round /\ u.current = t.current /\ u.closings = t.closings
             /\ u.results = IF t.format = "double_elim" /\ ~IsBye(t.pairings[id])
                            THEN With(t.results, id, t.pairings[id].winner)
                            ELSE t.results
BY DEF WellFormed, Recorded, TournamentFields, Fixed

\* Doing nothing is a cascade.
LEMMA EvolvesReflexive ==
  ASSUME NEW t
  PROVE  Evolves(t, t)
BY DEF Evolves, Fixed

\* A cascade after a cascade is one.
LEMMA EvolvesTransitive ==
  ASSUME NEW s, NEW t, NEW u, Evolves(s, t), Evolves(t, u)
  PROVE  Evolves(s, u)
<1>1. Fixed(s, u)
  BY DEF Evolves, Fixed
<1>2. DOMAIN s.pairings \subseteq DOMAIN u.pairings
  BY DEF Evolves
<1>3. "Completed" \in Terminal
  BY DEF Terminal
<1>4. ASSUME NEW id \in DOMAIN s.pairings
      PROVE  \/ u.pairings[id] = s.pairings[id]
             \/ /\ IsOpen(s, id)
                /\ SamePlayers(s.pairings[id], u.pairings[id])
                /\ u.pairings[id].state = "Completed" /\ u.pairings[id].life = SettledLife
  BY <1>3 DEF Evolves, IsOpen, SamePlayers
<1>5. ASSUME NEW id \in DOMAIN u.pairings \ DOMAIN s.pairings
      PROVE  FreshPairing(u.pairings[id])
  BY <1>3 DEF Evolves, IsOpen, FreshPairing
<1> QED
  BY <1>1, <1>2, <1>4, <1>5 DEF Evolves

\* A new pairing is open, or a bye that is decided for who has it.
LEMMA NewPairingFields ==
  ASSUME NEW seats, NEW round
  PROVE  LET p == NewPairing(seats, round)
         IN  /\ DOMAIN p = PairingFields
             /\ FreshPairing(p)
             /\ p.player1 = seats[1] /\ p.player2 = seats[2] /\ p.round = round
             /\ p.noShow = 0
             /\ p.state = IF seats[2] = Nobody THEN "Completed" ELSE "Open"
             /\ p.winner = IF seats[2] = Nobody THEN seats[1] ELSE Nobody
BY DEF NewPairing, PairingFields, FreshPairing

\* A forfeit settles the one pairing.
LEMMA ForfeitedFields ==
  ASSUME NEW t, WellFormed(t), NEW id \in DOMAIN t.pairings
  PROVE  LET u == Forfeited(t, id)
             p == t.pairings[id]
             q == u.pairings[id]
         IN  /\ DOMAIN u = TournamentFields
             /\ Fixed(t, u)
             /\ DOMAIN u.pairings = DOMAIN t.pairings
             /\ u.pairings = [x \in DOMAIN u.pairings |-> u.pairings[x]]
             /\ \A x \in DOMAIN t.pairings : x # id => u.pairings[x] = t.pairings[x]
             /\ DOMAIN q = PairingFields
             /\ SamePlayers(p, q)
             /\ q.state = "Completed" /\ q.life = SettledLife
             /\ q.winner = ForfeitWinner(t, p)
             /\ u.completed = t.completed /\ u.results = t.results
             /\ u.status = t.status /\ u.withdrawn = t.withdrawn /\ u.ranks = t.ranks
             /\ u.round = t.round /\ u.current = t.current /\ u.closings = t.closings
<1> DEFINE w == ForfeitWinner(t, t.pairings[id])
           p == t.pairings[id]
           q == [[[p EXCEPT !.state = "Completed"] EXCEPT !.winner = w] EXCEPT !.life = SettledLife]
<1>1. DOMAIN p = PairingFields
  BY DEF WellFormed
<1>2. /\ DOMAIN q = PairingFields
      /\ SamePlayers(p, q)
      /\ q.state = "Completed" /\ q.life = SettledLife
      /\ q.winner = w
  <2> HIDE DEF w, p
  <2> QED
    BY <1>1 DEF PairingFields, SamePlayers
<1> HIDE DEF w
<1>3. Forfeited(t, id) = [t EXCEPT !.pairings = [t.pairings EXCEPT ![id] = q]]
  BY DEF Forfeited, WellFormed, TournamentFields, w
<1> HIDE DEF q
<1> QED
  BY <1>2, <1>3 DEF WellFormed, TournamentFields, Fixed, w

\* The same tournament with one pairing more.
Added(t, u, id, seats, round) ==
  /\ Fixed(t, u)
  /\ u.status = t.status /\ u.withdrawn = t.withdrawn /\ u.ranks = t.ranks
  /\ u.round = t.round /\ u.current = t.current /\ u.closings = t.closings
  /\ DOMAIN u.pairings = DOMAIN t.pairings \cup {id}
  /\ \A x \in DOMAIN t.pairings : u.pairings[x] = t.pairings[x]
  /\ LET p == u.pairings[id]
     IN  /\ FreshPairing(p)
         /\ p.player1 = seats[1] /\ p.player2 = seats[2] /\ p.round = round /\ p.noShow = 0
         /\ p.state = "Open" => seats[2] # Nobody /\ {seats[1], seats[2]} \cap t.withdrawn = {}
         /\ p.state \in {"Open", "Completed"}
         /\ u.results = IF t.format = "double_elim" /\ seats[2] # Nobody /\ p.state = "Completed"
                        THEN With(t.results, id, p.winner)
                        ELSE t.results

\* createPairing adds one pairing and counts it if it is a bye.
LEMMA CreatePairingAdds ==
  ASSUME NEW t, WellFormed(t), Counted(t), NEW id, id \notin DOMAIN t.pairings,
         NEW seats, NEW round
  PROVE  LET u == CreatePairing(t, id, seats, round)
         IN  WellFormed(u) /\ Counted(u) /\ Added(t, u, id, seats, round)
<1> DEFINE bye == seats[2] = Nobody
           forfeit == ~bye /\ {seats[1], seats[2]} \cap t.withdrawn # {}
           new == NewPairing(seats, round)
           t1 == [t EXCEPT !.pairings = With(t.pairings, id, new)]
           t2 == IF forfeit THEN Forfeited(t1, id) ELSE t1
           u == CreatePairing(t, id, seats, round)
<1>1. /\ DOMAIN new = PairingFields
      /\ FreshPairing(new)
      /\ new.player1 = seats[1] /\ new.player2 = seats[2] /\ new.round = round
      /\ new.noShow = 0
      /\ new.state = IF seats[2] = Nobody THEN "Completed" ELSE "Open"
  BY NewPairingFields
<1>2. u = IF bye \/ forfeit THEN Recorded(t2, id) ELSE t1
  BY DEF CreatePairing
<1> HIDE DEF new, u
<1>3. /\ DOMAIN t1 = TournamentFields
      /\ Fixed(t, t1)
      /\ t1.status = t.status /\ t1.withdrawn = t.withdrawn /\ t1.ranks = t.ranks
      /\ t1.round = t.round /\ t1.current = t.current /\ t1.closings = t.closings
      /\ t1.completed = t.completed /\ t1.results = t.results
      /\ t1.pairings = With(t.pairings, id, new)
  BY DEF WellFormed, TournamentFields, Fixed
<1> HIDE DEF t1
<1>4. /\ DOMAIN t1.pairings = DOMAIN t.pairings \cup {id}
      /\ \A x \in DOMAIN t.pairings : t1.pairings[x] = t.pairings[x]
      /\ t1.pairings[id] = new
      /\ t1.pairings = [x \in DOMAIN t1.pairings |-> t1.pairings[x]]
  <2> DEFINE g == With(t.pairings, id, new)
  <2>1. g = [y \in DOMAIN t.pairings \cup {id} |-> IF y = id THEN new ELSE t.pairings[y]]
    BY TabulatedIsIt DEF With
  <2>2. t1.pairings = g
    BY <1>3
  <2> HIDE DEF g
  <2> QED
    BY <2>1, <2>2
<1>5. IsFiniteSet(DOMAIN t1.pairings)
  BY <1>4, FS_AddElement DEF WellFormed
<1>6. WellFormed(t1)
  BY <1>1, <1>3, <1>4, <1>5 DEF WellFormed, Fixed
<1>7. /\ WellFormed(t2)
      /\ Fixed(t, t2)
      /\ t2.status = t.status /\ t2.withdrawn = t.withdrawn /\ t2.ranks = t.ranks
      /\ t2.round = t.round /\ t2.current = t.current /\ t2.closings = t.closings
      /\ t2.completed = t.completed /\ t2.results = t.results
      /\ DOMAIN t2.pairings = DOMAIN t.pairings \cup {id}
      /\ \A x \in DOMAIN t.pairings : t2.pairings[x] = t.pairings[x]
      /\ SamePlayers(new, t2.pairings[id])
      /\ FreshPairing(t2.pairings[id])
      /\ (bye \/ forfeit) <=> t2.pairings[id].state = "Completed"
      /\ t2.pairings[id].state \in {"Open", "Completed"}
  <2>1. CASE ~forfeit
    BY <1>1, <1>3, <1>4, <1>6, <2>1 DEF SamePlayers
  <2>2. CASE forfeit
    <3>1. t2 = Forfeited(t1, id) /\ id \in DOMAIN t1.pairings
      BY <1>4, <2>2
    <3> HIDE DEF t2, forfeit
    <3>2. /\ DOMAIN t2 = TournamentFields
          /\ Fixed(t1, t2)
          /\ DOMAIN t2.pairings = DOMAIN t1.pairings
          /\ t2.pairings = [x \in DOMAIN t2.pairings |-> t2.pairings[x]]
          /\ \A x \in DOMAIN t1.pairings : x # id => t2.pairings[x] = t1.pairings[x]
          /\ DOMAIN t2.pairings[id] = PairingFields
          /\ SamePlayers(t1.pairings[id], t2.pairings[id])
          /\ t2.pairings[id].state = "Completed" /\ t2.pairings[id].life = SettledLife
          /\ t2.completed = t1.completed /\ t2.results = t1.results
          /\ t2.status = t1.status /\ t2.withdrawn = t1.withdrawn /\ t2.ranks = t1.ranks
          /\ t2.round = t1.round /\ t2.current = t1.current /\ t2.closings = t1.closings
      BY <1>6, <3>1, ForfeitedFields
    <3>3. WellFormed(t2)
      BY <1>6, <3>2 DEF WellFormed, Fixed
    <3>4. \A x \in DOMAIN t.pairings : t2.pairings[x] = t.pairings[x]
      BY <1>4, <3>2
    <3> QED
      BY <1>3, <1>4, <2>2, <3>2, <3>3, <3>4 DEF Fixed, FreshPairing
  <2> QED
    BY <2>1, <2>2
<1> HIDE DEF t2
<1>8. ASSUME ~(bye \/ forfeit)
      PROVE  WellFormed(u) /\ Counted(u) /\ Added(t, u, id, seats, round)
  <2>1. u = t1 /\ t2 = t1
    BY <1>2, <1>8 DEF t2
  <2>2. Decided(u) = Decided(t)
    BY <1>7, <1>8, <2>1 DEF Decided
  <2>3. t2.pairings[id].state = "Open"
    BY <1>7, <1>8
  <2> QED
    BY <1>1, <1>7, <1>8, <2>1, <2>2, <2>3 DEF Added, Counted, SamePlayers
<1>9. ASSUME bye \/ forfeit
      PROVE  WellFormed(u) /\ Counted(u) /\ Added(t, u, id, seats, round)
  <2>1. u = Recorded(t2, id)
    BY <1>2, <1>9
  <2>2. /\ DOMAIN u = TournamentFields
        /\ Fixed(t2, u)
        /\ u.pairings = t2.pairings
        /\ u.completed = t2.completed (+) SetToBag({id})
        /\ u.status = t2.status /\ u.withdrawn = t2.withdrawn /\ u.ranks = t2.ranks
        /\ u.round = t2.round /\ u.current = t2.current /\ u.closings = t2.closings
        /\ u.results = IF t2.format = "double_elim" /\ ~IsBye(t2.pairings[id])
                       THEN With(t2.results, id, t2.pairings[id].winner)
                       ELSE t2.results
    BY <1>7, <2>1, RecordedFields
  <2>3. Decided(u) = Decided(t) \cup {id} /\ id \notin Decided(t)
    BY <1>7, <1>9, <2>2 DEF Decided
  <2>4. Counted(u)
    BY <1>7, <2>2, <2>3, BagOfOneMore DEF Counted
  <2>5. WellFormed(u)
    BY <1>7, <2>2 DEF WellFormed, Fixed
  <2>6. IsBye(t2.pairings[id]) <=> bye
    BY <1>1, <1>7 DEF IsBye, SamePlayers
  <2>7. t2.pairings[id].state = "Completed" /\ t2.format = t.format
    BY <1>7, <1>9 DEF Fixed
  <2>8. Fixed(t, u)
    BY <1>7, <2>2 DEF Fixed
  <2> HIDE DEF forfeit
  <2> QED
    BY <1>1, <1>7, <2>2, <2>4, <2>5, <2>6, <2>7, <2>8 DEF Added, SamePlayers
<1> QED
  BY <1>8, <1>9 DEF u

-----------------------------------------------------------------------------
(* The loops of the cascades.                                              *)

\* One turn of the loops the cascades are made of.
Turn(loop, a, s, i) ==
  CASE loop = "sync"    -> CreateMissing(s)
    [] loop = "place"   -> CreatePairing(s, <<a.round, i, 0>>, a.pairs[i], a.round)
    [] loop = "advance" -> IF RoundComplete(s) /\ s.round < LastRound(s) THEN NextRound(s) ELSE s
    [] loop = "forfeit" -> LET left == IF s.status = "active" THEN {id \in a : IsOpen(s, id)} ELSE {}
                           IN  IF left = {} THEN s ELSE Forfeit(s, First(left))

\* Where a loop is after each of its turns.
Turns(g, loop, a, start, top) ==
  g = [i \in 0..top |-> IF i = 0 THEN start ELSE Turn(loop, a, g[i - 1], i)]

\* A loop runs as often as it is told to.
LEMMA LoopsRun ==
  ASSUME NEW loop, NEW a, NEW start, NEW top \in Nat
  PROVE  \E g : Turns(g, loop, a, start, top)
<1> DEFINE S == {n \in Nat : \E g : Turns(g, loop, a, start, n)}
<1>1. 0 \in S
  <2> DEFINE g == [i \in 0..0 |-> start]
  <2>1. g = [i \in 0..0 |-> IF i = 0 THEN start ELSE Turn(loop, a, g[i - 1], i)]
    OBVIOUS
  <2>2. Turns(g, loop, a, start, 0)
    <3> HIDE DEF g
    <3> QED
      BY <2>1 DEF Turns
  <2> QED
    BY <2>2
<1>2. ASSUME NEW n \in Nat, n \in S
      PROVE  n + 1 \in S
  <2>1. PICK g : Turns(g, loop, a, start, n)
    BY <1>2
  <2> DEFINE h == [i \in 0..(n + 1) |-> IF i = n + 1 THEN Turn(loop, a, g[n], n + 1) ELSE g[i]]
  <2>2. ASSUME NEW i \in 0..(n + 1)
        PROVE  h[i] = IF i = 0 THEN start ELSE Turn(loop, a, h[i - 1], i)
    <3>1. CASE i = n + 1
      <4>1. i # 0 /\ i - 1 = n /\ n \in 0..(n + 1) /\ n # n + 1
        BY <3>1
      <4>2. h[n] = g[n]
        BY <4>1
      <4> QED
        BY <3>1, <4>1, <4>2
    <3>2. CASE i = 0
      <4>1. h[0] = g[0] /\ g[0] = start
        BY <2>1 DEF Turns
      <4> QED
        BY <3>2, <4>1
    <3>3. CASE i \in 1..n
      <4>1. i \in 0..n /\ i # 0 /\ i - 1 \in 0..n /\ i - 1 \in 0..(n + 1) /\ i - 1 # n + 1 /\ i # n + 1
        BY <3>3
      <4>2. h[i] = g[i] /\ h[i - 1] = g[i - 1]
        BY <4>1
      <4>3. g[i] = Turn(loop, a, g[i - 1], i)
        BY <2>1, <4>1 DEF Turns
      <4> QED
        BY <4>1, <4>2, <4>3
    <3> QED
      BY <3>1, <3>2, <3>3
  <2>3. h = [i \in 0..(n + 1) |-> IF i = 0 THEN start ELSE Turn(loop, a, h[i - 1], i)]
    BY <2>2
  <2>4. Turns(h, loop, a, start, n + 1)
    <3> HIDE DEF h
    <3> QED
      BY <2>3 DEF Turns
  <2> QED
    BY <2>4
<1>3. \A n \in Nat : n \in S
  <2> HIDE DEF S
  <2> QED
    BY <1>1, <1>2, SetInduction
<1> QED
  BY <1>3

\* syncDoubleElimPairings goes on as long as a slot has no match yet.
Synced(g, t, n) ==
  /\ g[0] = t
  /\ \A i \in 1..n : g[i] = CreateMissing(g[i - 1])
  /\ SyncDoubleElimPairings(t) = ResetGrandFinal(g[n])

\* So it does.
LEMMA SyncRuns ==
  ASSUME NEW t, NEW n \in Nat, n = Cardinality(DOMAIN t.bracket.slots \ DOMAIN t.pairings)
  PROVE  \E g : Synced(g, t, n)
<1> DEFINE At(g, i) == IF i = 0 THEN t ELSE CreateMissing(g[i - 1])
           m == Cardinality(DOMAIN t.bracket.slots \ DOMAIN t.pairings)
           g == CHOOSE h : h = [i \in 0..m |-> At(h, i)]
<1>1. SyncDoubleElimPairings(t) = ResetGrandFinal(g[m])
  BY Zenon DEF SyncDoubleElimPairings
<1>2. \E h : h = [i \in 0..m |-> At(h, i)]
  <2>1. PICK h : Turns(h, "sync", {}, t, n)
    BY LoopsRun
  <2>2. h = [i \in 0..n |-> At(h, i)]
    BY <2>1 DEF Turns, Turn
  <2>3. h = [i \in 0..m |-> At(h, i)]
    BY <2>2
  <2> QED
    BY <2>3
<1>3. g = [i \in 0..m |-> At(g, i)]
  BY <1>2
<1> HIDE DEF g, m
<1>4. m = n
  BY DEF m
<1>7. g = [i \in 0..n |-> At(g, i)]
  <2> HIDE DEF At
  <2> QED
    BY <1>3, <1>4
<1>8. ASSUME NEW k \in Nat, g = [i \in 0..k |-> At(g, i)]
      PROVE  g[0] = t /\ \A i \in 1..k : g[i] = CreateMissing(g[i - 1])
  BY <1>8
<1>5. g[0] = t /\ \A i \in 1..n : g[i] = CreateMissing(g[i - 1])
  <2> HIDE DEF At
  <2> QED
    BY <1>7, <1>8
<1>6. Synced(g, t, n)
  BY <1>1, <1>4, <1>5 DEF Synced
<1> QED
  BY <1>6

\* materializeRound creates the pairings of a round one after the other.
Created(g, t, pairs) ==
  /\ g[0] = t
  /\ \A i \in 1..Len(pairs) : g[i] = CreatePairing(g[i - 1], <<t.round, i, 0>>, pairs[i], t.round)
  /\ MaterializeRound(t, pairs)
       = [g[Len(pairs)] EXCEPT !.current = {<<t.round, i, 0>> : i \in DOMAIN pairs}]

\* So it does.
LEMMA CreationRuns ==
  ASSUME NEW t, NEW pairs, Len(pairs) \in Nat
  PROVE  \E g : Created(g, t, pairs)
<1> DEFINE At(g, i) == IF i = 0 THEN t
                       ELSE CreatePairing(g[i - 1], <<t.round, i, 0>>, pairs[i], t.round)
           g == CHOOSE h : h = [i \in 0..Len(pairs) |-> At(h, i)]
<1>1. MaterializeRound(t, pairs)
        = [g[Len(pairs)] EXCEPT !.current = {<<t.round, i, 0>> : i \in DOMAIN pairs}]
  BY Zenon DEF MaterializeRound
<1>2. \E h : h = [i \in 0..Len(pairs) |-> At(h, i)]
  <2> DEFINE a == [round |-> t.round, pairs |-> pairs]
  <2>0. a.round = t.round /\ a.pairs = pairs
    OBVIOUS
  <2> HIDE DEF a
  <2>1. PICK h : Turns(h, "place", a, t, Len(pairs))
    BY LoopsRun
  <2>2. h = [i \in 0..Len(pairs) |-> At(h, i)]
    BY <2>0, <2>1 DEF Turns, Turn
  <2> QED
    BY <2>2
<1>3. g = [i \in 0..Len(pairs) |-> At(g, i)]
  BY <1>2
<1> HIDE DEF g
<1>5. g[0] = t /\ \A i \in 1..Len(pairs) :
                     g[i] = CreatePairing(g[i - 1], <<t.round, i, 0>>, pairs[i], t.round)
  BY <1>3
<1>6. Created(g, t, pairs)
  BY <1>1, <1>5 DEF Created
<1> QED
  BY <1>6

\* advanceIfRoundComplete goes to the next round as long as one is complete.
Advanced(g, t) ==
  /\ g[0] = t
  /\ \A i \in 1..Len(t.entries) :
       g[i] = IF RoundComplete(g[i - 1]) /\ g[i - 1].round < LastRound(g[i - 1])
              THEN NextRound(g[i - 1]) ELSE g[i - 1]
  /\ LET last == g[Len(t.entries)]
     IN  AdvanceIfRoundComplete(t) = IF RoundComplete(last) THEN CompleteTournament(last, 1) ELSE last

\* So it does.
LEMMA AdvanceRuns ==
  ASSUME NEW t, Len(t.entries) \in Nat
  PROVE  \E g : Advanced(g, t)
<1> DEFINE At(g, i) == IF i = 0 THEN t
                       ELSE IF RoundComplete(g[i - 1]) /\ g[i - 1].round < LastRound(g[i - 1])
                            THEN NextRound(g[i - 1]) ELSE g[i - 1]
           g == CHOOSE h : h = [i \in 0..Len(t.entries) |-> At(h, i)]
<1>1. LET last == g[Len(t.entries)]
      IN  AdvanceIfRoundComplete(t) = IF RoundComplete(last) THEN CompleteTournament(last, 1) ELSE last
  BY Zenon DEF AdvanceIfRoundComplete
<1>2. \E h : h = [i \in 0..Len(t.entries) |-> At(h, i)]
  <2>1. PICK h : Turns(h, "advance", {}, t, Len(t.entries))
    BY LoopsRun
  <2>2. h = [i \in 0..Len(t.entries) |-> At(h, i)]
    BY <2>1 DEF Turns, Turn
  <2> QED
    BY <2>2
<1>3. g = [i \in 0..Len(t.entries) |-> At(g, i)]
  BY <1>2
<1> HIDE DEF g
<1>5. g[0] = t /\ \A i \in 1..Len(t.entries) : g[i] = At(g, i)
  BY <1>3
<1>6. Advanced(g, t)
  BY <1>1, <1>5 DEF Advanced
<1> QED
  BY <1>6

\* The open matches of e that are left to forfeit.
Theirs(t, e) == {id \in OpenPairings(t) : e \in Seats(t.pairings[id])}
\* Those of them that are still to be forfeited.
Left(s, ids) == IF s.status = "active" THEN {id \in ids : IsOpen(s, id)} ELSE {}

\* withdrawPlayer forfeits the open pairings of who left, each if still open.
Withdrawn(g, t, e, n) ==
  /\ g[0] = [t EXCEPT !.withdrawn = @ \cup {e}]
  /\ \A i \in 1..n :
       g[i] = IF Left(g[i - 1], Theirs(t, e)) = {} THEN g[i - 1]
              ELSE Forfeit(g[i - 1], First(Left(g[i - 1], Theirs(t, e))))
  /\ WithdrawPlayer(t, e) = AdvanceIfRoundComplete(g[n])

\* So it does.
LEMMA WithdrawalRuns ==
  ASSUME NEW t, NEW e, NEW n \in Nat, n = Cardinality(Theirs(t, e))
  PROVE  \E g : Withdrawn(g, t, e, n)
<1> DEFINE ids == Theirs(t, e)
           start == [t EXCEPT !.withdrawn = @ \cup {e}]
           At(g, i) == IF i = 0 THEN start
                       ELSE IF Left(g[i - 1], ids) = {} THEN g[i - 1]
                            ELSE Forfeit(g[i - 1], First(Left(g[i - 1], ids)))
           m == Cardinality(ids)
           g == CHOOSE h : h = [i \in 0..m |-> At(h, i)]
<1>1. WithdrawPlayer(t, e) = AdvanceIfRoundComplete(g[m])
  BY Zenon DEF WithdrawPlayer, Theirs, Left
<1> HIDE DEF start
<1>2. \E h : h = [i \in 0..m |-> At(h, i)]
  <2>1. PICK h : Turns(h, "forfeit", ids, start, n)
    BY LoopsRun
  <2> HIDE DEF ids
  <2>2. h = [i \in 0..n |-> At(h, i)]
    BY <2>1 DEF Turns, Turn, Left
  <2>3. h = [i \in 0..m |-> At(h, i)]
    BY <2>2 DEF ids
  <2> QED
    BY <2>3
<1>3. g = [i \in 0..m |-> At(g, i)]
  BY <1>2
<1> HIDE DEF g, m
<1>4. m = n
  BY DEF m
<1>7. g = [i \in 0..n |-> At(g, i)]
  <2> HIDE DEF At
  <2> QED
    BY <1>3, <1>4
<1>8. ASSUME NEW k \in Nat, g = [i \in 0..k |-> At(g, i)]
      PROVE  g[0] = start /\ \A i \in 1..k : g[i] = At(g, i)
  <2>1. g[0] = At(g, 0) /\ \A i \in 1..k : g[i] = At(g, i)
    <3> HIDE DEF At
    <3> QED
      BY <1>8
  <2>2. At(g, 0) = start
    OBVIOUS
  <2> HIDE DEF At
  <2> QED
    BY <2>1, <2>2
<1>5. g[0] = start /\ \A i \in 1..n : g[i] = At(g, i)
  <2> HIDE DEF At
  <2> QED
    BY <1>7, <1>8
<1>6. Withdrawn(g, t, e, n)
  BY <1>1, <1>4, <1>5 DEF Withdrawn, start
<1> QED
  BY <1>6

-----------------------------------------------------------------------------
(* What a cascade keeps: brackets.                                         *)

\* Entries are numbered in the order they came in.
Registered(t) ==
  /\ t.entries \in Seq(Nat)
  /\ t.nextEntry \in Nat
  /\ \A i \in 1..Len(t.entries) : t.entries[i] < t.nextEntry
  /\ Injective(t.entries)

\* A pairing of a round is <<round, place, replay>>, and was voided before it
\* was played again.
Numbered(t) ==
  \A id \in DOMAIN t.pairings :
    /\ id[2] \in Nat
    /\ t.format \in RoundFormats =>
         /\ id = <<id[1], id[2], id[3]>> /\ id[1] \in Nat /\ id[3] \in Nat
         /\ id[1] <= t.round /\ t.pairings[id].round = id[1]
         /\ id[3] # 0 =>
              /\ <<id[1], id[2], id[3] - 1>> \in DOMAIN t.pairings
              /\ t.pairings[<<id[1], id[2], id[3] - 1>>].state = "DoubleNoShow"

\* Numbering depends on the pairings only.
LEMMA NumberedSame ==
  ASSUME NEW t, NEW u, Numbered(t), u.pairings = t.pairings, u.format = t.format,
         u.round = t.round
  PROVE  Numbered(u)
BY Zenon DEF Numbered

\* What holds of a tournament at every point of a cascade.
Basic(t) == WellFormed(t) /\ Registered(t) /\ Numbered(t)

\* A bracket that was generated.
Slotted(t) ==
  t.format = "double_elim" =>
    /\ IsFiniteSet(DOMAIN t.bracket.slots)
    /\ \A m \in DOMAIN t.bracket.slots : m[2] \in Nat

\* A tournament that started has its players, a bracket its slots.
Started(t) == Len(t.entries) >= 2 /\ Slotted(t)

\* The inductive invariant of every format: a cascade breaks it half way
\* (the pairing is decided and not counted yet) and restores it.
Sound(t) ==
  /\ Basic(t)
  /\ Counted(t)
  /\ t.current \subseteq DOMAIN t.pairings
  /\ DOMAIN t.pairings # {} => Started(t)
  /\ t.status = "draft" => DOMAIN t.pairings = {}

\* Slots are numbered.
LEMMA StageIsNat == \A m : Stage(m) \in Nat
BY DEF Stage

\* There is a first in every list of matches.
LEMMA FirstIsIn ==
  ASSUME NEW S, S # {}, \A m \in S : m[2] \in Nat
  PROVE  First(S) \in S
<1> DEFINE stages == {Stage(m) : m \in S}
<1>1. stages \subseteq Nat /\ stages # {}
  BY StageIsNat
<1>2. PICK s \in stages : \A x \in stages : s <= x
  <2> HIDE DEF stages
  <2> QED
    BY <1>1, LeastNatural
<1> DEFINE T == {m \in S : Stage(m) = s}
           rounds == {m[2] : m \in T}
<1>3. rounds \subseteq Nat /\ rounds # {}
  BY <1>2
<1>4. PICK r \in rounds : \A x \in rounds : r <= x
  <2> HIDE DEF rounds
  <2> QED
    BY <1>3, LeastNatural
<1>5. PICK m \in T : m[2] = r
  BY <1>4
<1>6. ASSUME NEW n \in S
      PROVE  ~Before(n, m)
  <2>1. s <= Stage(n) /\ Stage(m) = s /\ Stage(n) \in Nat /\ s \in Nat
    BY <1>2, <1>5, StageIsNat
  <2>2. CASE Stage(n) = s
    <3>1. m[2] <= n[2] /\ m[2] \in Nat /\ n[2] \in Nat
      <4>1. n \in T
        BY <2>2
      <4>2. n[2] \in rounds
        BY <4>1
      <4> QED
        BY <1>3, <1>4, <1>5, <4>2
    <3> QED
      BY <2>1, <2>2, <3>1 DEF Before
  <2>3. CASE Stage(n) # s
    BY <2>1, <2>3 DEF Before
  <2> QED
    BY <2>2, <2>3
<1>7. m \in S /\ \A n \in S \ {m} : ~Before(n, m)
  BY <1>5, <1>6
<1>8. \E x \in S : \A n \in S \ {x} : ~Before(n, x)
  BY <1>7
<1> QED
  BY <1>8, Zenon DEF First

\* What a new pairing changes, and what it leaves alone.
LEMMA AddedKeeps ==
  ASSUME NEW t, Basic(t), NEW u, WellFormed(u),
         NEW id, id \notin DOMAIN t.pairings, NEW seats, NEW round, Added(t, u, id, seats, round),
         id[2] \in Nat,
         t.format \in RoundFormats => /\ id = <<id[1], id[2], id[3]>> /\ id[1] \in Nat
                                      /\ id[1] <= t.round /\ id[3] = 0 /\ round = id[1]
  PROVE  Basic(u) /\ Evolves(t, u)
<1>1. Fixed(t, u) /\ u.round = t.round
  BY DEF Added
<1>2. Registered(u)
  BY <1>1 DEF Basic, Registered, Fixed
<1>3. /\ DOMAIN u.pairings = DOMAIN t.pairings \cup {id}
      /\ \A x \in DOMAIN t.pairings : u.pairings[x] = t.pairings[x]
      /\ FreshPairing(u.pairings[id])
  BY DEF Added
<1>4. Evolves(t, u)
  BY <1>1, <1>3 DEF Evolves
<1>5. u.format = t.format
  BY <1>1 DEF Fixed
<1>6. Numbered(u)
  <2> SUFFICES ASSUME NEW x \in DOMAIN u.pairings
               PROVE  /\ x[2] \in Nat
                      /\ u.format \in RoundFormats =>
                           /\ x = <<x[1], x[2], x[3]>> /\ x[1] \in Nat /\ x[3] \in Nat
                           /\ x[1] <= u.round /\ u.pairings[x].round = x[1]
                           /\ x[3] # 0 =>
                                /\ <<x[1], x[2], x[3] - 1>> \in DOMAIN u.pairings
                                /\ u.pairings[<<x[1], x[2], x[3] - 1>>].state = "DoubleNoShow"
    BY DEF Numbered
  <2>1. CASE x = id
    BY <1>1, <1>5, <2>1 DEF Added
  <2>2. CASE x # id
    <3>1. x \in DOMAIN t.pairings
      BY <1>3, <2>2
    <3> QED
      BY <1>1, <1>3, <1>5, <3>1 DEF Basic, Numbered
  <2> QED
    BY <2>1, <2>2
<1> QED
  BY <1>2, <1>4, <1>6 DEF Basic

\* A match that is added to a bracket keeps it sound.
LEMMA CreatedInBracket ==
  ASSUME NEW t, Basic(t), Counted(t), t.format = "double_elim",
         NEW id, id \notin DOMAIN t.pairings, id[2] \in Nat, NEW seats, NEW round
  PROVE  LET u == CreatePairing(t, id, seats, round)
         IN  /\ Basic(u) /\ Counted(u) /\ Evolves(t, u)
             /\ u.current = t.current /\ u.status = t.status /\ u.withdrawn = t.withdrawn
<1> DEFINE u == CreatePairing(t, id, seats, round)
<1>1. WellFormed(u) /\ Counted(u) /\ Added(t, u, id, seats, round)
  BY CreatePairingAdds DEF Basic
<1>2. t.format \notin RoundFormats
  BY DEF RoundFormats
<1> HIDE DEF u
<1>3. Basic(u) /\ Evolves(t, u)
  BY <1>1, <1>2, AddedKeeps
<1>4. u.current = t.current /\ u.status = t.status /\ u.withdrawn = t.withdrawn
  BY <1>1 DEF Added
<1> QED
  BY <1>1, <1>3, <1>4 DEF u

\* So does one turn of syncDoubleElimPairings,
LEMMA CreateMissingKeeps ==
  ASSUME NEW t, Basic(t), Counted(t), t.format = "double_elim", Slotted(t)
  PROVE  LET u == CreateMissing(t)
         IN  /\ Basic(u) /\ Counted(u) /\ Evolves(t, u)
             /\ u.current = t.current /\ u.status = t.status /\ u.withdrawn = t.withdrawn
<1> DEFINE missing == Missing(t)
           m == First(missing)
           r == ResolveBracket(t.bracket, t.results)[m]
           u == CreateMissing(t)
<1>1. u = IF missing = {} THEN t ELSE CreatePairing(t, m, <<r.player1, r.player2>>, 0)
  BY DEF CreateMissing
<1>2. \A x \in missing : x \notin DOMAIN t.pairings /\ x \in DOMAIN t.bracket.slots
  BY DEF Missing
<1> HIDE DEF u, missing, r
<1>3. CASE missing = {}
  BY <1>1, <1>3, EvolvesReflexive DEF u
<1>4. CASE missing # {}
  <2>1. \A x \in missing : x[2] \in Nat
    BY <1>2 DEF Slotted
  <2>2. m \in missing
    BY <1>4, <2>1, FirstIsIn
  <2> HIDE DEF m
  <2>3. m \notin DOMAIN t.pairings /\ m[2] \in Nat
    BY <1>2, <2>1, <2>2
  <2>4. u = CreatePairing(t, m, <<r.player1, r.player2>>, 0)
    BY <1>1, <1>4
  <2>5. /\ Basic(u) /\ Counted(u) /\ Evolves(t, u)
        /\ u.current = t.current /\ u.status = t.status /\ u.withdrawn = t.withdrawn
    BY <2>3, <2>4, CreatedInBracket
  <2> QED
    BY <2>5 DEF u
<1> QED
  BY <1>3, <1>4

\* so does the reset of the grand final,
LEMMA ResetKeeps ==
  ASSUME NEW t, Basic(t), Counted(t), t.format = "double_elim"
  PROVE  LET u == ResetGrandFinal(t)
         IN  /\ Basic(u) /\ Counted(u) /\ Evolves(t, u)
             /\ u.current = t.current /\ u.status = t.status /\ u.withdrawn = t.withdrawn
<1> DEFINE u == ResetGrandFinal(t)
           gf == ResolveBracket(t.bracket, t.results)[GrandFinal]
<1>1. \/ u = t
      \/ GFReset \notin DOMAIN t.pairings /\ u = CreatePairing(t, GFReset, <<gf.player1, gf.player2>>, 0)
  BY DEF ResetGrandFinal
<1>2. GFReset[2] \in Nat
  BY DEF GFReset
<1> HIDE DEF u, gf
<1>3. CASE u = t
  BY <1>3, EvolvesReflexive DEF u
<1>4. CASE GFReset \notin DOMAIN t.pairings /\ u = CreatePairing(t, GFReset, <<gf.player1, gf.player2>>, 0)
  <2>1. /\ Basic(u) /\ Counted(u) /\ Evolves(t, u)
        /\ u.current = t.current /\ u.status = t.status /\ u.withdrawn = t.withdrawn
    BY <1>2, <1>4, CreatedInBracket
  <2> QED
    BY <2>1 DEF u
<1> QED
  BY <1>1, <1>3, <1>4

\* What was generated at the start is not touched by a cascade.
LEMMA SlottedEvolves ==
  ASSUME NEW t, NEW u, Evolves(t, u)
  PROVE  /\ Slotted(t) => Slotted(u)
         /\ Started(t) => Started(u)
         /\ u.format = t.format /\ u.entries = t.entries
         /\ DOMAIN t.pairings \subseteq DOMAIN u.pairings
BY DEF Evolves, Fixed, Slotted, Started

\* and so do they together.
LEMMA SyncKeeps ==
  ASSUME NEW t, Basic(t), Counted(t), t.format = "double_elim", Slotted(t)
  PROVE  LET u == SyncDoubleElimPairings(t)
         IN  /\ Basic(u) /\ Counted(u) /\ Evolves(t, u)
             /\ u.current = t.current /\ u.status = t.status /\ u.withdrawn = t.withdrawn
<1> DEFINE rest == DOMAIN t.bracket.slots \ DOMAIN t.pairings
           n == Cardinality(rest)
           Kept(s, v) == /\ Basic(v) /\ Counted(v) /\ Evolves(s, v)
                         /\ v.current = s.current /\ v.status = s.status /\ v.withdrawn = s.withdrawn
<1>1. n \in Nat
  <2>1. IsFiniteSet(rest)
    BY FS_Subset DEF Slotted
  <2> HIDE DEF rest
  <2> QED
    BY <2>1, FS_CardinalityType
<1>2. PICK g : Synced(g, t, n)
  <2>1. \A k \in Nat : k = n => \E g : Synced(g, t, k)
    BY SyncRuns
  <2> HIDE DEF n
  <2> QED
    BY <1>1, <2>1
<1> HIDE DEF n
<1> DEFINE S == {i \in 0..n : Kept(t, g[i])}
<1>3. 0 \in S
  BY <1>1, <1>2, EvolvesReflexive DEF Synced
<1>4. ASSUME NEW i \in 1..n, i - 1 \in S
      PROVE  i \in S
  <2> DEFINE s == g[i - 1]
             v == g[i]
  <2>1. v = CreateMissing(s)
    BY <1>2 DEF Synced
  <2>2. Kept(t, s)
    BY <1>4
  <2>3. s.format = "double_elim" /\ Slotted(s)
    BY <2>2, SlottedEvolves
  <2> HIDE DEF s, v
  <2>4. /\ Basic(v) /\ Counted(v) /\ Evolves(s, v)
        /\ v.current = s.current /\ v.status = s.status /\ v.withdrawn = s.withdrawn
    BY <2>1, <2>2, <2>3, CreateMissingKeeps
  <2>5. Kept(t, v)
    BY <2>2, <2>4, EvolvesTransitive
  <2>6. Kept(t, g[i]) /\ i \in 0..n
    BY <1>1, <2>5 DEF v
  <2> HIDE DEF Kept
  <2> QED
    BY <2>6
<1>5. \A i \in 0..n : i \in S
  <2> HIDE DEF S
  <2> QED
    BY <1>1, <1>3, <1>4, BoundedInduction
<1> DEFINE s == g[n]
           u == SyncDoubleElimPairings(t)
<1>6. Kept(t, s)
  BY <1>1, <1>5
<1>7. u = ResetGrandFinal(s)
  BY <1>2 DEF Synced
<1>8. s.format = "double_elim"
  BY <1>6, SlottedEvolves
<1> HIDE DEF s, u, S
<1>9. /\ Basic(u) /\ Counted(u) /\ Evolves(s, u)
      /\ u.current = s.current /\ u.status = s.status /\ u.withdrawn = s.withdrawn
  BY <1>6, <1>7, <1>8, ResetKeeps
<1>10. Evolves(t, u)
  BY <1>6, <1>9, EvolvesTransitive
<1> QED
  BY <1>6, <1>9, <1>10 DEF u

-----------------------------------------------------------------------------
(* Pairings that are settled.                                              *)

\* The same tournament but for one pairing.
Edited(t, u, id) ==
  /\ Fixed(t, u)
  /\ u.status = t.status /\ u.withdrawn = t.withdrawn /\ u.ranks = t.ranks
  /\ u.round = t.round /\ u.current = t.current /\ u.closings = t.closings
  /\ u.completed = t.completed /\ u.results = t.results
  /\ DOMAIN u.pairings = DOMAIN t.pairings
  /\ \A x \in DOMAIN t.pairings : x # id => u.pairings[x] = t.pairings[x]

\* Putting a pairing in the place of one that is there.
LEMMA Edit ==
  ASSUME NEW t, WellFormed(t), NEW id \in DOMAIN t.pairings, NEW q, DOMAIN q = PairingFields,
         NEW u, u = [t EXCEPT !.pairings = [t.pairings EXCEPT ![id] = q]]
  PROVE  WellFormed(u) /\ Edited(t, u, id) /\ u.pairings[id] = q
<1>1. /\ DOMAIN u = TournamentFields
      /\ Fixed(t, u)
      /\ u.status = t.status /\ u.withdrawn = t.withdrawn /\ u.ranks = t.ranks
      /\ u.round = t.round /\ u.current = t.current /\ u.closings = t.closings
      /\ u.completed = t.completed /\ u.results = t.results
      /\ u.pairings = [t.pairings EXCEPT ![id] = q]
  BY DEF WellFormed, TournamentFields, Fixed
<1>2. /\ DOMAIN u.pairings = DOMAIN t.pairings
      /\ u.pairings[id] = q
      /\ \A x \in DOMAIN t.pairings : x # id => u.pairings[x] = t.pairings[x]
      /\ u.pairings = [x \in DOMAIN u.pairings |-> u.pairings[x]]
  BY <1>1 DEF WellFormed
<1>3. WellFormed(u)
  BY <1>1, <1>2 DEF WellFormed, Fixed
<1> QED
  BY <1>1, <1>2, <1>3 DEF Edited

\* What Decide and Forfeited write first.
Settled(t, id, w) ==
  [t EXCEPT !.pairings[id].state = "Completed",
            !.pairings[id].winner = w,
            !.pairings[id].life = SettledLife]

\* Settling a pairing changes that pairing.
LEMMA SettledFields ==
  ASSUME NEW t, WellFormed(t), NEW id \in DOMAIN t.pairings, NEW w
  PROVE  LET u == Settled(t, id, w)
         IN  /\ WellFormed(u)
             /\ Edited(t, u, id)
             /\ SamePlayers(t.pairings[id], u.pairings[id])
             /\ u.pairings[id].state = "Completed" /\ u.pairings[id].life = SettledLife
             /\ u.pairings[id].winner = w
<1> DEFINE p == t.pairings[id]
           q == [[[p EXCEPT !.state = "Completed"] EXCEPT !.winner = w] EXCEPT !.life = SettledLife]
           u == Settled(t, id, w)
<1>1. DOMAIN p = PairingFields
  BY DEF WellFormed
<1>2. /\ DOMAIN q = PairingFields
      /\ SamePlayers(p, q)
      /\ q.state = "Completed" /\ q.life = SettledLife
      /\ q.winner = w
  <2> HIDE DEF p
  <2> QED
    BY <1>1 DEF PairingFields, SamePlayers
<1>3. u = [t EXCEPT !.pairings = [t.pairings EXCEPT ![id] = q]]
  BY DEF Settled, WellFormed, TournamentFields
<1> HIDE DEF q, u
<1>4. WellFormed(u) /\ Edited(t, u, id) /\ u.pairings[id] = q
  BY <1>2, <1>3, Edit
<1> QED
  BY <1>2, <1>4 DEF u

\* A forfeit settles the pairing for who is left.
LEMMA ForfeitedIsSettled ==
  ASSUME NEW t, NEW id
  PROVE  Forfeited(t, id) = Settled(t, id, ForfeitWinner(t, t.pairings[id]))
BY DEF Forfeited, Settled

\* A pairing that changes without being voided keeps the numbering.
LEMMA EditedKeeps ==
  ASSUME NEW t, Basic(t), NEW id \in DOMAIN t.pairings, NEW u, WellFormed(u), Edited(t, u, id),
         t.pairings[id].state # "DoubleNoShow", u.pairings[id].round = t.pairings[id].round
  PROVE  Basic(u)
<1>1. Registered(u)
  BY DEF Basic, Registered, Edited, Fixed
<1>2. /\ u.format = t.format /\ u.round = t.round
      /\ DOMAIN u.pairings = DOMAIN t.pairings
      /\ \A x \in DOMAIN t.pairings : x # id => u.pairings[x] = t.pairings[x]
  BY DEF Edited, Fixed
<1>3. Numbered(t)
  BY DEF Basic
<1>4. \A x \in DOMAIN t.pairings :
        /\ u.pairings[x].round = t.pairings[x].round
        /\ t.pairings[x].state = "DoubleNoShow" => u.pairings[x].state = "DoubleNoShow"
  BY <1>2
<1>5. Numbered(u)
  BY <1>2, <1>3, <1>4 DEF Numbered
<1> QED
  BY <1>1, <1>5 DEF Basic

\* A pairing that is settled is one decided pairing more, not counted yet.
LEMMA SettleKeeps ==
  ASSUME NEW t, Basic(t), Counted(t), NEW id \in DOMAIN t.pairings, IsOpen(t, id), NEW w
  PROVE  LET s == Settled(t, id, w)
         IN  /\ Basic(s) /\ Edited(t, s, id) /\ Evolves(t, s)
             /\ s.pairings[id].winner = w
             /\ id \in Decided(s)
             /\ Decided(s) = Decided(t) \cup {id}
             /\ s.completed = SetToBag(Decided(s) \ {id})
<1> DEFINE s == Settled(t, id, w)
<1>1. /\ WellFormed(s)
      /\ Edited(t, s, id)
      /\ SamePlayers(t.pairings[id], s.pairings[id])
      /\ s.pairings[id].state = "Completed" /\ s.pairings[id].life = SettledLife
      /\ s.pairings[id].winner = w
  BY SettledFields DEF Basic
<1> HIDE DEF s
<1>2. t.pairings[id].state # "DoubleNoShow" /\ t.pairings[id].state # "Completed"
  BY DEF IsOpen, Terminal
<1>3. Basic(s)
  BY <1>1, <1>2, EditedKeeps DEF SamePlayers
<1>4. Evolves(t, s)
  BY <1>1 DEF Evolves, Edited
<1>5. Decided(s) = Decided(t) \cup {id} /\ id \notin Decided(t)
  BY <1>1, <1>2 DEF Decided, Edited
<1>6. Decided(s) \ {id} = Decided(t)
  BY <1>5
<1>7. s.completed = SetToBag(Decided(s) \ {id})
  BY <1>1, <1>6 DEF Counted, Edited
<1> QED
  BY <1>1, <1>3, <1>4, <1>5, <1>7 DEF s

\* completeTournament ranks the players and sets the status.
LEMMA CompletedFields ==
  ASSUME NEW t, WellFormed(t), NEW times
  PROVE  LET u == CompleteTournament(t, times)
         IN  /\ WellFormed(u)
             /\ Fixed(t, u)
             /\ u.pairings = t.pairings /\ u.completed = t.completed /\ u.results = t.results
             /\ u.withdrawn = t.withdrawn /\ u.round = t.round /\ u.current = t.current
             /\ u.status = "completed"
             /\ t.format # "double_elim" =>
                  u.ranks = FinalTable(Range(t.entries), Completions(t), t.format = "round_robin")
<1> DEFINE ranks == IF t.format = "double_elim"
                    THEN BracketRanks(t, EliminationGroups(t.bracket.rounds,
                                           ResolveBracket(t.bracket, t.results)))
                    ELSE FinalTable(Range(t.entries), Completions(t), t.format = "round_robin")
           u == CompleteTournament(t, times)
<1>1. u = [t EXCEPT !.status = "completed", !.closings = Min({@ + times, 2}), !.ranks = ranks]
  BY DEF CompleteTournament
<1>2. t.format # "double_elim" =>
        ranks = FinalTable(Range(t.entries), Completions(t), t.format = "round_robin")
  OBVIOUS
<1> HIDE DEF ranks, u
<1>3. /\ DOMAIN u = TournamentFields
      /\ Fixed(t, u)
      /\ u.pairings = t.pairings /\ u.completed = t.completed /\ u.results = t.results
      /\ u.withdrawn = t.withdrawn /\ u.round = t.round /\ u.current = t.current
      /\ u.status = "completed" /\ u.ranks = ranks
  BY <1>1 DEF WellFormed, TournamentFields, Fixed
<1>4. WellFormed(u)
  BY <1>3 DEF WellFormed, Fixed
<1> QED
  BY <1>2, <1>3, <1>4 DEF u

\* Nothing happened to the pairings.
SamePairings(t, u) ==
  /\ Fixed(t, u)
  /\ u.pairings = t.pairings /\ u.completed = t.completed /\ u.round = t.round
  /\ u.withdrawn = t.withdrawn /\ u.current = t.current

\* What touches no pairing keeps all that is said of pairings.
LEMMA SamePairingsKeep ==
  ASSUME NEW t, NEW u, WellFormed(u), SamePairings(t, u)
  PROVE  /\ Basic(t) => Basic(u)
         /\ Counted(t) => Counted(u)
         /\ Evolves(t, u)
         /\ OpenPairings(u) = OpenPairings(t)
<1>1. /\ u.pairings = t.pairings /\ u.completed = t.completed /\ u.round = t.round
      /\ Fixed(t, u)
  BY DEF SamePairings
<1>2. Basic(t) => Basic(u)
  BY <1>1 DEF Basic, Registered, Numbered, Fixed
<1>3. Counted(t) => Counted(u)
  BY <1>1 DEF Counted, Decided
<1>4. Evolves(t, u)
  BY <1>1 DEF Evolves
<1>5. OpenPairings(u) = OpenPairings(t)
  BY <1>1 DEF OpenPairings, IsOpen
<1> QED
  BY <1>2, <1>3, <1>4, <1>5

\* completeTournament touches no pairing,
LEMMA CompletedKeeps ==
  ASSUME NEW t, WellFormed(t), NEW times
  PROVE  LET u == CompleteTournament(t, times)
         IN  WellFormed(u) /\ SamePairings(t, u) /\ u.status = "completed"
BY CompletedFields DEF SamePairings

\* nor does the check of a bracket.
LEMMA CheckKeeps ==
  ASSUME NEW t, WellFormed(t), NEW times
  PROVE  LET u == CheckDoubleElimComplete(t, times)
         IN  WellFormed(u) /\ SamePairings(t, u) /\ u.status \in {t.status, "completed"}
<1> DEFINE u == CheckDoubleElimComplete(t, times)
<1>1. u = t \/ u = CompleteTournament(t, times)
  BY DEF CheckDoubleElimComplete
<1> HIDE DEF u
<1>2. SamePairings(t, t)
  BY DEF SamePairings, Fixed
<1>3. WellFormed(u) /\ SamePairings(t, u) /\ u.status \in {t.status, "completed"}
  BY <1>1, <1>2, CompletedKeeps
<1> QED
  BY <1>3 DEF u

\* _recordCompletion, for a pairing that was settled and not counted yet.
LEMMA RecordKeeps ==
  ASSUME NEW s, Basic(s), NEW id \in Decided(s), s.completed = SetToBag(Decided(s) \ {id}),
         Slotted(s)
  PROVE  LET u == RecordCompletion(s, id)
         IN  /\ Basic(u) /\ Counted(u) /\ Evolves(s, u)
             /\ u.current = s.current /\ u.withdrawn = s.withdrawn
             /\ u.status \in {s.status, "completed"}
             /\ s.format \in RoundFormats => u.status = s.status /\ SamePairings(u, [s EXCEPT !.completed = u.completed])
<1> DEFINE u == RecordCompletion(s, id)
           r == Recorded(s, id)
           b == SyncDoubleElimPairings(r)
           k == BagCardinality(b.completed) - BagCardinality(s.completed)
<1>1. u = IF s.format = "double_elim" THEN CheckDoubleElimComplete(b, k) ELSE r
  BY DEF RecordCompletion
<1>2. /\ DOMAIN r = TournamentFields
      /\ Fixed(s, r)
      /\ r.pairings = s.pairings
      /\ r.completed = s.completed (+) SetToBag({id})
      /\ r.status = s.status /\ r.withdrawn = s.withdrawn /\ r.ranks = s.ranks
      /\ r.round = s.round /\ r.current = s.current /\ r.closings = s.closings
  BY RecordedFields DEF Basic
<1> HIDE DEF u, r
<1>3. WellFormed(r)
  BY <1>2 DEF Basic, WellFormed, Fixed
<1>4. Basic(r) /\ Evolves(s, r)
  <2>1. Registered(r)
    BY <1>2 DEF Basic, Registered, Fixed
  <2>2. Numbered(r)
    BY <1>2, NumberedSame DEF Basic, Fixed
  <2>3. Evolves(s, r)
    BY <1>2 DEF Evolves
  <2> QED
    BY <1>3, <2>1, <2>2, <2>3 DEF Basic
<1>5. Counted(r)
  <2>1. Decided(r) = (Decided(s) \ {id}) \cup {id}
    BY <1>2 DEF Decided
  <2> QED
    BY <1>2, <2>1, BagOfOneMore DEF Counted
<1> HIDE DEF b, k
<1>6. CASE s.format = "double_elim"
  <2>1. r.format = "double_elim" /\ Slotted(r)
    BY <1>4, <1>6, SlottedEvolves
  <2>2. /\ Basic(b) /\ Counted(b) /\ Evolves(r, b)
        /\ b.current = r.current /\ b.status = r.status /\ b.withdrawn = r.withdrawn
    BY <1>4, <1>5, <2>1, SyncKeeps DEF b
  <2>3. u = CheckDoubleElimComplete(b, k)
    BY <1>1, <1>6
  <2>4. WellFormed(u) /\ SamePairings(b, u) /\ u.status \in {b.status, "completed"}
    BY <2>2, <2>3, CheckKeeps DEF Basic
  <2>5. Basic(u) /\ Counted(u) /\ Evolves(b, u)
    BY <2>2, <2>4, SamePairingsKeep
  <2>6. Evolves(s, u)
    BY <1>4, <2>2, <2>5, EvolvesTransitive
  <2>7. u.current = s.current /\ u.withdrawn = s.withdrawn
    BY <1>2, <2>2, <2>4 DEF SamePairings
  <2>8. u.status \in {s.status, "completed"}
    BY <1>2, <2>2, <2>4
  <2>9. s.format \notin RoundFormats
    BY <1>6 DEF RoundFormats
  <2> QED
    BY <2>5, <2>6, <2>7, <2>8, <2>9 DEF u
<1>7. CASE s.format # "double_elim"
  <2>1. u = r
    BY <1>1, <1>7
  <2>2. SamePairings(u, [s EXCEPT !.completed = u.completed])
    BY <1>2, <2>1 DEF SamePairings, Fixed, Basic, WellFormed, TournamentFields
  <2> QED
    BY <1>2, <1>4, <1>5, <2>1, <2>2 DEF u
<1> QED
  BY <1>6, <1>7

-----------------------------------------------------------------------------
(* Rounds that are created.                                                *)

\* A pairing as it was created for the two seats.
NewMatch(t, p, seats, round) ==
  /\ FreshPairing(p)
  /\ p.player1 = seats[1] /\ p.player2 = seats[2] /\ p.round = round /\ p.noShow = 0
  /\ p.state = "Open" => seats[2] # Nobody /\ {seats[1], seats[2]} \cap t.withdrawn = {}
  /\ p.state \in {"Open", "Completed"}

\* What the next round of a tournament leaves alone.
Beside(t, u) ==
  /\ Fixed(t, u)
  /\ u.status = t.status /\ u.withdrawn = t.withdrawn /\ u.ranks = t.ranks
  /\ u.round = t.round /\ u.closings = t.closings

\* The first n pairs have their pairing.
Placed(t, u, pairs, n) ==
  /\ Beside(t, u)
  /\ \A x : x \in DOMAIN u.pairings
              <=> x \in DOMAIN t.pairings \/ \E i \in 1..n : x = <<t.round, i, 0>>
  /\ \A x \in DOMAIN t.pairings : u.pairings[x] = t.pairings[x]
  /\ \A i \in 1..n : NewMatch(t, u.pairings[<<t.round, i, 0>>], pairs[i], t.round)

\* The round was paired.
Materialized(t, u, pairs) ==
  /\ Placed(t, u, pairs, Len(pairs))
  /\ \A x : x \in u.current <=> \E i \in 1..Len(pairs) : x = <<t.round, i, 0>>

\* materializeRound adds the pairings of one round and keeps the rest.
LEMMA MaterializeKeeps ==
  ASSUME NEW t, Basic(t), Counted(t), t.format \in RoundFormats,
         \A id \in DOMAIN t.pairings : id[1] # t.round,
         NEW P, NEW pairs \in Seq(P)
  PROVE  LET u == MaterializeRound(t, pairs)
         IN  /\ Basic(u) /\ Counted(u) /\ Evolves(t, u)
             /\ Materialized(t, u, pairs)
<1> DEFINE n == Len(pairs)
           u == MaterializeRound(t, pairs)
           Kept(v, i) == Basic(v) /\ Counted(v) /\ Evolves(t, v) /\ Placed(t, v, pairs, i)
<1>1. n \in Nat /\ DOMAIN pairs = 1..n
  OBVIOUS
<1>2. PICK g : Created(g, t, pairs)
  BY <1>1, CreationRuns
<1> HIDE DEF u
<1> DEFINE S == {i \in 0..n : Kept(g[i], i)}
<1>3. 0 \in S
  <2>1. g[0] = t
    BY <1>2 DEF Created
  <2>2. Placed(t, t, pairs, 0)
    BY DEF Placed, Beside, Fixed
  <2> QED
    BY <1>1, <2>1, <2>2, EvolvesReflexive
<1>4. ASSUME NEW i \in 1..n, i - 1 \in S
      PROVE  i \in S
  <2> DEFINE s == g[i - 1]
             v == g[i]
             id == <<t.round, i, 0>>
  <2>0. i \in Nat /\ i - 1 \in Nat /\ 1..i = 1..(i - 1) \cup {i} /\ i \in 0..n
    BY <1>1
  <2>1. v = CreatePairing(s, id, pairs[i], t.round)
    BY <1>2 DEF Created
  <2>2. Kept(s, i - 1)
    BY <1>4
  <2>3. /\ Beside(t, s) /\ Fixed(t, s)
        /\ s.withdrawn = t.withdrawn /\ s.round = t.round /\ s.format = t.format
        /\ \A x : x \in DOMAIN s.pairings
                    <=> x \in DOMAIN t.pairings \/ \E j \in 1..(i - 1) : x = <<t.round, j, 0>>
        /\ \A x \in DOMAIN t.pairings : s.pairings[x] = t.pairings[x]
        /\ \A j \in 1..(i - 1) : NewMatch(t, s.pairings[<<t.round, j, 0>>], pairs[j], t.round)
    <3> HIDE DEF s
    <3> QED
      BY <2>2 DEF Placed, Beside, Fixed
  <2>4. id \notin DOMAIN s.pairings
    <3>1. id \notin DOMAIN t.pairings
      <4>1. id[1] = t.round
        OBVIOUS
      <4> HIDE DEF id
      <4> QED
        BY <4>1
    <3>2. \A j \in 1..(i - 1) : id # <<t.round, j, 0>>
      OBVIOUS
    <3> HIDE DEF id, s
    <3> QED
      BY <2>3, <3>1, <3>2
  <2>5. id[1] = t.round /\ id[2] = i /\ id[3] = 0 /\ id = <<id[1], id[2], id[3]>>
    OBVIOUS
  <2>6. t.round \in Nat
    BY DEF Basic, WellFormed
  <2> HIDE DEF s, v, id
  <2>7. WellFormed(v) /\ Counted(v) /\ Added(s, v, id, pairs[i], t.round)
    BY <2>1, <2>2, <2>4, CreatePairingAdds DEF Basic
  <2>8. Basic(v) /\ Evolves(s, v)
    BY <2>0, <2>2, <2>3, <2>4, <2>5, <2>6, <2>7, AddedKeeps
  <2>9. Evolves(t, v)
    BY <2>2, <2>8, EvolvesTransitive
  <2>10. Placed(t, v, pairs, i)
    <3>1. Beside(t, v)
      BY <2>3, <2>7 DEF Added, Beside, Fixed
    <3>2. /\ DOMAIN v.pairings = DOMAIN s.pairings \cup {id}
          /\ \A x \in DOMAIN s.pairings : v.pairings[x] = s.pairings[x]
          /\ NewMatch(t, v.pairings[id], pairs[i], t.round)
      BY <2>3, <2>7 DEF Added, NewMatch
    <3>3. id = <<t.round, i, 0>>
      BY DEF id
    <3>4. \A x : x \in DOMAIN v.pairings
              <=> x \in DOMAIN t.pairings \/ \E j \in 1..i : x = <<t.round, j, 0>>
      <4>1. \A x : (\E j \in 1..i : x = <<t.round, j, 0>>)
                     <=> x = id \/ \E j \in 1..(i - 1) : x = <<t.round, j, 0>>
        BY <2>0, <3>3
      <4> QED
        BY <2>3, <3>2, <4>1
    <3>5. \A x \in DOMAIN t.pairings : v.pairings[x] = t.pairings[x]
      BY <2>3, <3>2
    <3>6. ASSUME NEW j \in 1..i
          PROVE  NewMatch(t, v.pairings[<<t.round, j, 0>>], pairs[j], t.round)
      <4>1. CASE j = i
        BY <3>2, <3>3, <4>1
      <4>2. CASE j # i
        <5>1. j \in 1..(i - 1)
          BY <2>0, <4>2
        <5>2. <<t.round, j, 0>> \in DOMAIN s.pairings
          BY <2>3, <5>1
        <5> QED
          BY <2>3, <3>2, <5>1, <5>2
      <4> QED
        BY <4>1, <4>2
    <3> QED
      BY <3>1, <3>4, <3>5, <3>6 DEF Placed
  <2>11. Kept(v, i)
    BY <2>7, <2>8, <2>9, <2>10
  <2> HIDE DEF Kept
  <2> QED
    BY <2>0, <2>11 DEF v
<1>5. \A i \in 0..n : i \in S
  <2> HIDE DEF S
  <2> QED
    BY <1>1, <1>3, <1>4, BoundedInduction
<1> DEFINE s == g[n]
           c == {<<t.round, i, 0>> : i \in DOMAIN pairs}
<1>6. Kept(s, n)
  BY <1>1, <1>5
<1>7. u = [s EXCEPT !.current = c]
  BY <1>2 DEF Created, u
<1> HIDE DEF s, S, c
<1>8. /\ DOMAIN u = TournamentFields
      /\ Fixed(s, u)
      /\ u.pairings = s.pairings /\ u.completed = s.completed
      /\ u.status = s.status /\ u.withdrawn = s.withdrawn /\ u.ranks = s.ranks
      /\ u.round = s.round /\ u.closings = s.closings /\ u.current = c
  BY <1>6, <1>7 DEF Basic, WellFormed, TournamentFields, Fixed
<1>9. WellFormed(u)
  BY <1>6, <1>8 DEF Basic, WellFormed, Fixed
<1>10. Basic(u)
  <2>1. Registered(u)
    BY <1>6, <1>8 DEF Basic, Registered, Fixed
  <2>2. Numbered(u)
    BY <1>6, <1>8, NumberedSame DEF Basic, Fixed
  <2> QED
    BY <1>9, <2>1, <2>2 DEF Basic
<1>11. Counted(u)
  BY <1>6, <1>8 DEF Counted, Decided
<1>12. Evolves(s, u)
  BY <1>8 DEF Evolves
<1>13. Evolves(t, u)
  BY <1>6, <1>12, EvolvesTransitive
<1>14. Placed(t, u, pairs, n)
  <2>1. Beside(t, u)
    BY <1>6, <1>8 DEF Placed, Beside, Fixed
  <2> QED
    BY <1>6, <1>8, <2>1 DEF Placed
<1>15. \A x : x \in u.current <=> \E i \in 1..n : x = <<t.round, i, 0>>
  BY <1>1, <1>8 DEF c
<1>16. Materialized(t, u, pairs)
  BY <1>14, <1>15 DEF Materialized
<1> QED
  BY <1>10, <1>11, <1>13, <1>16 DEF u

\* What the standings are computed from is results.
LEMMA CompletionsAreResults ==
  ASSUME NEW t, WellFormed(t), Counted(t)
  PROVE  Results(Completions(t))
<1> DEFINE row(id) == [player1 |-> t.pairings[id].player1, player2 |-> t.pairings[id].player2,
                       winner |-> t.pairings[id].winner, round |-> t.pairings[id].round]
           rows == {row(id) : id \in DOMAIN t.completed}
           c == Completions(t)
<1>1. c = [r \in rows |-> SumOver(t.completed, {id \in DOMAIN t.completed : row(id) = r})]
  BY TabulatedIsIt DEF Completions
<1>2. DOMAIN t.completed = Decided(t) /\ \A id \in Decided(t) : t.completed[id] = 1
  BY DEF Counted, SetToBag
<1>3. IsFiniteSet(Decided(t))
  BY FS_Subset DEF WellFormed, Decided
<1>4. IsFiniteSet(rows)
  <2> DEFINE f == [id \in Decided(t) |-> row(id)]
  <2> HIDE DEF row
  <2>1. f \in Surjection(Decided(t), rows)
    BY <1>2 DEF Surjection
  <2> HIDE DEF f, rows
  <2> QED
    BY <1>3, <2>1, FS_Surjection
<1>5. ASSUME NEW r \in rows
      PROVE  c[r] \in Int
  <2> DEFINE T == {id \in DOMAIN t.completed : row(id) = r}
  <2>1. IsFiniteSet(T) /\ \A id \in T : t.completed[id] \in Int
    BY <1>2, <1>3, FS_Subset
  <2>2. c[r] = SumOver(t.completed, T)
    BY <1>1
  <2> HIDE DEF T, c
  <2> QED
    BY <2>1, <2>2, SumIsInt
<1>6. DOMAIN c = rows
  BY <1>1
<1> HIDE DEF c, rows
<1> QED
  BY <1>4, <1>5, <1>6 DEF Results, c
\* The table a Swiss round is paired from: those who are still in it.
LEMMA SwissTableRows ==
  ASSUME NEW t, Basic(t), Counted(t), Nobody \notin Nat
  PROVE  LET rows == SwissTable(t)
         IN  /\ \E R : rows \in Seq(R)
             /\ \A i \in 1..Len(rows) : rows[i].score \in Int
             /\ DistinctIds(rows)
             /\ \A e : e \in Ids(rows) <=> e \in Range(t.entries) /\ e \notin t.withdrawn
             /\ Nobody \notin Ids(rows)
             /\ \A i \in 1..Len(rows) :
                  rows[i].hadBye <=> \E id \in DOMAIN t.pairings :
                    IsBye(t.pairings[id]) /\ t.pairings[id].player1 = rows[i].id
<1> DEFINE field == Without(t.entries, t.withdrawn)
           n == Len(field)
           byes == {t.pairings[id].player1 : id \in {x \in DOMAIN t.pairings : IsBye(t.pairings[x])}}
           done == Completions(t)
           row(i) == [id |-> field[i], score |-> Score(field[i], done),
                      opponents |-> Opponents(field[i], done), hadBye |-> field[i] \in byes]
           rows == SwissTable(t)
           E == t.entries
<1>1. E \in Seq(Nat) /\ Len(E) \in Nat /\ \A i, j \in 1..Len(E) : E[i] = E[j] => i = j
  BY DEF Basic, Registered, Injective
<1>2. /\ field \in Seq(Nat)
      /\ \E at : /\ Embeds(at, field, E)
                 /\ \A k \in 1..n : E[at[k]] \notin t.withdrawn
                 /\ \A i \in 1..Len(E) : E[i] \notin t.withdrawn => \E k \in 1..n : at[k] = i
  <2> HIDE DEF E
  <2> QED
    BY <1>1, WithoutEmbeds DEF E
<1> HIDE DEF field
<1>3. PICK at : /\ Embeds(at, field, E)
                /\ \A k \in 1..n : E[at[k]] \notin t.withdrawn
                /\ \A i \in 1..Len(E) : E[i] \notin t.withdrawn => \E k \in 1..n : at[k] = i
  BY <1>2
<1>4. /\ \A k \in 1..n : at[k] \in 1..Len(E) /\ field[k] = E[at[k]]
      /\ \A k, l \in 1..n : k < l => at[k] < at[l]
  BY <1>3 DEF Embeds
<1>5. n \in Nat /\ DOMAIN field = 1..n /\ \A k \in 1..n : field[k] \in Nat
  BY <1>2
<1>6. rows = [i \in 1..n |-> row(i)]
  BY <1>5, TabulatedIsIt DEF SwissTable, field
<1> HIDE DEF rows, done, byes
<1>7. Len(rows) = n
  BY <1>5, <1>6
<1>8. ASSUME NEW i \in 1..n
      PROVE  /\ rows[i].id = field[i] /\ rows[i].score = Score(field[i], done)
             /\ rows[i].hadBye <=> field[i] \in byes
  BY <1>6
<1>9. \E R : rows \in Seq(R)
  <2> DEFINE R == {row(i) : i \in 1..n}
  <2>1. \A i \in 1..n : row(i) \in R
    OBVIOUS
  <2> HIDE DEF R, row
  <2>2. rows \in [1..n -> R]
    BY <1>6, <2>1
  <2>3. rows \in Seq(R)
    BY <1>5, <2>2
  <2> QED
    BY <2>3
<1>10. \A i \in 1..n : rows[i].score \in Int
  <2>1. Results(done)
    BY CompletionsAreResults DEF Basic, done
  <2> QED
    BY <1>8, <2>1, ScoreIsInt
<1> HIDE DEF row, n
<1>11. ASSUME NEW i \in 1..n, NEW j \in 1..n, rows[i].id = rows[j].id
       PROVE  i = j
  <2>1. at[i] = at[j]
    <3>1. E[at[i]] = E[at[j]]
      BY <1>4, <1>8, <1>11
    <3> HIDE DEF E
    <3> QED
      BY <1>1, <1>4, <3>1
  <2>2. i \in Nat /\ j \in Nat /\ at[i] \in Nat
    BY <1>1, <1>4, <1>5
  <2>3. ~(i < j) /\ ~(j < i)
    BY <1>4, <2>1, <2>2
  <2> QED
    BY <2>2, <2>3
<1>12. DistinctIds(rows)
  BY <1>7, <1>11 DEF DistinctIds
<1>13. ASSUME NEW e
       PROVE  e \in Ids(rows) <=> e \in Range(E) /\ e \notin t.withdrawn
  <2>1. e \in Ids(rows) <=> \E i \in 1..n : e = field[i]
    BY <1>7, <1>8 DEF Ids
  <2>2. e \in Range(E) <=> \E i \in 1..Len(E) : e = E[i]
    <3>1. DOMAIN E = 1..Len(E)
      BY <1>1
    <3> QED
      BY <3>1 DEF Range
  <2> HIDE DEF E
  <2> QED
    BY <1>3, <1>4, <2>1, <2>2
<1>14. Nobody \notin Ids(rows)
  BY <1>5, <1>7, <1>8 DEF Ids
<1>15. ASSUME NEW i \in 1..n
       PROVE  rows[i].hadBye <=> \E id \in DOMAIN t.pairings :
                IsBye(t.pairings[id]) /\ t.pairings[id].player1 = rows[i].id
  BY <1>8 DEF byes
<1> QED
  BY <1>7, <1>9, <1>10, <1>12, <1>13, <1>14, <1>15 DEF rows

\* Whom a round seats.
Field(t) == IF t.format = "swiss" THEN Range(t.entries) \ t.withdrawn ELSE Range(t.entries)

\* The next round of a tournament.
NextPairs(t) ==
  IF t.format = "swiss" THEN GenerateNextRound(SwissTable(t))
  ELSE GenerateAllRounds(t.entries)[t.round + 2]

\* The entries are a list of players, each once.
LEMMA EntriesAreSeated ==
  ASSUME NEW t, Registered(t)
  PROVE  /\ Seated(t.entries, Range(t.entries))
         /\ Nobody \notin Range(t.entries)
         /\ Range(t.entries) \subseteq Nat
         /\ IsFiniteSet(Range(t.entries))
<1> DEFINE E == t.entries
           n == Len(E)
<1>1. E \in Seq(Nat) /\ n \in Nat /\ DOMAIN E = 1..n /\ \A i \in 1..n : E[i] \in Nat
  BY DEF Registered
<1> HIDE DEF E
<1>2. \A e : e \in Range(E) <=> \E i \in 1..n : E[i] = e
  BY <1>1 DEF Range
<1>3. Range(E) \subseteq Nat
  BY <1>1, <1>2
<1>4. Nobody \notin Range(E)
  BY <1>3, NobodyIsNoEntry
<1>5. Seated(E, Range(E))
  BY <1>2, <1>4 DEF Seated
<1>6. IsFiniteSet(Range(E))
  <2>1. IsFiniteSet(1..n)
    BY <1>1, UpTo
  <2> DEFINE f == [i \in 1..n |-> E[i]]
  <2>2. f \in Surjection(1..n, Range(E))
    BY <1>2 DEF Surjection
  <2> HIDE DEF f, n
  <2> QED
    BY <2>1, <2>2, FS_Surjection
<1> QED
  BY <1>3, <1>4, <1>5, <1>6 DEF E

\* Their schedule is a round robin.
LEMMA RoundRobinOf ==
  ASSUME NEW t, Registered(t), Len(t.entries) >= 2
  PROVE  RoundRobin(GenerateAllRounds(t.entries), Range(t.entries))
<1> DEFINE E == t.entries
           S == Range(E)
<1>1. E \in Seq(Nat) /\ Injective(E) /\ Len(E) >= 2
  BY DEF Registered
<1>2. Seated(E, S) /\ Nobody \notin S
  BY EntriesAreSeated
<1> HIDE DEF E, S
<1>3. RoundRobin(GenerateAllRounds(E), S)
  BY <1>1, <1>2, AllRoundsAreFair DEF S
<1> QED
  BY <1>3 DEF S, E

\* The next round seats everybody who is to play once, is the next of the
\* schedule in a round robin, and shares the bye in a Swiss system.
LEMMA NextPairsSeatOnce ==
  ASSUME NEW t, Basic(t), Counted(t), t.format \in RoundFormats, Len(t.entries) >= 2,
         t.round < LastRound(t)
  PROVE  /\ SeatsOnce(NextPairs(t), Field(t))
         /\ t.format = "round_robin" =>
              /\ t.round + 2 \in 1..Len(GenerateAllRounds(t.entries))
              /\ NextPairs(t) = GenerateAllRounds(t.entries)[t.round + 2]
         /\ t.format = "swiss" => ByesAreShared(NextPairs(t), SwissTable(t))
<1>1. t.round \in Nat
  BY DEF Basic, WellFormed
<1>2. CASE t.format = "swiss"
  <2> DEFINE rows == SwissTable(t)
  <2>1. /\ \E R : rows \in Seq(R)
        /\ \A i \in 1..Len(rows) : rows[i].score \in Int
        /\ DistinctIds(rows)
        /\ \A e : e \in Ids(rows) <=> e \in Range(t.entries) /\ e \notin t.withdrawn
        /\ Nobody \notin Ids(rows)
    BY NobodyIsNoEntry, SwissTableRows
  <2>2. PICK R : rows \in Seq(R)
    BY <2>1
  <2>3. Ids(rows) = Field(t)
    BY <1>2, <2>1 DEF Field
  <2> HIDE DEF rows
  <2>4. SeatsOnce(GenerateNextRound(rows), Ids(rows)) /\ ByesAreShared(GenerateNextRound(rows), rows)
    BY <2>1, <2>2, SwissRoundSeatsOnce
  <2>5. NextPairs(t) = GenerateNextRound(rows)
    BY <1>2 DEF NextPairs, rows
  <2> QED
    BY <1>2, <2>3, <2>4, <2>5 DEF rows
<1>3. CASE t.format = "round_robin"
  <2> DEFINE all == GenerateAllRounds(t.entries)
  <2>1. RoundRobin(all, Range(t.entries))
    BY RoundRobinOf DEF Basic
  <2>2. LastRound(t) = Len(all) - 1
    BY <1>3 DEF LastRound
  <2>3. NextPairs(t) = all[t.round + 2] /\ Field(t) = Range(t.entries)
    BY <1>3 DEF NextPairs, Field
  <2> HIDE DEF all
  <2>4. Len(all) \in Nat /\ t.round + 2 \in 1..Len(all)
    BY <1>1, <2>1, <2>2 DEF RoundRobin
  <2>5. SeatsOnce(all[t.round + 2], Range(t.entries))
    BY <2>1, <2>4 DEF RoundRobin
  <2> QED
    BY <1>3, <2>3, <2>4, <2>5 DEF all
<1> QED
  BY <1>2, <1>3 DEF RoundFormats

\* The same tournament a round later, before that is paired.
LEMMA RoundCounted ==
  ASSUME NEW t, Basic(t), Counted(t)
  PROVE  LET s == [t EXCEPT !.round = @ + 1]
         IN  /\ Basic(s) /\ Counted(s) /\ Evolves(t, s)
             /\ Fixed(t, s) /\ s.pairings = t.pairings /\ s.round = t.round + 1
             /\ s.status = t.status /\ s.withdrawn = t.withdrawn /\ s.current = t.current
             /\ t.format \in RoundFormats => \A id \in DOMAIN s.pairings : id[1] # s.round
<1> DEFINE s == [t EXCEPT !.round = @ + 1]
<1>1. /\ DOMAIN s = TournamentFields
      /\ Fixed(t, s) /\ s.pairings = t.pairings /\ s.completed = t.completed
      /\ s.round = t.round + 1
      /\ s.status = t.status /\ s.withdrawn = t.withdrawn /\ s.current = t.current
  BY DEF Basic, WellFormed, TournamentFields, Fixed
<1>2. t.round \in Nat
  BY DEF Basic, WellFormed
<1> HIDE DEF s
<1>3. WellFormed(s)
  BY <1>1, <1>2 DEF Basic, WellFormed, Fixed
<1>4. Registered(s)
  BY <1>1 DEF Basic, Registered, Fixed
<1>5. Numbered(s)
  <2>1. s.format = t.format
    BY <1>1 DEF Fixed
  <2>2. \A n \in Nat : n <= t.round => n <= s.round
    BY <1>1, <1>2
  <2> QED
    BY <1>1, <2>1, <2>2 DEF Basic, Numbered
<1>6. Counted(s)
  BY <1>1 DEF Counted, Decided
<1>7. Evolves(t, s)
  BY <1>1 DEF Evolves
<1>8. ASSUME t.format \in RoundFormats, NEW id \in DOMAIN s.pairings
      PROVE  id[1] # s.round
  <2>1. id[1] \in Nat /\ id[1] <= t.round
    BY <1>1, <1>8 DEF Basic, Numbered
  <2> QED
    BY <1>1, <1>2, <2>1
<1> QED
  BY <1>1, <1>3, <1>4, <1>5, <1>6, <1>7, <1>8 DEF Basic, s

\* The next round is created, and the tournament sound after it.
LEMMA NextRoundSound ==
  ASSUME NEW t, Sound(t), RoundComplete(t), t.round < LastRound(t)
  PROVE  LET s == [t EXCEPT !.round = @ + 1]
             u == NextRound(t)
         IN  /\ Sound(u) /\ Evolves(t, u)
             /\ Materialized(s, u, NextPairs(t))
             /\ u.status = t.status /\ u.withdrawn = t.withdrawn /\ u.round = t.round + 1
<1> DEFINE s == [t EXCEPT !.round = @ + 1]
           u == NextRound(t)
           pairs == NextPairs(t)
<1>1. /\ t.format \in RoundFormats /\ DOMAIN t.pairings # {} /\ Started(t)
      /\ t.status # "draft" /\ Len(t.entries) >= 2
  BY DEF RoundComplete, Sound, Started
<1>2. /\ Basic(s) /\ Counted(s) /\ Evolves(t, s)
      /\ Fixed(t, s) /\ s.pairings = t.pairings /\ s.round = t.round + 1
      /\ s.status = t.status /\ s.withdrawn = t.withdrawn /\ s.current = t.current
      /\ \A id \in DOMAIN s.pairings : id[1] # s.round
  BY <1>1, RoundCounted DEF Sound
<1>3. PICK P : pairs \in Seq(P)
  BY <1>1, NextPairsSeatOnce DEF Sound, SeatsOnce
<1>4. u = MaterializeRound(s, pairs)
  BY DEF NextRound, NextPairs
<1> HIDE DEF s, u, pairs
<1>5. s.format \in RoundFormats
  BY <1>1, <1>2 DEF Fixed
<1>6. Basic(u) /\ Counted(u) /\ Evolves(s, u) /\ Materialized(s, u, pairs)
  BY <1>2, <1>3, <1>4, <1>5, MaterializeKeeps
<1>7. Evolves(t, u)
  BY <1>2, <1>6, EvolvesTransitive
<1>8. u.status = t.status /\ u.withdrawn = t.withdrawn /\ u.round = t.round + 1
  BY <1>2, <1>6 DEF Materialized, Placed, Beside
<1>9. u.current \subseteq DOMAIN u.pairings
  BY <1>6 DEF Materialized, Placed
<1>10. Sound(u)
  BY <1>1, <1>6, <1>7, <1>8, <1>9, SlottedEvolves DEF Sound
<1> QED
  BY <1>6, <1>7, <1>8, <1>10 DEF s, u, pairs

\* So it is when the last round is over,
LEMMA CompletedSound ==
  ASSUME NEW t, Sound(t), NEW times
  PROVE  LET u == CompleteTournament(t, times)
         IN  /\ Sound(u) /\ SamePairings(t, u) /\ Evolves(t, u) /\ u.status = "completed"
<1> DEFINE u == CompleteTournament(t, times)
<1>1. WellFormed(u) /\ SamePairings(t, u) /\ u.status = "completed"
  BY CompletedKeeps DEF Sound, Basic
<1> HIDE DEF u
<1>2. Basic(u) /\ Counted(u) /\ Evolves(t, u)
  BY <1>1, SamePairingsKeep DEF Sound
<1>3. u.current = t.current /\ u.pairings = t.pairings
  BY <1>1 DEF SamePairings
<1>4. Sound(u)
  BY <1>1, <1>2, <1>3, SlottedEvolves DEF Sound
<1> QED
  BY <1>1, <1>2, <1>4 DEF u

\* and however many rounds are complete at once.
LEMMA AdvanceSound ==
  ASSUME NEW t, Sound(t)
  PROVE  LET u == AdvanceIfRoundComplete(t)
         IN  /\ Sound(u) /\ Evolves(t, u)
             /\ u.withdrawn = t.withdrawn /\ u.status \in {t.status, "completed"}
             /\ t.format \notin RoundFormats => u = t
<1> DEFINE n == Len(t.entries)
           u == AdvanceIfRoundComplete(t)
           Kept(v) == /\ Sound(v) /\ Evolves(t, v)
                      /\ v.withdrawn = t.withdrawn /\ v.status = t.status
                      /\ t.format \notin RoundFormats => v = t
<1>1. n \in Nat
  BY DEF Sound, Basic, Registered
<1>2. PICK g : Advanced(g, t)
  BY <1>1, AdvanceRuns
<1> DEFINE S == {i \in 0..n : Kept(g[i])}
<1>3. 0 \in S
  BY <1>1, <1>2, EvolvesReflexive DEF Advanced
<1>4. ASSUME NEW i \in 1..n, i - 1 \in S
      PROVE  i \in S
  <2> DEFINE s == g[i - 1]
             v == g[i]
  <2>1. v = IF RoundComplete(s) /\ s.round < LastRound(s) THEN NextRound(s) ELSE s
    BY <1>2 DEF Advanced
  <2>2. Kept(s)
    BY <1>4
  <2>3. i \in 0..n
    BY <1>1
  <2> HIDE DEF s, v
  <2>4. Kept(v)
    <3>1. CASE RoundComplete(s) /\ s.round < LastRound(s)
      <4>1. v = NextRound(s)
        BY <2>1, <3>1
      <4>2. Sound(v) /\ Evolves(s, v) /\ v.status = s.status /\ v.withdrawn = s.withdrawn
        BY <2>2, <3>1, <4>1, NextRoundSound
      <4>3. Evolves(t, v)
        BY <2>2, <4>2, EvolvesTransitive
      <4>4. t.format \in RoundFormats
        BY <2>2, <3>1, SlottedEvolves DEF RoundComplete
      <4> QED
        BY <2>2, <4>2, <4>3, <4>4
    <3>2. CASE ~(RoundComplete(s) /\ s.round < LastRound(s))
      BY <2>1, <2>2, <3>2
    <3> QED
      BY <3>1, <3>2
  <2> HIDE DEF Kept
  <2> QED
    BY <2>3, <2>4 DEF v
<1>5. \A i \in 0..n : i \in S
  <2> HIDE DEF S
  <2> QED
    BY <1>1, <1>3, <1>4, BoundedInduction
<1> DEFINE last == g[n]
<1>6. Kept(last)
  BY <1>1, <1>5
<1>7. u = IF RoundComplete(last) THEN CompleteTournament(last, 1) ELSE last
  BY <1>2 DEF Advanced
<1> HIDE DEF last, u, S
<1>8. CASE RoundComplete(last)
  <2>1. u = CompleteTournament(last, 1)
    BY <1>7, <1>8
  <2>2. Sound(u) /\ SamePairings(last, u) /\ Evolves(last, u) /\ u.status = "completed"
    BY <1>6, <2>1, CompletedSound
  <2>3. Evolves(t, u) /\ u.withdrawn = t.withdrawn
    BY <1>6, <2>2, EvolvesTransitive DEF SamePairings
  <2>4. t.format \in RoundFormats
    BY <1>6, <1>8, SlottedEvolves DEF RoundComplete
  <2> QED
    BY <2>2, <2>3, <2>4 DEF u
<1>9. CASE ~RoundComplete(last)
  BY <1>6, <1>7, <1>9 DEF u
<1> QED
  BY <1>8, <1>9

-----------------------------------------------------------------------------
(* Brackets are finite.                                                    *)

\* The powers of two up to the n-th.
PowersTo(g, n) == g = [k \in 0..n |-> IF k = 0 THEN 1 ELSE 2 * g[k - 1]]

\* The table of the powers of two exists for every n,
LEMMA PowersExist == \A n \in Nat : \E g : PowersTo(g, n)
<1> DEFINE S == {n \in Nat : \E g : PowersTo(g, n)}
<1>1. 0 \in S
  <2> DEFINE g == [k \in 0..0 |-> 1]
  <2>1. g = [k \in 0..0 |-> IF k = 0 THEN 1 ELSE 2 * g[k - 1]]
    OBVIOUS
  <2>2. PowersTo(g, 0)
    <3> HIDE DEF g
    <3> QED
      BY <2>1 DEF PowersTo
  <2> QED
    BY <2>2
<1>2. ASSUME NEW n \in Nat, n \in S
      PROVE  n + 1 \in S
  <2>1. PICK g : PowersTo(g, n)
    BY <1>2
  <2> DEFINE h == [k \in 0..(n + 1) |-> IF k = n + 1 THEN 2 * g[n] ELSE g[k]]
  <2>2. ASSUME NEW k \in 0..(n + 1)
        PROVE  h[k] = IF k = 0 THEN 1 ELSE 2 * h[k - 1]
    <3>1. CASE k = n + 1
      <4>1. k # 0 /\ k - 1 = n /\ n \in 0..(n + 1) /\ n # n + 1
        BY <3>1
      <4>2. h[n] = g[n]
        BY <4>1
      <4> QED
        BY <3>1, <4>1, <4>2
    <3>2. CASE k \in 0..n
      <4>1. g[k] = IF k = 0 THEN 1 ELSE 2 * g[k - 1]
        BY <2>1, <3>2 DEF PowersTo
      <4>2. k # n + 1 /\ (k # 0 => k - 1 \in 0..n /\ k - 1 # n + 1)
        BY <3>2
      <4>3. h[k] = g[k] /\ (k # 0 => h[k - 1] = g[k - 1])
        BY <4>2
      <4> HIDE DEF h
      <4> QED
        BY <4>1, <4>3
    <3> QED
      BY <3>1, <3>2
  <2>3. h = [k \in 0..(n + 1) |-> IF k = 0 THEN 1 ELSE 2 * h[k - 1]]
    BY <2>2
  <2>4. PowersTo(h, n + 1)
    <3> HIDE DEF h
    <3> QED
      BY <2>3 DEF PowersTo
  <2> QED
    BY <2>4
<1>3. \A n \in Nat : n \in S
  <2> HIDE DEF S
  <2> QED
    BY <1>1, <1>2, SetInduction
<1> QED
  BY <1>3

\* tables of different sizes agree,
LEMMA PowersAgree ==
  ASSUME NEW n \in Nat, NEW m \in Nat, n <= m, NEW g, PowersTo(g, n), NEW h, PowersTo(h, m)
  PROVE  \A k \in 0..n : g[k] = h[k]
<1> DEFINE S == {k \in 0..n : g[k] = h[k]}
<1>1. \A k \in 0..n : g[k] = IF k = 0 THEN 1 ELSE 2 * g[k - 1]
  BY DEF PowersTo
<1>2. \A k \in 0..n : h[k] = IF k = 0 THEN 1 ELSE 2 * h[k - 1]
  <2>1. \A k \in 0..m : h[k] = IF k = 0 THEN 1 ELSE 2 * h[k - 1]
    BY DEF PowersTo
  <2>2. \A k \in 0..n : k \in 0..m
    OBVIOUS
  <2> QED
    BY <2>1, <2>2
<1>3. 0 \in S
  BY <1>1, <1>2
<1>4. ASSUME NEW k \in 1..n, k - 1 \in S
      PROVE  k \in S
  <2>1. k \in 0..n /\ k # 0
    OBVIOUS
  <2> QED
    BY <1>1, <1>2, <1>4, <2>1
<1>5. \A k \in 0..n : k \in S
  <2> HIDE DEF S
  <2> QED
    BY <1>3, <1>4, BoundedInduction
<1> QED
  BY <1>5

\* so TwoTo is what its definition says,
LEMMA TwoToUnrolls == TwoTo = [k \in Nat |-> IF k = 0 THEN 1 ELSE 2 * TwoTo[k - 1]]
<1> DEFINE g(n) == CHOOSE x : PowersTo(x, n)
           f == [k \in Nat |-> g(k)[k]]
<1>1. \A n \in Nat : PowersTo(g(n), n)
  BY PowersExist
<1> HIDE DEF g
<1>2. ASSUME NEW k \in Nat
      PROVE  f[k] = IF k = 0 THEN 1 ELSE 2 * f[k - 1]
  <2>1. k \in 0..k /\ g(k)[k] = IF k = 0 THEN 1 ELSE 2 * g(k)[k - 1]
    BY <1>1 DEF PowersTo
  <2>2. CASE k = 0
    BY <2>1, <2>2
  <2>3. CASE k # 0
    <3>1. k - 1 \in Nat /\ k - 1 <= k /\ k - 1 \in 0..(k - 1)
      BY <2>3
    <3>2. PowersTo(g(k - 1), k - 1) /\ PowersTo(g(k), k)
      BY <1>1, <3>1
    <3>3. g(k - 1)[k - 1] = g(k)[k - 1]
      BY <3>1, <3>2, PowersAgree
    <3>4. f[k] = g(k)[k] /\ f[k - 1] = g(k - 1)[k - 1]
      BY <3>1
    <3> HIDE DEF f
    <3> QED
      BY <2>1, <2>3, <3>3, <3>4
  <2> QED
    BY <2>2, <2>3
<1>3. f = [k \in Nat |-> IF k = 0 THEN 1 ELSE 2 * f[k - 1]]
  BY <1>2
<1>4. \E x : x = [k \in Nat |-> IF k = 0 THEN 1 ELSE 2 * x[k - 1]]
  <2> HIDE DEF f
  <2> QED
    BY <1>3
<1> DEFINE c == CHOOSE x : x = [k \in Nat |-> IF k = 0 THEN 1 ELSE 2 * x[k - 1]]
<1>5. TwoTo = c
  BY Zenon DEF TwoTo
<1>6. c = [k \in Nat |-> IF k = 0 THEN 1 ELSE 2 * c[k - 1]]
  BY <1>4
<1> HIDE DEF c
<1> QED
  BY <1>5, <1>6

\* and it grows.
LEMMA PowersGrow == \A k \in Nat : TwoTo[k] \in Nat /\ TwoTo[k] >= k + 1
<1> DEFINE S == {k \in Nat : TwoTo[k] \in Nat /\ TwoTo[k] >= k + 1}
<1>1. TwoTo[0] = 1
  BY TwoToUnrolls
<1>2. \A k \in Nat : TwoTo[k + 1] = 2 * TwoTo[k]
  <2> SUFFICES ASSUME NEW k \in Nat PROVE TwoTo[k + 1] = 2 * TwoTo[k]
    OBVIOUS
  <2>1. k + 1 \in Nat /\ k + 1 # 0 /\ (k + 1) - 1 = k
    OBVIOUS
  <2> QED
    BY <2>1, TwoToUnrolls
<1>3. 0 \in S
  BY <1>1
<1>4. ASSUME NEW k \in Nat, k \in S
      PROVE  k + 1 \in S
  BY <1>2, <1>4
<1>5. \A k \in Nat : k \in S
  <2> HIDE DEF S
  <2> QED
    BY <1>3, <1>4, SetInduction
<1> QED
  BY <1>5

\* There is a number of rounds for every field.
LEMMA RoundsExist ==
  ASSUME NEW n \in Nat, n >= 1
  PROVE  \E k \in 1..n : TwoTo[k] >= n /\ (k = 1 \/ TwoTo[k - 1] < n)
<1> DEFINE T == {k \in 1..n : TwoTo[k] >= n}
<1>1. n \in T
  BY PowersGrow
<1>2. PICK k \in T : \A x \in T : k <= x
  <2>1. T \subseteq Nat /\ T # {}
    BY <1>1
  <2> HIDE DEF T
  <2> QED
    BY <2>1, LeastNatural
<1>3. k = 1 \/ TwoTo[k - 1] < n
  <2> SUFFICES ASSUME k # 1 PROVE TwoTo[k - 1] < n
    OBVIOUS
  <2>1. k - 1 \in 1..n /\ k - 1 \in Nat /\ k - 1 < k
    OBVIOUS
  <2>2. k - 1 \notin T
    BY <1>2, <2>1
  <2>3. TwoTo[k - 1] \in Nat
    BY <2>1, PowersGrow
  <2> QED
    BY <2>1, <2>2, <2>3
<1> QED
  BY <1>3

\* Finitely many finite sets have finitely many elements.
LEMMA FamilyIsFinite ==
  ASSUME NEW k \in Nat, NEW f, \A r \in 1..k : IsFiniteSet(f[r])
  PROVE  IsFiniteSet(UNION {f[r] : r \in 1..k})
<1> DEFINE F == {f[r] : r \in 1..k}
           h == [r \in 1..k |-> f[r]]
<1>1. IsFiniteSet(1..k)
  BY UpTo
<1>2. h \in Surjection(1..k, F)
  BY DEF Surjection
<1>3. IsFiniteSet(F)
  <2> HIDE DEF h, F
  <2> QED
    BY <1>1, <1>2, FS_Surjection
<1>4. \A x \in F : IsFiniteSet(x)
  OBVIOUS
<1> HIDE DEF F
<1>5. IsFiniteSet(UNION F)
  BY <1>3, <1>4, FS_UNION
<1> QED
  BY <1>5 DEF F

\* The matches of one round, by place.
LEMMA RowIsFinite ==
  ASSUME NEW b, NEW r, NEW n \in Nat
  PROVE  IsFiniteSet({<<b, r, i>> : i \in 1..n})
<1> DEFINE T == {<<b, r, i>> : i \in 1..n}
           h == [i \in 1..n |-> <<b, r, i>>]
<1>1. h \in Surjection(1..n, T)
  BY DEF Surjection
<1>2. IsFiniteSet(1..n)
  BY UpTo
<1> HIDE DEF h, T
<1>3. IsFiniteSet(T)
  BY <1>1, <1>2, FS_Surjection
<1> QED
  BY <1>3 DEF T

\* A bracket has finitely many slots, numbered.
LEMMA BracketIsFinite ==
  ASSUME NEW players, Len(players) \in Nat, Len(players) >= 2
  PROVE  LET slots == GenerateBracket(players).slots
         IN  IsFiniteSet(DOMAIN slots) /\ \A m \in DOMAIN slots : m[2] \in Nat
<1> DEFINE k == WinnersRounds(Len(players))
           W == WinnersMatches(k)
           L == LosersMatches(k)
           M == W \cup (IF k > 1 THEN L \cup {GrandFinal} ELSE {})
           slots == GenerateBracket(players).slots
<1>1. k \in 1..Len(players) /\ k \in Nat /\ k >= 1
  <2> DEFINE n == Len(players)
  <2>1. n \in Nat /\ n >= 1
    OBVIOUS
  <2>2. WinnersRounds(n) = CHOOSE x \in 1..n : TwoTo[x] >= n /\ (x = 1 \/ TwoTo[x - 1] < n)
    BY DEF WinnersRounds
  <2> HIDE DEF n
  <2>3. \E x \in 1..n : TwoTo[x] >= n /\ (x = 1 \/ TwoTo[x - 1] < n)
    BY <2>1, RoundsExist
  <2>4. WinnersRounds(n) \in 1..n
    BY <2>2, <2>3, Zenon
  <2>5. \A x \in 1..n : x \in Nat /\ x >= 1
    BY <2>1
  <2> QED
    BY <2>4, <2>5 DEF n
<1>2. DOMAIN slots = M
  BY DEF GenerateBracket
<1> HIDE DEF k, slots
<1>3. IsFiniteSet(W) /\ \A m \in W : m[2] \in Nat
  <2> DEFINE f == [r \in 1..k |-> {<<"W", r, i>> : i \in 1..TwoTo[k - r]}]
  <2>1. \A r \in 1..k : IsFiniteSet(f[r])
    <3> SUFFICES ASSUME NEW r \in 1..k PROVE IsFiniteSet(f[r])
      OBVIOUS
    <3>1. k - r \in Nat
      BY <1>1
    <3>2. TwoTo[k - r] \in Nat
      BY <3>1, PowersGrow
    <3>3. IsFiniteSet({<<"W", r, i>> : i \in 1..TwoTo[k - r]})
      BY <3>2, RowIsFinite
    <3> QED
      BY <3>3
  <2>2. W = UNION {f[r] : r \in 1..k}
    BY DEF WinnersMatches
  <2>3. IsFiniteSet(UNION {f[r] : r \in 1..k})
    <3> HIDE DEF f
    <3> QED
      BY <1>1, <2>1, FamilyIsFinite
  <2>4. \A m \in W : m[2] \in Nat
    BY <1>1 DEF WinnersMatches
  <2> QED
    BY <2>2, <2>3, <2>4
<1>4. ASSUME k > 1
      PROVE  IsFiniteSet(L) /\ \A m \in L : m[2] \in Nat
  <2> DEFINE n == LosersRounds(k)
             f == [r \in 1..n |-> {<<"L", r, i>> : i \in 1..LosersLength(k, r)}]
  <2>0. n \in Nat /\ n = 2 * (k - 1)
    BY <1>1 DEF LosersRounds
  <2>1. \A r \in 1..n : IsFiniteSet(f[r])
    <3> SUFFICES ASSUME NEW r \in 1..n PROVE IsFiniteSet(f[r])
      OBVIOUS
    <3>1. k - 1 - (r + 1) \div 2 \in Nat
      <4>1. r \in Nat /\ 1 <= r /\ r <= 2 * (k - 1)
        BY <2>0
      <4> QED
        BY <1>1, <4>1
    <3>2. LosersLength(k, r) \in Nat
      BY <3>1, PowersGrow DEF LosersLength
    <3>3. IsFiniteSet({<<"L", r, i>> : i \in 1..LosersLength(k, r)})
      BY <3>2, RowIsFinite
    <3> QED
      BY <3>3
  <2>2. L = UNION {f[r] : r \in 1..n}
    BY DEF LosersMatches
  <2>3. IsFiniteSet(UNION {f[r] : r \in 1..n})
    <3> HIDE DEF f, n
    <3> QED
      BY <2>0, <2>1, FamilyIsFinite
  <2>4. \A m \in L : m[2] \in Nat
    BY <2>0 DEF LosersMatches
  <2> QED
    BY <2>2, <2>3, <2>4
<1>5. IsFiniteSet({GrandFinal}) /\ GrandFinal[2] \in Nat /\ IsFiniteSet({})
  BY FS_Singleton, FS_EmptySet DEF GrandFinal
<1> HIDE DEF W, L
<1>6. IsFiniteSet(M)
  BY <1>3, <1>4, <1>5, FS_Union
<1>7. \A m \in M : m[2] \in Nat
  BY <1>3, <1>4, <1>5
<1> QED
  BY <1>2, <1>6, <1>7 DEF slots

-----------------------------------------------------------------------------
(* Decisions, forfeits and withdrawals.                                    *)

\* A pairing that was not decided has been edited.
LEMMA EditedSound ==
  ASSUME NEW t, Sound(t), NEW id \in OpenPairings(t), NEW u, WellFormed(u), Edited(t, u, id),
         u.pairings[id].state # "Completed", u.pairings[id].round = t.pairings[id].round
  PROVE  Sound(u)
<1>1. id \in DOMAIN t.pairings /\ IsOpen(t, id)
  BY DEF OpenPairings
<1>2. t.pairings[id].state # "DoubleNoShow" /\ t.pairings[id].state # "Completed"
  BY <1>1 DEF IsOpen, Terminal
<1>3. Basic(u)
  BY <1>1, <1>2, EditedKeeps DEF Sound
<1>4. /\ Fixed(t, u) /\ DOMAIN u.pairings = DOMAIN t.pairings /\ u.completed = t.completed
      /\ u.current = t.current /\ u.status = t.status
      /\ \A x \in DOMAIN t.pairings : x # id => u.pairings[x] = t.pairings[x]
  BY DEF Edited
<1>5. Decided(u) = Decided(t)
  BY <1>1, <1>2, <1>4 DEF Decided
<1>6. Counted(u)
  BY <1>4, <1>5 DEF Sound, Counted
<1>7. Started(t) => Started(u)
  BY <1>4 DEF Started, Slotted, Fixed
<1> QED
  BY <1>3, <1>4, <1>6, <1>7 DEF Sound

\* A pairing is settled, then counted: the cascade in between leaves a sound
\* tournament, whatever it decides.
LEMMA RecordSound ==
  ASSUME NEW t, Sound(t), NEW id \in OpenPairings(t), NEW w
  PROVE  LET s == Settled(t, id, w)
             u == RecordCompletion(s, id)
         IN  /\ Sound(u) /\ Evolves(s, u) /\ Evolves(t, u)
             /\ WellFormed(s) /\ Edited(t, s, id) /\ SamePlayers(t.pairings[id], s.pairings[id])
             /\ s.pairings[id].state = "Completed" /\ s.pairings[id].life = SettledLife
             /\ s.pairings[id].winner = w
             /\ u.current = t.current /\ u.withdrawn = t.withdrawn
             /\ u.status \in {t.status, "completed"}
             /\ t.format \in RoundFormats =>
                  u.status = t.status /\ u.round = t.round /\ u.pairings = s.pairings
<1> DEFINE s == Settled(t, id, w)
           u == RecordCompletion(s, id)
<1>1. id \in DOMAIN t.pairings /\ IsOpen(t, id)
  BY DEF OpenPairings
<1>2. /\ Basic(s) /\ Edited(t, s, id) /\ Evolves(t, s)
      /\ id \in Decided(s)
      /\ s.completed = SetToBag(Decided(s) \ {id})
  BY <1>1, SettleKeeps DEF Sound
<1>3. /\ WellFormed(s) /\ SamePlayers(t.pairings[id], s.pairings[id])
      /\ s.pairings[id].state = "Completed" /\ s.pairings[id].life = SettledLife
      /\ s.pairings[id].winner = w
  BY <1>1, SettledFields DEF Sound, Basic
<1> HIDE DEF s
<1>4. Started(t) /\ t.status # "draft"
  BY <1>1 DEF Sound
<1>5. Started(s)
  BY <1>2, <1>4, SlottedEvolves
<1>6. /\ Basic(u) /\ Counted(u) /\ Evolves(s, u)
      /\ u.current = s.current /\ u.withdrawn = s.withdrawn
      /\ u.status \in {s.status, "completed"}
      /\ s.format \in RoundFormats =>
           u.status = s.status /\ SamePairings(u, [s EXCEPT !.completed = u.completed])
  BY <1>2, <1>5, RecordKeeps DEF Started
<1> HIDE DEF u
<1>7. Evolves(t, u)
  BY <1>2, <1>6, EvolvesTransitive
<1>8. u.current = t.current /\ u.withdrawn = t.withdrawn /\ u.status \in {t.status, "completed"}
  BY <1>2, <1>6 DEF Edited
<1>9. Sound(u)
  <2>1. u.current \subseteq DOMAIN u.pairings
    BY <1>7, <1>8, SlottedEvolves DEF Sound
  <2>2. Started(u)
    BY <1>5, <1>6, SlottedEvolves
  <2> QED
    BY <1>4, <1>6, <1>8, <2>1, <2>2 DEF Sound
<1>10. ASSUME t.format \in RoundFormats
       PROVE  u.status = t.status /\ u.round = t.round /\ u.pairings = s.pairings
  <2>1. s.format = t.format /\ s.status = t.status /\ s.round = t.round
    BY <1>2 DEF Edited, Fixed
  <2>2. u.status = s.status /\ SamePairings(u, [s EXCEPT !.completed = u.completed])
    BY <1>6, <1>10, <2>1
  <2>3. [s EXCEPT !.completed = u.completed].pairings = s.pairings
        /\ [s EXCEPT !.completed = u.completed].round = s.round
    BY <1>3 DEF WellFormed, TournamentFields
  <2> QED
    BY <2>1, <2>2, <2>3 DEF SamePairings
<1> QED
  BY <1>2, <1>3, <1>6, <1>7, <1>8, <1>9, <1>10 DEF s, u

\* A decision with all that follows it.
LEMMA DecideSound ==
  ASSUME NEW t, Sound(t), NEW id \in OpenPairings(t), NEW w
  PROVE  LET s == Settled(t, id, w)
             u == Decide(t, id, w)
         IN  /\ Sound(u) /\ Evolves(s, u) /\ Evolves(t, u)
             /\ WellFormed(s) /\ Edited(t, s, id) /\ SamePlayers(t.pairings[id], s.pairings[id])
             /\ s.pairings[id].state = "Completed" /\ s.pairings[id].life = SettledLife
             /\ s.pairings[id].winner = w
             /\ u = AdvanceIfRoundComplete(RecordCompletion(s, id))
             /\ u.withdrawn = t.withdrawn
             /\ u.status \in {t.status, "completed"}
<1> DEFINE s == Settled(t, id, w)
           r == RecordCompletion(s, id)
           u == Decide(t, id, w)
<1>1. /\ Sound(r) /\ Evolves(s, r) /\ Evolves(t, r)
      /\ WellFormed(s) /\ Edited(t, s, id) /\ SamePlayers(t.pairings[id], s.pairings[id])
      /\ s.pairings[id].state = "Completed" /\ s.pairings[id].life = SettledLife
      /\ s.pairings[id].winner = w
      /\ r.withdrawn = t.withdrawn
      /\ r.status \in {t.status, "completed"}
  BY RecordSound
<1>2. u = AdvanceIfRoundComplete(r)
  BY DEF Decide, Settled
<1> HIDE DEF s, r, u
<1>3. /\ Sound(u) /\ Evolves(r, u)
      /\ u.withdrawn = r.withdrawn /\ u.status \in {r.status, "completed"}
  BY <1>1, <1>2, AdvanceSound
<1>4. Evolves(s, u) /\ Evolves(t, u)
  BY <1>1, <1>3, EvolvesTransitive
<1> QED
  BY <1>1, <1>2, <1>3, <1>4 DEF s, r, u

\* The first of the matches that are left is one of them.
LEMMA FirstLeft ==
  ASSUME NEW t, NEW s, Sound(s), Evolves(t, s), NEW e, Left(s, Theirs(t, e)) # {}
  PROVE  LET x == First(Left(s, Theirs(t, e)))
         IN  x \in Theirs(t, e) /\ x \in OpenPairings(s) /\ s.status = "active"
<1> DEFINE left == Left(s, Theirs(t, e))
           x == First(left)
<1>1. \A y \in left : y \in Theirs(t, e) /\ y \in OpenPairings(s) /\ s.status = "active"
  BY DEF Left, Theirs, OpenPairings, Evolves
<1> HIDE DEF left
<1>2. \A y \in left : y[2] \in Nat
  BY <1>1 DEF OpenPairings, Sound, Basic, Numbered
<1>3. x \in left
  BY <1>2, FirstIsIn DEF left
<1> QED
  BY <1>1, <1>3 DEF left

\* A forfeit with all that follows it.
LEMMA ForfeitSound ==
  ASSUME NEW t, Sound(t), NEW id \in OpenPairings(t)
  PROVE  LET s == Settled(t, id, ForfeitWinner(t, t.pairings[id]))
             u == Forfeit(t, id)
         IN  /\ Sound(u) /\ Evolves(s, u) /\ Evolves(t, u)
             /\ Edited(t, s, id) /\ SamePlayers(t.pairings[id], s.pairings[id])
             /\ s.pairings[id].state = "Completed"
             /\ u.current = t.current /\ u.withdrawn = t.withdrawn
             /\ u.status \in {t.status, "completed"}
             /\ t.format \in RoundFormats =>
                  u.status = t.status /\ u.round = t.round /\ u.pairings = s.pairings
<1> DEFINE w == ForfeitWinner(t, t.pairings[id])
           s == Settled(t, id, w)
           u == Forfeit(t, id)
<1>1. u = RecordCompletion(s, id)
  BY ForfeitedIsSettled DEF Forfeit
<1> HIDE DEF u, w
<1>2. /\ Sound(u) /\ Evolves(s, u) /\ Evolves(t, u)
      /\ Edited(t, s, id) /\ SamePlayers(t.pairings[id], s.pairings[id])
      /\ s.pairings[id].state = "Completed"
      /\ u.current = t.current /\ u.withdrawn = t.withdrawn
      /\ u.status \in {t.status, "completed"}
      /\ t.format \in RoundFormats =>
           u.status = t.status /\ u.round = t.round /\ u.pairings = s.pairings
  BY <1>1, RecordSound
<1> QED
  BY <1>2 DEF u, w

\* Marking a player as withdrawn touches nothing else.
LEMMA WithdrawnFields ==
  ASSUME NEW t, Sound(t), NEW e
  PROVE  LET s == [t EXCEPT !.withdrawn = @ \cup {e}]
         IN  /\ Sound(s) /\ Evolves(t, s)
             /\ s.pairings = t.pairings /\ s.status = t.status /\ s.current = t.current
             /\ s.round = t.round /\ s.withdrawn = t.withdrawn \cup {e} /\ s.ranks = t.ranks
<1> DEFINE s == [t EXCEPT !.withdrawn = @ \cup {e}]
<1>1. /\ DOMAIN s = TournamentFields /\ Fixed(t, s)
      /\ s.pairings = t.pairings /\ s.status = t.status /\ s.current = t.current
      /\ s.round = t.round /\ s.withdrawn = t.withdrawn \cup {e} /\ s.completed = t.completed
      /\ s.ranks = t.ranks
  BY DEF Sound, Basic, WellFormed, TournamentFields, Fixed
<1> HIDE DEF s
<1>2. WellFormed(s)
  BY <1>1 DEF Sound, Basic, WellFormed, Fixed
<1>3. Registered(s)
  BY <1>1 DEF Sound, Basic, Registered, Fixed
<1>4. Numbered(s)
  BY <1>1, NumberedSame DEF Sound, Basic, Fixed
<1>5. Counted(s)
  BY <1>1 DEF Sound, Counted, Decided
<1>6. Evolves(t, s)
  BY <1>1 DEF Evolves
<1>7. Sound(s)
  BY <1>1, <1>2, <1>3, <1>4, <1>5, <1>6, SlottedEvolves DEF Sound, Basic
<1> QED
  BY <1>1, <1>6, <1>7 DEF s

\* A player has finitely many open pairings.
LEMMA TheirsAreFinite ==
  ASSUME NEW t, Sound(t), NEW e
  PROVE  IsFiniteSet(Theirs(t, e)) /\ Cardinality(Theirs(t, e)) \in Nat
<1>1. Theirs(t, e) \subseteq DOMAIN t.pairings
  BY DEF Theirs, OpenPairings
<1>2. IsFiniteSet(Theirs(t, e))
  BY <1>1, FS_Subset DEF Sound, Basic, WellFormed
<1> QED
  BY <1>2, FS_CardinalityType

\* The withdrawal, match by match.
LEMMA WithdrawalSound ==
  ASSUME NEW t, Sound(t), NEW e, NEW n \in Nat, n = Cardinality(Theirs(t, e)),
         NEW g, Withdrawn(g, t, e, n)
  PROVE  \A i \in 0..n :
           /\ Sound(g[i]) /\ Evolves(t, g[i])
           /\ g[i].withdrawn = t.withdrawn \cup {e}
           /\ g[i].status \in {t.status, "completed"}
<1> DEFINE Kept(v) == /\ Sound(v) /\ Evolves(t, v)
                      /\ v.withdrawn = t.withdrawn \cup {e}
                      /\ v.status \in {t.status, "completed"}
           S == {i \in 0..n : Kept(g[i])}
<1>1. 0 \in S
  <2> DEFINE v == [t EXCEPT !.withdrawn = @ \cup {e}]
  <2>1. g[0] = v
    BY DEF Withdrawn
  <2>2. /\ Sound(v) /\ Evolves(t, v) /\ v.status = t.status /\ v.withdrawn = t.withdrawn \cup {e}
    BY WithdrawnFields
  <2> HIDE DEF v
  <2>3. Kept(g[0])
    BY <2>1, <2>2
  <2> HIDE DEF Kept
  <2> QED
    BY <2>3
<1>2. ASSUME NEW i \in 1..n, i - 1 \in S
      PROVE  i \in S
  <2> DEFINE s == g[i - 1]
             v == g[i]
             left == Left(s, Theirs(t, e))
  <2>1. v = IF left = {} THEN s ELSE Forfeit(s, First(left))
    BY DEF Withdrawn
  <2>2. Kept(s)
    BY <1>2
  <2>3. i \in 0..n
    OBVIOUS
  <2> HIDE DEF s, v
  <2>4. Kept(v)
    <3>1. CASE left = {}
      BY <2>1, <2>2, <3>1
    <3>2. CASE left # {}
      <4>1. v = Forfeit(s, First(left)) /\ First(left) \in OpenPairings(s)
        BY <2>1, <2>2, <3>2, FirstLeft
      <4> HIDE DEF left
      <4>2. /\ Sound(v) /\ Evolves(s, v) /\ v.withdrawn = s.withdrawn
            /\ v.status \in {s.status, "completed"}
        BY <2>2, <4>1, ForfeitSound
      <4>3. Evolves(t, v)
        BY <2>2, <4>2, EvolvesTransitive
      <4> QED
        BY <2>2, <4>2, <4>3
    <3> QED
      BY <3>1, <3>2
  <2> HIDE DEF Kept
  <2> QED
    BY <2>3, <2>4 DEF v
<1>3. \A i \in 0..n : i \in S
  <2> HIDE DEF S
  <2> QED
    BY <1>1, <1>2, BoundedInduction
<1> QED
  BY <1>3

\* A withdrawal with all that follows it.
LEMMA WithdrawSound ==
  ASSUME NEW t, Sound(t), NEW e
  PROVE  LET u == WithdrawPlayer(t, e)
         IN  /\ Sound(u) /\ Evolves(t, u) /\ u.withdrawn = t.withdrawn \cup {e}
             /\ u.status \in {t.status, "completed"}
<1> DEFINE n == Cardinality(Theirs(t, e))
           u == WithdrawPlayer(t, e)
<1>1. n \in Nat
  BY TheirsAreFinite
<1>2. PICK g : Withdrawn(g, t, e, n)
  <2>1. \A k \in Nat : k = n => \E g : Withdrawn(g, t, e, k)
    BY WithdrawalRuns
  <2> HIDE DEF n
  <2> QED
    BY <1>1, <2>1
<1> DEFINE s == g[n]
<1>3. /\ Sound(s) /\ Evolves(t, s) /\ s.withdrawn = t.withdrawn \cup {e}
      /\ s.status \in {t.status, "completed"}
  <2>1. \A k \in Nat : k = n => \A i \in 0..k :
           /\ Sound(g[i]) /\ Evolves(t, g[i])
           /\ g[i].withdrawn = t.withdrawn \cup {e}
           /\ g[i].status \in {t.status, "completed"}
    BY <1>2, WithdrawalSound
  <2> HIDE DEF n
  <2> QED
    BY <1>1, <2>1
<1>4. u = AdvanceIfRoundComplete(s)
  BY <1>2 DEF Withdrawn
<1> HIDE DEF s, u
<1>5. /\ Sound(u) /\ Evolves(s, u)
      /\ u.withdrawn = s.withdrawn /\ u.status \in {s.status, "completed"}
  BY <1>3, <1>4, AdvanceSound
<1>6. Evolves(t, u)
  BY <1>3, <1>5, EvolvesTransitive
<1> QED
  BY <1>3, <1>5, <1>6 DEF u

-----------------------------------------------------------------------------
(* From draft to start, and cancelling.                                    *)

\* The same match, whether or not it was a no-show.
SameSeats(p, q) == q.player1 = p.player1 /\ q.player2 = p.player2 /\ q.round = p.round

\* A tournament that has no pairing yet.
LEMMA DraftFields ==
  ASSUME NEW t, Sound(t), t.status = "draft"
  PROVE  /\ DOMAIN t.pairings = {} /\ t.current = {} /\ OpenPairings(t) = {}
         /\ Registered(t) /\ WellFormed(t) /\ Decided(t) = {} /\ t.completed = SetToBag({})
BY DEF Sound, Basic, OpenPairings, Decided, Counted

\* A tournament without pairings is sound by its registrations.
LEMMA DraftSound ==
  ASSUME NEW u, WellFormed(u), Registered(u), DOMAIN u.pairings = {}, u.current = {},
         u.completed = SetToBag({})
  PROVE  Sound(u) /\ Basic(u) /\ Counted(u)
<1>1. Basic(u)
  BY DEF Basic, Numbered
<1>2. Decided(u) = {}
  BY DEF Decided
<1> QED
  BY <1>1, <1>2 DEF Sound, Counted

\* A new tournament is sound, and in draft.
LEMMA NewTournamentSound ==
  ASSUME NEW format \in Formats
  PROVE  LET u == NewTournament(format)
         IN  /\ Sound(u) /\ u.format = format /\ u.status = "draft" /\ u.withdrawn = {}
<1> DEFINE u == NewTournament(format)
<1>1. /\ DOMAIN u = TournamentFields
      /\ u.format = format /\ u.status = "draft" /\ u.withdrawn = {}
      /\ u.entries = <<>> /\ u.nextEntry = 1 /\ u.round = 0 /\ u.current = {}
      /\ u.pairings = <<>> /\ u.completed = EmptyBag
  BY DEF NewTournament, TournamentFields
<1>2. EmptyBag = SetToBag({})
  BY DEF EmptyBag
<1> HIDE DEF u
<1>3. DOMAIN u.pairings = {} /\ u.pairings = [id \in DOMAIN u.pairings |-> u.pairings[id]]
  BY <1>1
<1>4. WellFormed(u)
  BY <1>1, <1>3, FS_EmptySet DEF WellFormed
<1>5. Registered(u)
  BY <1>1 DEF Registered, Injective
<1>6. Sound(u)
  BY <1>1, <1>2, <1>3, <1>4, <1>5, DraftSound
<1> QED
  BY <1>1, <1>6 DEF u

\* Entries come,
LEMMA RegisterSound ==
  ASSUME NEW t, Sound(t), t.status = "draft"
  PROVE  LET u == [t EXCEPT !.entries = Append(@, t.nextEntry), !.nextEntry = @ + 1]
         IN  /\ Sound(u) /\ u.format = t.format /\ u.pairings = t.pairings /\ u.status = t.status
             /\ u.withdrawn = t.withdrawn
<1> DEFINE u == [t EXCEPT !.entries = Append(@, t.nextEntry), !.nextEntry = @ + 1]
           n == Len(t.entries)
<1>1. /\ DOMAIN t.pairings = {} /\ t.current = {}
      /\ Registered(t) /\ WellFormed(t) /\ t.completed = SetToBag({})
  BY DraftFields
<1>2. /\ DOMAIN u = TournamentFields
      /\ u.format = t.format /\ u.status = t.status /\ u.withdrawn = t.withdrawn
      /\ u.entries = Append(t.entries, t.nextEntry) /\ u.nextEntry = t.nextEntry + 1
      /\ u.round = t.round /\ u.current = t.current
      /\ u.pairings = t.pairings /\ u.completed = t.completed
  BY <1>1 DEF WellFormed, TournamentFields
<1> HIDE DEF u
<1>3. WellFormed(u)
  BY <1>1, <1>2 DEF WellFormed
<1>4. Registered(u)
  <2>1. /\ t.entries \in Seq(Nat) /\ t.nextEntry \in Nat /\ n \in Nat
        /\ \A i \in 1..n : t.entries[i] < t.nextEntry
        /\ \A i, j \in 1..n : t.entries[i] = t.entries[j] => i = j
    BY <1>1 DEF Registered, Injective
  <2>2. /\ u.entries \in Seq(Nat) /\ u.nextEntry \in Nat /\ Len(u.entries) = n + 1
        /\ \A i \in 1..n : u.entries[i] = t.entries[i]
        /\ u.entries[n + 1] = t.nextEntry
    BY <1>2, <2>1
  <2> HIDE DEF n
  <2>3. \A i \in 1..n : t.entries[i] \in Nat
    BY <2>1 DEF n
  <2>4. \A i \in 1..(n + 1) : i \in 1..n \/ i = n + 1
    BY <2>1
  <2>5. \A i \in 1..(n + 1) : u.entries[i] < u.nextEntry
    BY <1>2, <2>1, <2>2, <2>3, <2>4
  <2>6. \A i, j \in 1..(n + 1) : u.entries[i] = u.entries[j] => i = j
    BY <2>1, <2>2, <2>3, <2>4
  <2> QED
    BY <2>2, <2>5, <2>6 DEF Registered, Injective
<1>5. Sound(u)
  BY <1>1, <1>2, <1>3, <1>4, DraftSound
<1> QED
  BY <1>2, <1>5 DEF u

\* and go while the tournament is in draft.
LEMMA UnregisterSound ==
  ASSUME NEW t, Sound(t), t.status = "draft", NEW e
  PROVE  LET u == [t EXCEPT !.entries = Without(@, {e})]
         IN  /\ Sound(u) /\ u.format = t.format /\ u.pairings = t.pairings /\ u.status = t.status
             /\ u.withdrawn = t.withdrawn
<1> DEFINE u == [t EXCEPT !.entries = Without(@, {e})]
           E == t.entries
           F == Without(E, {e})
<1>1. /\ DOMAIN t.pairings = {} /\ t.current = {}
      /\ Registered(t) /\ WellFormed(t) /\ t.completed = SetToBag({})
  BY DraftFields
<1>2. /\ DOMAIN u = TournamentFields
      /\ u.format = t.format /\ u.status = t.status /\ u.withdrawn = t.withdrawn
      /\ u.entries = F /\ u.nextEntry = t.nextEntry
      /\ u.round = t.round /\ u.current = t.current
      /\ u.pairings = t.pairings /\ u.completed = t.completed
  BY <1>1 DEF WellFormed, TournamentFields
<1> HIDE DEF u
<1>3. WellFormed(u)
  BY <1>1, <1>2 DEF WellFormed
<1>4. Registered(u)
  <2>1. /\ E \in Seq(Nat) /\ t.nextEntry \in Nat /\ Len(E) \in Nat
        /\ \A i \in 1..Len(E) : E[i] < t.nextEntry /\ E[i] \in Nat
        /\ \A i, j \in 1..Len(E) : E[i] = E[j] => i = j
    BY <1>1 DEF Registered, Injective
  <2> HIDE DEF E
  <2>2. F \in Seq(Nat) /\ \E at : Embeds(at, F, E)
    BY <2>1, WithoutEmbeds
  <2>3. PICK at : Embeds(at, F, E)
    BY <2>2
  <2> HIDE DEF F
  <2>4. /\ \A k \in 1..Len(F) : at[k] \in 1..Len(E) /\ F[k] = E[at[k]]
        /\ \A k, l \in 1..Len(F) : k < l => at[k] < at[l]
    BY <2>3 DEF Embeds
  <2>5. ASSUME NEW k \in 1..Len(F), NEW l \in 1..Len(F), F[k] = F[l]
        PROVE  k = l
    <3>0. /\ at[k] \in 1..Len(E) /\ at[l] \in 1..Len(E)
          /\ E[at[k]] = E[at[l]]
      BY <2>4, <2>5
    <3>1. at[k] = at[l] /\ at[k] \in Nat
      BY <2>1, <3>0
    <3>2. ~(k < l) /\ ~(l < k) /\ k \in Nat /\ l \in Nat
      BY <2>2, <2>4, <3>1
    <3> QED
      BY <3>2
  <2>6. \A k \in 1..Len(F) : F[k] < t.nextEntry
    BY <2>1, <2>4
  <2> QED
    BY <1>2, <2>1, <2>2, <2>5, <2>6 DEF Registered, Injective
<1>5. Sound(u)
  BY <1>1, <1>2, <1>3, <1>4, DraftSound
<1> QED
  BY <1>2, <1>5 DEF u

\* What a cancellation does to the pairings.
Closed(t, u) ==
  /\ Fixed(t, u) /\ u.withdrawn = t.withdrawn /\ u.ranks = t.ranks /\ u.closings = t.closings
  /\ u.round = t.round /\ u.current = t.current
  /\ DOMAIN u.pairings = DOMAIN t.pairings
  /\ \A id \in DOMAIN t.pairings :
       IF IsOpen(t, id)
       THEN /\ SamePlayers(t.pairings[id], u.pairings[id])
            /\ u.pairings[id].state = "Cancelled" /\ u.pairings[id].life = SettledLife
       ELSE u.pairings[id] = t.pairings[id]

\* A cancelled tournament has no open pairing and is sound.
LEMMA CancelSound ==
  ASSUME NEW t, Sound(t)
  PROVE  LET u == CancelTournament(t)
         IN  Sound(u) /\ Closed(t, u) /\ u.status = "cancelled"
<1> DEFINE u == CancelTournament(t)
           shut(p) == [[p EXCEPT !.state = "Cancelled"] EXCEPT !.life = SettledLife]
           P == [id \in DOMAIN t.pairings |->
                   IF IsOpen(t, id) THEN shut(t.pairings[id]) ELSE t.pairings[id]]
<1>1. WellFormed(t)
  BY DEF Sound, Basic
<1>2. u = [t EXCEPT !.status = "cancelled", !.pairings = P]
  BY <1>1 DEF CancelTournament, WellFormed, TournamentFields
<1>3. ASSUME NEW p, DOMAIN p = PairingFields
      PROVE  /\ DOMAIN shut(p) = PairingFields /\ SamePlayers(p, shut(p))
             /\ shut(p).state = "Cancelled" /\ shut(p).life = SettledLife
  BY <1>3 DEF PairingFields, SamePlayers
<1>4. /\ DOMAIN P = DOMAIN t.pairings
      /\ \A id \in DOMAIN t.pairings :
           P[id] = IF IsOpen(t, id) THEN shut(t.pairings[id]) ELSE t.pairings[id]
      /\ P = [id \in DOMAIN P |-> P[id]]
  OBVIOUS
<1> HIDE DEF P, shut
<1>5. /\ DOMAIN u = TournamentFields /\ Fixed(t, u) /\ u.status = "cancelled" /\ u.pairings = P
      /\ u.withdrawn = t.withdrawn /\ u.ranks = t.ranks /\ u.closings = t.closings
      /\ u.round = t.round /\ u.current = t.current /\ u.completed = t.completed
  BY <1>1, <1>2 DEF WellFormed, TournamentFields, Fixed
<1> HIDE DEF u
<1>6. \A id \in DOMAIN t.pairings : DOMAIN t.pairings[id] = PairingFields
  BY <1>1 DEF WellFormed
<1>7. Closed(t, u)
  BY <1>3, <1>4, <1>5, <1>6 DEF Closed
<1>8. WellFormed(u)
  <2>1. \A id \in DOMAIN P : DOMAIN P[id] = PairingFields
    BY <1>3, <1>4, <1>6
  <2> QED
    BY <1>1, <1>4, <1>5, <2>1 DEF WellFormed, Fixed
<1>9. Registered(u)
  BY <1>5 DEF Sound, Basic, Registered, Fixed
<1>10. "DoubleNoShow" \in Terminal /\ "Completed" \in Terminal
  BY DEF Terminal
<1>11. Numbered(u)
  <2>1. Numbered(t) /\ u.format = t.format
    BY <1>5 DEF Sound, Basic, Fixed
  <2>2. \A id \in DOMAIN t.pairings :
          /\ u.pairings[id].round = t.pairings[id].round
          /\ t.pairings[id].state = "DoubleNoShow" => u.pairings[id].state = "DoubleNoShow"
    BY <1>7, <1>10 DEF Closed, SamePlayers, IsOpen
  <2>3. DOMAIN u.pairings = DOMAIN t.pairings /\ u.round = t.round
    BY <1>7 DEF Closed
  <2> QED
    BY <2>1, <2>2, <2>3 DEF Numbered
<1>12. Decided(u) = Decided(t)
  <2>1. \A id \in DOMAIN t.pairings :
          u.pairings[id].state = "Completed" <=> t.pairings[id].state = "Completed"
    BY <1>7, <1>10 DEF Closed, IsOpen
  <2> QED
    BY <1>7, <2>1 DEF Decided, Closed
<1>13. Counted(u)
  BY <1>5, <1>12 DEF Sound, Counted
<1>14. Started(t) => Started(u)
  BY <1>5 DEF Started, Slotted, Fixed
<1>15. Sound(u)
  BY <1>5, <1>7, <1>8, <1>9, <1>11, <1>13, <1>14 DEF Sound, Basic, Closed
<1> QED
  BY <1>5, <1>7, <1>15 DEF u

\* The draw of the first round.
FirstPairs(t) ==
  IF t.format = "swiss"
  THEN GenerateNextRound([i \in DOMAIN t.entries |->
         [id |-> t.entries[i], score |-> 0, opponents |-> {}, hadBye |-> FALSE]])
  ELSE GenerateAllRounds(t.entries)[1]

\* The first round seats everybody once.
LEMMA FirstPairsSeatOnce ==
  ASSUME NEW t, Registered(t), t.format \in RoundFormats, Len(t.entries) >= 2
  PROVE  SeatsOnce(FirstPairs(t), Range(t.entries))
<1> DEFINE E == t.entries
           n == Len(E)
           R == [id : Nat, score : {0}, opponents : {{}}, hadBye : {FALSE}]
           rows == [i \in DOMAIN E |->
                      [id |-> E[i], score |-> 0, opponents |-> {}, hadBye |-> FALSE]]
<1>1. /\ E \in Seq(Nat) /\ n \in Nat /\ DOMAIN E = 1..n
      /\ \A i \in 1..n : E[i] \in Nat
      /\ \A i, j \in 1..n : E[i] = E[j] => i = j
  BY DEF Registered, Injective
<1>2. Nobody \notin Range(E)
  BY EntriesAreSeated
<1> HIDE DEF E
<1>3. CASE t.format = "swiss"
  <2>1. rows \in Seq(R) /\ Len(rows) = n
    BY <1>1
  <2>2. \A i \in 1..n : rows[i].id = E[i] /\ rows[i].score \in Int
    BY <1>1
  <2>3. FirstPairs(t) = GenerateNextRound(rows)
    BY <1>3 DEF FirstPairs, E
  <2> HIDE DEF rows, R, n
  <2>4. DistinctIds(rows)
    BY <1>1, <2>1, <2>2 DEF DistinctIds
  <2>5. \A e : e \in Ids(rows) <=> \E i \in 1..n : E[i] = e
    BY <2>1, <2>2 DEF Ids
  <2>6. \A e : e \in Range(E) <=> \E i \in 1..n : E[i] = e
    BY <1>1 DEF Range
  <2>7. Ids(rows) = Range(E)
    BY <2>5, <2>6
  <2>8. SeatsOnce(GenerateNextRound(rows), Ids(rows))
    BY <1>2, <2>1, <2>2, <2>4, <2>7, SwissRoundSeatsOnce
  <2> QED
    BY <2>3, <2>7, <2>8 DEF E
<1>4. CASE t.format = "round_robin"
  <2> DEFINE all == GenerateAllRounds(t.entries)
  <2>1. RoundRobin(all, Range(t.entries))
    BY RoundRobinOf
  <2>2. FirstPairs(t) = all[1]
    BY <1>4 DEF FirstPairs
  <2> HIDE DEF all
  <2>3. 1 \in 1..Len(all)
    BY <2>1 DEF RoundRobin
  <2> QED
    BY <2>1, <2>2, <2>3 DEF RoundRobin
<1> QED
  BY <1>3, <1>4 DEF RoundFormats

\* The tournament that was just declared active.
Activated(t, s) ==
  /\ Basic(s) /\ Counted(s)
  /\ s.format = t.format /\ s.entries = t.entries /\ s.withdrawn = t.withdrawn
  /\ s.status = "active" /\ DOMAIN s.pairings = {} /\ s.current = {}
  /\ s.round = IF t.format = "swiss" THEN 1 ELSE 0

\* What the start does to a tournament of rounds,
LEMMA StartRoundsSound ==
  ASSUME NEW t, Sound(t), t.status = "draft", Len(t.entries) >= 2, t.format \in RoundFormats
  PROVE  \E s, v : /\ Activated(t, s)
                   /\ Sound(v) /\ Evolves(s, v) /\ Materialized(s, v, FirstPairs(t))
                   /\ StartTournament(t) = AdvanceIfRoundComplete(v)
<1> DEFINE s == [t EXCEPT !.status = "active", !.round = IF t.format = "swiss" THEN 1 ELSE 0]
           pairs == FirstPairs(t)
           v == MaterializeRound(s, pairs)
<1>1. /\ DOMAIN t.pairings = {} /\ t.current = {}
      /\ Registered(t) /\ WellFormed(t) /\ t.completed = SetToBag({})
  BY DraftFields
<1>2. /\ DOMAIN s = TournamentFields
      /\ s.format = t.format /\ s.entries = t.entries /\ s.withdrawn = t.withdrawn
      /\ s.nextEntry = t.nextEntry /\ s.completed = t.completed
      /\ s.status = "active" /\ s.pairings = t.pairings /\ s.current = t.current
      /\ s.round = IF t.format = "swiss" THEN 1 ELSE 0
  BY <1>1 DEF WellFormed, TournamentFields
<1>3. t.format # "double_elim"
  BY DEF RoundFormats
<1>4. StartTournament(t) = AdvanceIfRoundComplete(v)
  BY <1>3 DEF StartTournament, FirstPairs
<1> HIDE DEF s, v, pairs
<1>5. WellFormed(s) /\ Registered(s)
  BY <1>1, <1>2 DEF WellFormed, Registered
<1>6. Basic(s) /\ Counted(s) /\ DOMAIN s.pairings = {} /\ s.current = {}
  BY <1>1, <1>2, <1>5, DraftSound
<1>7. Activated(t, s)
  BY <1>2, <1>6 DEF Activated
<1>8. PICK P : pairs \in Seq(P)
  BY <1>1, FirstPairsSeatOnce DEF SeatsOnce, pairs
<1>9. Basic(v) /\ Counted(v) /\ Evolves(s, v) /\ Materialized(s, v, pairs)
  BY <1>2, <1>6, <1>8, MaterializeKeeps DEF v
<1>10. Sound(v)
  <2>1. v.status = "active" /\ v.format = t.format /\ v.entries = t.entries
    BY <1>2, <1>9 DEF Materialized, Placed, Beside, Fixed
  <2>2. v.current \subseteq DOMAIN v.pairings
    BY <1>9 DEF Materialized, Placed
  <2>3. Started(v)
    BY <1>3, <2>1 DEF Started, Slotted
  <2> QED
    BY <1>9, <2>1, <2>2, <2>3 DEF Sound
<1> QED
  BY <1>4, <1>7, <1>9, <1>10 DEF pairs

\* and what it does to a bracket.
LEMMA StartBracketSound ==
  ASSUME NEW t, Sound(t), t.status = "draft", Len(t.entries) >= 2, t.format = "double_elim"
  PROVE  \E s : /\ Activated(t, s) /\ Evolves(s, StartTournament(t))
                /\ Sound(StartTournament(t))
                /\ StartTournament(t).withdrawn = s.withdrawn
                /\ StartTournament(t).status = "active"
<1> DEFINE bracket == GenerateBracket(t.entries)
           s == [[t EXCEPT !.status = "active", !.round = IF t.format = "swiss" THEN 1 ELSE 0]
                   EXCEPT !.bracket = bracket]
           u == StartTournament(t)
<1>1. /\ DOMAIN t.pairings = {} /\ t.current = {}
      /\ Registered(t) /\ WellFormed(t) /\ t.completed = SetToBag({})
  BY DraftFields
<1>2. u = SyncDoubleElimPairings(s)
  BY DEF StartTournament
<1>3. IsFiniteSet(DOMAIN bracket.slots) /\ \A m \in DOMAIN bracket.slots : m[2] \in Nat
  BY <1>1, BracketIsFinite DEF Registered
<1> HIDE DEF bracket, u
<1>4. /\ DOMAIN s = TournamentFields
      /\ s.format = t.format /\ s.entries = t.entries /\ s.withdrawn = t.withdrawn
      /\ s.nextEntry = t.nextEntry /\ s.completed = t.completed
      /\ s.status = "active" /\ s.pairings = t.pairings /\ s.current = t.current
      /\ s.round = 0 /\ s.bracket = bracket
  BY <1>1 DEF WellFormed, TournamentFields
<1> HIDE DEF s
<1>5. WellFormed(s) /\ Registered(s)
  BY <1>1, <1>4 DEF WellFormed, Registered
<1>6. Basic(s) /\ Counted(s) /\ DOMAIN s.pairings = {} /\ s.current = {}
  BY <1>1, <1>4, <1>5, DraftSound
<1>7. Activated(t, s)
  BY <1>4, <1>6 DEF Activated
<1>8. Slotted(s)
  BY <1>3, <1>4 DEF Slotted
<1>9. /\ Basic(u) /\ Counted(u) /\ Evolves(s, u)
      /\ u.current = s.current /\ u.status = s.status /\ u.withdrawn = s.withdrawn
  BY <1>2, <1>4, <1>6, <1>8, SyncKeeps
<1>10. Sound(u)
  <2>1. Started(u)
    BY <1>4, <1>8, <1>9, SlottedEvolves DEF Started
  <2> QED
    BY <1>4, <1>6, <1>9, <2>1 DEF Sound
<1> QED
  BY <1>4, <1>7, <1>9, <1>10 DEF u

\* A tournament that starts is sound, and its pairings fresh.
LEMMA StartSound ==
  ASSUME NEW t, Sound(t), t.status = "draft", Len(t.entries) >= 2
  PROVE  LET u == StartTournament(t)
         IN  /\ Sound(u) /\ u.format = t.format /\ u.withdrawn = t.withdrawn
             /\ u.status \in {"active", "completed"}
             /\ \A id \in DOMAIN u.pairings : FreshPairing(u.pairings[id])
<1> DEFINE u == StartTournament(t)
<1>1. t.format \in Formats
  BY DEF Sound, Basic, WellFormed
<1>2. \E s : /\ Activated(t, s) /\ Evolves(s, u) /\ Sound(u) /\ u.withdrawn = s.withdrawn
             /\ u.status \in {"active", "completed"}
  <2>1. CASE t.format = "double_elim"
    BY <2>1, StartBracketSound
  <2>2. CASE t.format \in RoundFormats
    <3>1. PICK s, v : /\ Activated(t, s)
                      /\ Sound(v) /\ Evolves(s, v) /\ Materialized(s, v, FirstPairs(t))
                      /\ u = AdvanceIfRoundComplete(v)
      BY <2>2, StartRoundsSound
    <3> HIDE DEF u
    <3>2. /\ Sound(u) /\ Evolves(v, u)
          /\ u.withdrawn = v.withdrawn /\ u.status \in {v.status, "completed"}
      BY <3>1, AdvanceSound
    <3>3. Evolves(s, u)
      BY <3>1, <3>2, EvolvesTransitive
    <3>4. v.withdrawn = s.withdrawn /\ v.status = "active"
      BY <3>1 DEF Materialized, Placed, Beside, Activated
    <3> QED
      BY <3>1, <3>2, <3>3, <3>4
  <2> QED
    BY <1>1, <2>1, <2>2 DEF Formats
<1> HIDE DEF u
<1>3. PICK s : /\ Activated(t, s) /\ Evolves(s, u) /\ Sound(u) /\ u.withdrawn = s.withdrawn
               /\ u.status \in {"active", "completed"}
  BY <1>2
<1>4. DOMAIN s.pairings = {} /\ s.format = t.format /\ s.withdrawn = t.withdrawn
  BY <1>3 DEF Activated
<1>5. u.format = t.format /\ \A id \in DOMAIN u.pairings : FreshPairing(u.pairings[id])
  BY <1>3, <1>4 DEF Evolves, Fixed
<1> QED
  BY <1>3, <1>4, <1>5 DEF u

-----------------------------------------------------------------------------
(* Replays and releases, and the first invariant.                          *)

\* What the organizer, a deadline or a player does to one pairing.
Voided(t, id, life) ==
  [t EXCEPT !.pairings[id].state = "DoubleNoShow",
            !.pairings[id].noShow = @ + 1,
            !.pairings[id].life = life]

Released(t, id, life) ==
  [t EXCEPT !.pairings[id].state = "OrganizerAdjusted",
            !.pairings[id].life = life]

Relived(t, id, life) == [t EXCEPT !.pairings[id].life = life]

\* A no-show of both,
LEMMA VoidedFields ==
  ASSUME NEW t, WellFormed(t), NEW id \in DOMAIN t.pairings, NEW life
  PROVE  LET u == Voided(t, id, life)
         IN  /\ WellFormed(u)
             /\ Edited(t, u, id)
             /\ SameSeats(t.pairings[id], u.pairings[id])
             /\ u.pairings[id].state = "DoubleNoShow" /\ u.pairings[id].life = life
             /\ u.pairings[id].noShow = t.pairings[id].noShow + 1
<1> DEFINE p == t.pairings[id]
           q == [[[p EXCEPT !.state = "DoubleNoShow"] EXCEPT !.noShow = @ + 1]
                    EXCEPT !.life = life]
           u == Voided(t, id, life)
<1>1. DOMAIN p = PairingFields
  BY DEF WellFormed
<1>2. /\ DOMAIN q = PairingFields
      /\ SameSeats(p, q)
      /\ q.state = "DoubleNoShow" /\ q.life = life
      /\ q.noShow = p.noShow + 1
  <2> HIDE DEF p
  <2> QED
    BY <1>1 DEF PairingFields, SameSeats
<1>3. u = [t EXCEPT !.pairings = [t.pairings EXCEPT ![id] = q]]
  <2>1. "noShow" \in DOMAIN p /\ "state" \in DOMAIN p
    BY <1>1 DEF PairingFields
  <2>2. [p EXCEPT !.state = "DoubleNoShow"].noShow = p.noShow
    BY <2>1
  <2> QED
    BY <2>1, <2>2 DEF Voided, WellFormed, TournamentFields
<1> HIDE DEF q, u
<1>4. WellFormed(u) /\ Edited(t, u, id) /\ u.pairings[id] = q
  BY <1>2, <1>3, Edit
<1> QED
  BY <1>2, <1>4 DEF u

\* an adjustment by the organizer,
LEMMA ReleasedFields ==
  ASSUME NEW t, WellFormed(t), NEW id \in DOMAIN t.pairings, NEW life
  PROVE  LET u == Released(t, id, life)
         IN  /\ WellFormed(u)
             /\ Edited(t, u, id)
             /\ SamePlayers(t.pairings[id], u.pairings[id])
             /\ u.pairings[id].state = "OrganizerAdjusted" /\ u.pairings[id].life = life
<1> DEFINE p == t.pairings[id]
           q == [[p EXCEPT !.state = "OrganizerAdjusted"] EXCEPT !.life = life]
           u == Released(t, id, life)
<1>1. DOMAIN p = PairingFields
  BY DEF WellFormed
<1>2. /\ DOMAIN q = PairingFields
      /\ SamePlayers(p, q)
      /\ q.state = "OrganizerAdjusted" /\ q.life = life
  <2> HIDE DEF p
  <2> QED
    BY <1>1 DEF PairingFields, SamePlayers
<1>3. u = [t EXCEPT !.pairings = [t.pairings EXCEPT ![id] = q]]
  BY DEF Released, WellFormed, TournamentFields
<1> HIDE DEF q, u
<1>4. WellFormed(u) /\ Edited(t, u, id) /\ u.pairings[id] = q
  BY <1>2, <1>3, Edit
<1> QED
  BY <1>2, <1>4 DEF u

\* and an appointment change the one pairing.
LEMMA RelivedFields ==
  ASSUME NEW t, WellFormed(t), NEW id \in DOMAIN t.pairings, NEW life
  PROVE  LET u == Relived(t, id, life)
         IN  /\ WellFormed(u)
             /\ Edited(t, u, id)
             /\ SamePlayers(t.pairings[id], u.pairings[id])
             /\ u.pairings[id].state = t.pairings[id].state /\ u.pairings[id].life = life
<1> DEFINE p == t.pairings[id]
           q == [p EXCEPT !.life = life]
           u == Relived(t, id, life)
<1>1. DOMAIN p = PairingFields
  BY DEF WellFormed
<1>2. /\ DOMAIN q = PairingFields
      /\ SamePlayers(p, q)
      /\ q.state = p.state /\ q.life = life
  <2> HIDE DEF p
  <2> QED
    BY <1>1 DEF PairingFields, SamePlayers
<1>3. u = [t EXCEPT !.pairings = [t.pairings EXCEPT ![id] = q]]
  BY DEF Relived, WellFormed, TournamentFields
<1> HIDE DEF q, u
<1>4. WellFormed(u) /\ Edited(t, u, id) /\ u.pairings[id] = q
  BY <1>2, <1>3, Edit
<1> QED
  BY <1>2, <1>4 DEF u

\* Where the replay of a pairing goes.
ReplayId(s, id) == IF s.format = "double_elim" THEN id ELSE <<id[1], id[2], id[3] + 1>>

\* A pairing is played again: as itself in a bracket, beside itself in rounds.
Replayed(s, u, id) ==
  /\ Beside(s, u) /\ u.completed = s.completed /\ u.results = s.results
  /\ DOMAIN u.pairings = DOMAIN s.pairings \cup {ReplayId(s, id)}
  /\ \A x \in DOMAIN s.pairings : x # ReplayId(s, id) => u.pairings[x] = s.pairings[x]
  /\ u.current = IF s.format = "double_elim" THEN s.current
                 ELSE (s.current \ {id}) \cup {ReplayId(s, id)}
  /\ LET q == u.pairings[ReplayId(s, id)]
     IN  /\ SamePlayers(s.pairings[id], q)
         /\ q.state = "Open" /\ q.winner = Nobody /\ q.life = NewLife

\* That is what _createReplayPairing does.
LEMMA ReplayFields ==
  ASSUME NEW s, WellFormed(s), NEW id \in DOMAIN s.pairings
  PROVE  LET u == Replay(s, id)
         IN  WellFormed(u) /\ Replayed(s, u, id)
<1> DEFINE p == s.pairings[id]
           fresh == [[[p EXCEPT !.state = "Open"] EXCEPT !.winner = Nobody] EXCEPT !.life = NewLife]
           u == Replay(s, id)
<1>1. DOMAIN p = PairingFields
  BY DEF WellFormed
<1>2. /\ DOMAIN fresh = PairingFields
      /\ SamePlayers(p, fresh)
      /\ fresh.state = "Open" /\ fresh.winner = Nobody /\ fresh.life = NewLife
  <2> HIDE DEF p
  <2> QED
    BY <1>1 DEF PairingFields, SamePlayers
<1>3. CASE s.format = "double_elim"
  <2>1. u = [s EXCEPT !.pairings = [s.pairings EXCEPT ![id] = fresh]]
    BY <1>3 DEF Replay, WellFormed, TournamentFields
  <2> HIDE DEF fresh, u
  <2>2. WellFormed(u) /\ Edited(s, u, id) /\ u.pairings[id] = fresh
    BY <1>2, <2>1, Edit
  <2>3. Replayed(s, u, id)
    BY <1>2, <1>3, <2>2 DEF Replayed, ReplayId, Edited, Beside
  <2> QED
    BY <2>2, <2>3 DEF u
<1>4. CASE s.format # "double_elim"
  <2> DEFINE new == <<id[1], id[2], id[3] + 1>>
  <2>1. u = [s EXCEPT !.pairings = With(s.pairings, new, fresh),
                      !.current = (s.current \ {id}) \cup {new}]
    BY <1>4 DEF Replay, WellFormed, TournamentFields
  <2>2. ReplayId(s, id) = new
    BY <1>4 DEF ReplayId
  <2> HIDE DEF fresh, u, new
  <2>3. /\ DOMAIN u = TournamentFields /\ Beside(s, u) /\ Fixed(s, u)
        /\ u.completed = s.completed /\ u.results = s.results
        /\ u.pairings = With(s.pairings, new, fresh)
        /\ u.current = (s.current \ {id}) \cup {new}
        /\ u.round = s.round
    BY <2>1 DEF WellFormed, TournamentFields, Fixed, Beside
  <2>4. With(s.pairings, new, fresh)
          = [y \in DOMAIN s.pairings \cup {new} |-> IF y = new THEN fresh ELSE s.pairings[y]]
    BY TabulatedIsIt DEF With
  <2>5. /\ DOMAIN u.pairings = DOMAIN s.pairings \cup {new}
        /\ \A x \in DOMAIN s.pairings : x # new => u.pairings[x] = s.pairings[x]
        /\ u.pairings[new] = fresh
        /\ u.pairings = [y \in DOMAIN u.pairings |-> u.pairings[y]]
    BY <2>3, <2>4
  <2>6. WellFormed(u)
    <3>1. IsFiniteSet(DOMAIN u.pairings)
      BY <2>5, FS_AddElement DEF WellFormed
    <3> QED
      BY <1>2, <2>3, <2>5, <3>1 DEF WellFormed, Fixed
  <2>7. Replayed(s, u, id)
    BY <1>2, <1>4, <2>2, <2>3, <2>5 DEF Replayed
  <2> QED
    BY <2>6, <2>7 DEF u
<1> QED
  BY <1>3, <1>4

\* An open pairing was given up for its replay.
LEMMA ReplaySound ==
  ASSUME NEW t, Sound(t), NEW id \in OpenPairings(t),
         NEW v, WellFormed(v), Edited(t, v, id), SameSeats(t.pairings[id], v.pairings[id]),
         t.format # "double_elim" => v.pairings[id].state = "DoubleNoShow"
  PROVE  LET u == Replay(v, id)
         IN  /\ Sound(u) /\ WellFormed(u) /\ Replayed(v, u, id)
             /\ t.format # "double_elim" => ReplayId(v, id) \notin DOMAIN t.pairings
<1> DEFINE u == Replay(v, id)
           new == ReplayId(v, id)
<1>1. id \in DOMAIN t.pairings /\ IsOpen(t, id)
  BY DEF OpenPairings
<1>2. /\ DOMAIN v.pairings = DOMAIN t.pairings /\ Fixed(t, v) /\ v.format = t.format
      /\ v.status = t.status /\ v.current = t.current /\ v.round = t.round
      /\ v.completed = t.completed /\ v.withdrawn = t.withdrawn
      /\ \A x \in DOMAIN t.pairings : x # id => v.pairings[x] = t.pairings[x]
  BY DEF Edited, Fixed
<1>3. WellFormed(u) /\ Replayed(v, u, id)
  BY <1>1, <1>2, ReplayFields
<1>4. t.pairings[id].state # "Completed" /\ t.pairings[id].state # "DoubleNoShow"
  BY <1>1 DEF IsOpen, Terminal
<1> HIDE DEF u
<1>5. CASE t.format = "double_elim"
  <2>1. new = id
    BY <1>2, <1>5 DEF ReplayId
  <2>2. Edited(t, u, id)
    <3>1. Edited(v, u, id)
      BY <1>1, <1>2, <1>3, <1>5, <2>1 DEF Replayed, Beside, Edited
    <3> QED
      BY <3>1 DEF Edited, Fixed
  <2>3. SamePlayers(v.pairings[id], u.pairings[id]) /\ u.pairings[id].state = "Open"
    BY <1>3, <2>1 DEF Replayed
  <2>4. u.pairings[id].round = t.pairings[id].round /\ u.pairings[id].state # "Completed"
    BY <2>3 DEF SamePlayers, SameSeats
  <2>5. Sound(u)
    BY <1>3, <2>2, <2>4, EditedSound
  <2> QED
    BY <1>3, <1>5, <2>5 DEF u
<1>6. CASE t.format # "double_elim"
  <2>1. t.format \in RoundFormats
    BY <1>6 DEF Sound, Basic, WellFormed, Formats
  <2>2. new = <<id[1], id[2], id[3] + 1>>
    BY <1>2, <1>6 DEF ReplayId
  <2>3. /\ id[2] \in Nat /\ id = <<id[1], id[2], id[3]>> /\ id[1] \in Nat /\ id[3] \in Nat
        /\ id[1] <= t.round /\ t.pairings[id].round = id[1]
    BY <1>1, <2>1 DEF Sound, Basic, Numbered
  <2>4. /\ new[1] = id[1] /\ new[2] = id[2] /\ new[3] = id[3] + 1
        /\ new = <<new[1], new[2], new[3]>> /\ <<new[1], new[2], new[3] - 1>> = id
        /\ new[3] \in Nat /\ new[3] # 0 /\ new # id
    <3> DEFINE a == id[1]
               b == id[2]
               c == id[3]
    <3> HIDE DEF new
    <3>1. new = <<a, b, c + 1>> /\ id = <<a, b, c>> /\ c \in Nat
      BY <2>2, <2>3
    <3> HIDE DEF a, b, c
    <3>2. /\ new[1] = a /\ new[2] = b /\ new[3] = c + 1
          /\ (c + 1) - 1 = c /\ c + 1 # 0 /\ c + 1 \in Nat /\ c + 1 # c
      BY <3>1
    <3>3. new # id
      BY <3>1, <3>2
    <3> QED
      BY <3>1, <3>2, <3>3 DEF a, b, c
  <2> HIDE DEF new
  <2>5. new \notin DOMAIN t.pairings
    BY <1>4, <2>1, <2>4 DEF Sound, Basic, Numbered
  <2>6. /\ Fixed(v, u) /\ u.status = v.status /\ u.round = v.round /\ u.completed = v.completed
        /\ DOMAIN u.pairings = DOMAIN t.pairings \cup {new}
        /\ \A x \in DOMAIN t.pairings : u.pairings[x] = v.pairings[x]
        /\ u.current = (v.current \ {id}) \cup {new}
        /\ SamePlayers(v.pairings[id], u.pairings[new])
        /\ u.pairings[new].state = "Open"
    BY <1>2, <1>3, <1>6, <2>5 DEF Replayed, Beside, new
  <2>7. Fixed(t, u)
    BY <1>2, <2>6 DEF Fixed
  <2>8. Registered(u)
    BY <2>7 DEF Sound, Basic, Registered, Fixed
  <2>9. v.pairings[id].state = "DoubleNoShow"
    BY <1>6
  <2>10. Numbered(u)
    <3> SUFFICES ASSUME NEW x \in DOMAIN u.pairings
                 PROVE  /\ x[2] \in Nat
                        /\ u.format \in RoundFormats =>
                             /\ x = <<x[1], x[2], x[3]>> /\ x[1] \in Nat /\ x[3] \in Nat
                             /\ x[1] <= u.round /\ u.pairings[x].round = x[1]
                             /\ x[3] # 0 =>
                                  /\ <<x[1], x[2], x[3] - 1>> \in DOMAIN u.pairings
                                  /\ u.pairings[<<x[1], x[2], x[3] - 1>>].state = "DoubleNoShow"
      BY DEF Numbered
    <3>1. CASE x = new
      <4>1. u.pairings[new].round = id[1]
        BY <2>3, <2>6 DEF SamePlayers, SameSeats
      <4>2. <<x[1], x[2], x[3] - 1>> = id
        BY <2>4, <3>1
      <4>3. id \in DOMAIN u.pairings /\ u.pairings[id].state = "DoubleNoShow"
        BY <1>1, <2>6, <2>9
      <4>4. x[2] \in Nat /\ x = <<x[1], x[2], x[3]>> /\ x[1] \in Nat /\ x[3] \in Nat
            /\ x[1] <= u.round /\ u.pairings[x].round = x[1]
        BY <1>2, <2>3, <2>4, <2>6, <3>1, <4>1
      <4> QED
        BY <4>2, <4>3, <4>4
    <3>2. CASE x # new
      <4> DEFINE y == <<x[1], x[2], x[3] - 1>>
      <4>1. x \in DOMAIN t.pairings
        BY <2>6, <3>2
      <4>2. /\ x[2] \in Nat
            /\ x = <<x[1], x[2], x[3]>> /\ x[1] \in Nat /\ x[3] \in Nat
            /\ x[1] <= t.round /\ t.pairings[x].round = x[1]
            /\ x[3] # 0 => y \in DOMAIN t.pairings /\ t.pairings[y].state = "DoubleNoShow"
        BY <2>1, <4>1 DEF Sound, Basic, Numbered
      <4> HIDE DEF y
      <4>3. u.pairings[x].round = t.pairings[x].round
        BY <1>2, <2>6, <4>1 DEF SameSeats
      <4>4. x[3] # 0 => y \in DOMAIN u.pairings /\ u.pairings[y].state = "DoubleNoShow"
        BY <1>2, <1>4, <2>6, <4>2
      <4> QED
        BY <1>2, <2>6, <4>2, <4>3, <4>4 DEF y
    <3> QED
      BY <3>1, <3>2
  <2>11. Decided(u) = Decided(t)
    <3>1. \A x \in DOMAIN t.pairings :
            u.pairings[x].state = "Completed" <=> t.pairings[x].state = "Completed"
      BY <1>2, <1>4, <2>6, <2>9
    <3>2. u.pairings[new].state # "Completed"
      BY <2>6
    <3> QED
      BY <2>5, <2>6, <3>1, <3>2 DEF Decided
  <2>12. Counted(u)
    BY <1>2, <2>6, <2>11 DEF Sound, Counted
  <2>13. Started(t) /\ t.status # "draft"
    BY <1>1 DEF Sound
  <2>14. Started(u)
    BY <2>7, <2>13 DEF Started, Slotted, Fixed
  <2>15. u.current \subseteq DOMAIN u.pairings
    BY <1>2, <2>6 DEF Sound
  <2>16. Sound(u)
    BY <1>2, <1>3, <2>6, <2>8, <2>10, <2>12, <2>13, <2>14, <2>15 DEF Sound, Basic
  <2> QED
    BY <1>3, <2>5, <2>16 DEF u, new
<1> QED
  BY <1>5, <1>6

\* A pairing that is released from its round.
LEMMA ReleaseSound ==
  ASSUME NEW t, Sound(t), NEW id \in OpenPairings(t), NEW life
  PROVE  LET s == Released(t, id, life)
             u == AdvanceIfRoundComplete(s)
         IN  /\ Sound(s) /\ Edited(t, s, id) /\ SamePlayers(t.pairings[id], s.pairings[id])
             /\ s.pairings[id].state = "OrganizerAdjusted" /\ s.pairings[id].life = life
             /\ Sound(u) /\ Evolves(s, u)
             /\ u.withdrawn = t.withdrawn /\ u.status \in {t.status, "completed"}
<1> DEFINE s == Released(t, id, life)
<1>1. id \in DOMAIN t.pairings
  BY DEF OpenPairings
<1>2. /\ WellFormed(s) /\ Edited(t, s, id) /\ SamePlayers(t.pairings[id], s.pairings[id])
      /\ s.pairings[id].state = "OrganizerAdjusted" /\ s.pairings[id].life = life
  BY <1>1, ReleasedFields DEF Sound, Basic
<1> HIDE DEF s
<1>3. Sound(s)
  BY <1>2, EditedSound DEF SamePlayers
<1>4. s.withdrawn = t.withdrawn /\ s.status = t.status
  BY <1>2 DEF Edited
<1> QED
  BY <1>2, <1>3, <1>4, AdvanceSound DEF s

-----------------------------------------------------------------------------
\* Open pairings are among the pairings, and open.
LEMMA OpenPairingsAreOpen ==
  ASSUME NEW t, NEW id
  PROVE  id \in OpenPairings(t) <=> id \in DOMAIN t.pairings /\ IsOpen(t, id)
BY DEF OpenPairings

\* Every step keeps a tournament sound, in every format.
LEMMA RoundsStepSound ==
  ASSUME Sound(tournament), [Next]_tournament
  PROVE  Sound(tournament')
<1>1. CASE Register
  BY <1>1, RegisterSound DEF Register
<1>2. ASSUME NEW e \in 1..MaxEntries, Unregister(e)
      PROVE  Sound(tournament')
  BY <1>2, UnregisterSound DEF Unregister
<1>3. ASSUME NEW e \in 1..MaxEntries, Withdraw(e)
      PROVE  Sound(tournament')
  BY <1>3, WithdrawSound DEF Withdraw
<1>4. CASE Start
  BY <1>4, StartSound DEF Start
<1>5. ASSUME NEW id \in DOMAIN tournament.pairings, NEW winner, DecidePairing(id, winner)
      PROVE  Sound(tournament')
  BY <1>5, DecideSound, OpenPairingsAreOpen DEF DecidePairing
<1>6. ASSUME NEW id \in DOMAIN tournament.pairings, VoidPairing(id)
      PROVE  Sound(tournament')
  <2> DEFINE v == Voided(tournament, id, SettledLife)
  <2>1. id \in OpenPairings(tournament) /\ tournament' = Replay(v, id)
    BY <1>6, OpenPairingsAreOpen DEF VoidPairing, Voided
  <2>2. /\ WellFormed(v)
        /\ Edited(tournament, v, id)
        /\ SameSeats(tournament.pairings[id], v.pairings[id])
        /\ v.pairings[id].state = "DoubleNoShow"
    BY VoidedFields DEF Sound, Basic
  <2> HIDE DEF v
  <2> QED
    BY <2>1, <2>2, ReplaySound
<1>7. ASSUME NEW id \in DOMAIN tournament.pairings, ReleasePairing(id)
      PROVE  Sound(tournament')
  <2>1. id \in OpenPairings(tournament)
        /\ tournament' = AdvanceIfRoundComplete(Released(tournament, id, SettledLife))
    BY <1>7, OpenPairingsAreOpen DEF ReleasePairing, Released
  <2> QED
    BY <2>1, ReleaseSound
<1>8. CASE Cancel
  BY <1>8, CancelSound DEF Cancel
<1>9. CASE UNCHANGED tournament
  BY <1>9
<1> QED
  BY <1>1, <1>2, <1>3, <1>4, <1>5, <1>6, <1>7, <1>8, <1>9 DEF Next

\* The invariant of TournamentRounds that every format has.
SoundRounds == Sound(tournament)

\* Every cascade of TournamentRounds leaves a sound tournament: fields,
\* entries, numbering, bracket and the count of the decided pairings.
THEOREM RoundsAreSound == Spec => []SoundRounds
<1>1. Init => SoundRounds
  BY NewTournamentSound DEF Init, SoundRounds
<1>2. SoundRounds /\ [Next]_tournament => SoundRounds'
  BY RoundsStepSound DEF SoundRounds
<1> QED
  BY <1>1, <1>2, PTL DEF Spec

\* Every decided pairing and every bye counts once in the standings and nothing
\* else does, for any number of entries, in every format, however the cascades
\* nest: _recordCompletion with syncDoubleElimPairings and withdrawPlayer.
THEOREM DecisionsCountOnce == Spec => []EveryDecisionCountsOnce
<1>1. SoundRounds => EveryDecisionCountsOnce
  BY DEF SoundRounds, Sound, Counted, Decided, EveryDecisionCountsOnce
<1> QED
  BY <1>1, RoundsAreSound, PTL

-----------------------------------------------------------------------------
(* Fair rounds.                                                            *)

\* The pairings of a round that count: a voided one was played again.
Live(t, id) == t.pairings[id].state # "DoubleNoShow"
\* Who had a bye.
ByeOf(t, id, e) == IsBye(t.pairings[id]) /\ t.pairings[id].player1 = e
HadBye(t, e) == \E id \in DOMAIN t.pairings : ByeOf(t, id, e)

\* Two different players, or one and nobody.
Matched(t) ==
  \A id \in DOMAIN t.pairings :
    /\ t.pairings[id].player1 \in Range(t.entries)
    /\ t.pairings[id].player2 \in Range(t.entries) \cup {Nobody}
    /\ t.pairings[id].player1 # t.pairings[id].player2

\* Nobody has two matches in a round.
SeatedAtMostOnce(t) ==
  \A x, y \in DOMAIN t.pairings : \A e \in Range(t.entries) :
    x[1] = y[1] /\ Live(t, x) /\ Live(t, y)
      /\ e \in Seats(t.pairings[x]) /\ e \in Seats(t.pairings[y]) => x = y

\* Everybody has a match in a round that was paired, but for who had left.
SeatedAtLeastOnce(t) ==
  \A x \in DOMAIN t.pairings : \A e \in Range(t.entries) :
    \/ t.format = "swiss" /\ e \in t.withdrawn
    \/ \E y \in DOMAIN t.pairings : y[1] = x[1] /\ Live(t, y) /\ e \in Seats(t.pairings[y])

\* The pairing is the i-th of the schedule for its round.
PlacedAs(all, p, k, i) == all[k][i][1] = p.player1 /\ all[k][i][2] = p.player2

\* A round robin follows its schedule.
Scheduled(t) ==
  t.format = "round_robin" =>
    \A id \in DOMAIN t.pairings :
      /\ id[1] + 1 \in 1..Len(GenerateAllRounds(t.entries))
      /\ \E i \in 1..Len(GenerateAllRounds(t.entries)[id[1] + 1]) :
           PlacedAs(GenerateAllRounds(t.entries), t.pairings[id], id[1] + 1, i)

\* Who had two byes had the second after everybody else's first.
ByesShared(t) ==
  t.format = "swiss" =>
    \A x, y \in DOMAIN t.pairings : \A e :
      ByeOf(t, x, e) /\ ByeOf(t, y, e) /\ x # y =>
        \A o \in Range(t.entries) : o \notin t.withdrawn => HadBye(t, o)

\* The rounds so far are fair.
Seating(t) ==
  Matched(t) /\ SeatedAtMostOnce(t) /\ SeatedAtLeastOnce(t) /\ Scheduled(t) /\ ByesShared(t)

\* An open match has two players, both still there.
Attended(t) ==
  \A id \in OpenPairings(t) :
    /\ t.pairings[id].player2 # Nobody
    /\ t.pairings[id].player1 \notin t.withdrawn
    /\ t.pairings[id].player2 \notin t.withdrawn

\* Matches end and nothing else happens to them.
Calm(s, u) ==
  /\ Fixed(s, u)
  /\ DOMAIN u.pairings = DOMAIN s.pairings
  /\ \A id \in DOMAIN s.pairings :
       /\ SamePlayers(s.pairings[id], u.pairings[id])
       /\ Live(u, id) <=> Live(s, id)
       /\ IsOpen(u, id) => IsOpen(s, id)

\* What changes no match is calm,
LEMMA CalmReflexive == ASSUME NEW s PROVE Calm(s, s)
BY DEF Calm, Fixed, SamePlayers

\* one after the other is,
LEMMA CalmTransitive ==
  ASSUME NEW s, NEW t, NEW u, Calm(s, t), Calm(t, u)
  PROVE  Calm(s, u)
BY DEF Calm, Fixed, SamePlayers

\* and what is calm keeps the rounds fair.
LEMMA CalmKeeps ==
  ASSUME NEW s, NEW u, Calm(s, u), Seating(s), s.withdrawn \subseteq u.withdrawn
  PROVE  /\ Seating(u)
         /\ Attended(s) /\ u.withdrawn = s.withdrawn => Attended(u)
<1>1. /\ u.entries = s.entries /\ u.format = s.format
      /\ DOMAIN u.pairings = DOMAIN s.pairings
      /\ \A id \in DOMAIN s.pairings :
           /\ u.pairings[id].player1 = s.pairings[id].player1
           /\ u.pairings[id].player2 = s.pairings[id].player2
           /\ Live(u, id) <=> Live(s, id)
           /\ IsOpen(u, id) => IsOpen(s, id)
  BY DEF Calm, Fixed, SamePlayers
<1>2. \A id \in DOMAIN s.pairings : Seats(u.pairings[id]) = Seats(s.pairings[id])
  BY <1>1 DEF Seats
<1>3. \A id \in DOMAIN s.pairings : \A e : ByeOf(u, id, e) <=> ByeOf(s, id, e)
  BY <1>1 DEF ByeOf, IsBye
<1>4. Matched(u)
  BY <1>1 DEF Seating, Matched
<1>5. SeatedAtMostOnce(u)
  BY <1>1, <1>2 DEF Seating, SeatedAtMostOnce
<1>6. SeatedAtLeastOnce(u)
  BY <1>1, <1>2 DEF Seating, SeatedAtLeastOnce
<1>7. Scheduled(u)
  BY <1>1 DEF Seating, Scheduled, PlacedAs
<1>8. ByesShared(u)
  <2>1. \A o : HadBye(u, o) <=> HadBye(s, o)
    BY <1>1, <1>3 DEF HadBye
  <2> QED
    BY <1>1, <1>3, <2>1 DEF Seating, ByesShared
<1>9. Attended(s) /\ u.withdrawn = s.withdrawn => Attended(u)
  BY <1>1 DEF Attended, OpenPairings
<1> QED
  BY <1>4, <1>5, <1>6, <1>7, <1>8, <1>9 DEF Seating

\* What a round is paired from.
Drawn(s, pairs) ==
  /\ SeatsOnce(pairs, Field(s))
  /\ s.format = "round_robin" =>
       /\ s.round + 1 \in 1..Len(GenerateAllRounds(s.entries))
       /\ pairs = GenerateAllRounds(s.entries)[s.round + 1]
  /\ s.format = "swiss" =>
       \A k \in 1..Len(pairs) :
         pairs[k][2] = Nobody /\ HadBye(s, pairs[k][1]) =>
           \A o \in Range(s.entries) : o \notin s.withdrawn => HadBye(s, o)

\* The pairings after a round was paired, old ones and new ones.
LEMMA MaterializedSplit ==
  ASSUME NEW s, NEW u, NEW pairs, Materialized(s, u, pairs), NEW x \in DOMAIN u.pairings
  PROVE  \/ x \in DOMAIN s.pairings /\ u.pairings[x] = s.pairings[x]
         \/ \E i \in 1..Len(pairs) :
              /\ x = <<s.round, i, 0>> /\ x[1] = s.round /\ x \in u.current
              /\ NewMatch(s, u.pairings[x], pairs[i], s.round)
<1>1. x \in DOMAIN s.pairings \/ \E i \in 1..Len(pairs) : x = <<s.round, i, 0>>
  BY DEF Materialized, Placed
<1>2. CASE x \in DOMAIN s.pairings
  BY <1>2 DEF Materialized, Placed
<1>3. ASSUME NEW i \in 1..Len(pairs), x = <<s.round, i, 0>>
      PROVE  /\ x[1] = s.round /\ x \in u.current
             /\ NewMatch(s, u.pairings[x], pairs[i], s.round)
  BY <1>3 DEF Materialized, Placed
<1> QED
  BY <1>1, <1>2, <1>3

\* Each pair of a new round has its pairing.
LEMMA MaterializedPlaces ==
  ASSUME NEW s, NEW u, NEW pairs, Materialized(s, u, pairs), NEW i \in 1..Len(pairs)
  PROVE  LET x == <<s.round, i, 0>>
         IN  /\ x \in DOMAIN u.pairings /\ x \in u.current /\ x[1] = s.round
             /\ NewMatch(s, u.pairings[x], pairs[i], s.round)
<1> DEFINE x == <<s.round, i, 0>>
<1>1. x[1] = s.round
  OBVIOUS
<1>2. \E j \in 1..Len(pairs) : x = <<s.round, j, 0>>
  OBVIOUS
<1>3. NewMatch(s, u.pairings[x], pairs[i], s.round)
  BY DEF Materialized, Placed
<1> HIDE DEF x
<1> QED
  BY <1>1, <1>2, <1>3 DEF Materialized, Placed, x

\* A new round that is drawn as it should be keeps the rounds fair.
LEMMA NewRoundSeats ==
  ASSUME NEW s, s.format \in RoundFormats, Seating(s), Attended(s),
         \A id \in DOMAIN s.pairings : id[1] # s.round,
         Nobody \notin Range(s.entries),
         NEW pairs, Drawn(s, pairs), NEW u, Materialized(s, u, pairs)
  PROVE  Seating(u) /\ Attended(u)
<1> DEFINE F == Field(s)
           D == DOMAIN u.pairings
           n == Len(pairs)
           Old(x) == x \in DOMAIN s.pairings /\ u.pairings[x] = s.pairings[x] /\ x[1] # s.round
           New(x, i) == /\ x = <<s.round, i, 0>> /\ x[1] = s.round
                        /\ u.pairings[x].player1 = pairs[i][1]
                        /\ u.pairings[x].player2 = pairs[i][2]
                        /\ u.pairings[x].state \in {"Open", "Completed"}
                        /\ u.pairings[x].state = "Open" =>
                             /\ pairs[i][2] # Nobody
                             /\ pairs[i][1] \notin s.withdrawn /\ pairs[i][2] \notin s.withdrawn
<1>1. /\ u.entries = s.entries /\ u.format = s.format /\ u.withdrawn = s.withdrawn
      /\ DOMAIN s.pairings \subseteq D
      /\ \A x \in DOMAIN s.pairings : u.pairings[x] = s.pairings[x]
  BY DEF Materialized, Placed, Beside, Fixed
<1>2. \A x \in D : Old(x) \/ \E i \in 1..n : New(x, i)
  BY MaterializedSplit DEF NewMatch
<1>3. ASSUME NEW i \in 1..n
      PROVE  \E x \in D : New(x, i)
  <2> DEFINE x == <<s.round, i, 0>>
  <2>1. x \in D /\ x[1] = s.round /\ NewMatch(s, u.pairings[x], pairs[i], s.round)
    BY MaterializedPlaces
  <2>2. x = <<s.round, i, 0>>
    OBVIOUS
  <2> HIDE DEF x
  <2>3. New(x, i)
    BY <2>1, <2>2 DEF NewMatch
  <2> QED
    BY <2>1, <2>3
<1>4. /\ n \in Nat
      /\ \A i \in 1..n : pairs[i][1] \in F /\ pairs[i][2] \in F \cup {Nobody}
      /\ \A i \in 1..n : pairs[i][1] # pairs[i][2]
      /\ \A k, l \in 1..n : \A e \in F :
           e \in {pairs[k][1], pairs[k][2]} /\ e \in {pairs[l][1], pairs[l][2]} => k = l
      /\ \A e \in F : \E k \in 1..n : e \in {pairs[k][1], pairs[k][2]}
  BY DEF Drawn, SeatsOnce
<1>5. F \subseteq Range(s.entries)
  BY DEF Field
<1>6. \A x : \A i, j \in 1..n : New(x, i) /\ New(x, j) => i = j
  OBVIOUS
<1>7. \A x, y : \A i \in 1..n : New(x, i) /\ New(y, i) => x = y
  OBVIOUS
<1>8. \A x : \A i \in 1..n : New(x, i) =>
         Seats(u.pairings[x]) = {pairs[i][1], pairs[i][2]} /\ Live(u, x)
  BY DEF Seats, Live
<1>9. \A x : Old(x) => /\ Seats(u.pairings[x]) = Seats(s.pairings[x])
                       /\ Live(u, x) <=> Live(s, x)
                       /\ \A e : ByeOf(u, x, e) <=> ByeOf(s, x, e)
  BY DEF Live, ByeOf
<1> HIDE DEF F, n
<1>10. Matched(u)
  <2> SUFFICES ASSUME NEW x \in D
               PROVE  /\ u.pairings[x].player1 \in Range(u.entries)
                      /\ u.pairings[x].player2 \in Range(u.entries) \cup {Nobody}
                      /\ u.pairings[x].player1 # u.pairings[x].player2
    BY DEF Matched
  <2>1. CASE Old(x)
    BY <1>1, <2>1 DEF Seating, Matched
  <2>2. ASSUME NEW i \in 1..n, New(x, i)
        PROVE  /\ u.pairings[x].player1 \in Range(u.entries)
               /\ u.pairings[x].player2 \in Range(u.entries) \cup {Nobody}
               /\ u.pairings[x].player1 # u.pairings[x].player2
    BY <1>1, <1>4, <1>5, <2>2
  <2> QED
    BY <1>2, <2>1, <2>2
<1>11. SeatedAtMostOnce(u)
  <2> SUFFICES ASSUME NEW x \in D, NEW y \in D, NEW e \in Range(s.entries),
                      x[1] = y[1], Live(u, x), Live(u, y),
                      e \in Seats(u.pairings[x]), e \in Seats(u.pairings[y])
               PROVE  x = y
    BY <1>1 DEF SeatedAtMostOnce
  <2>1. CASE Old(x) /\ Old(y)
    <3>1. /\ x \in DOMAIN s.pairings /\ y \in DOMAIN s.pairings
          /\ Live(s, x) /\ Live(s, y)
          /\ e \in Seats(s.pairings[x]) /\ e \in Seats(s.pairings[y])
      BY <1>9, <2>1
    <3> QED
      BY <3>1 DEF Seating, SeatedAtMostOnce
  <2>2. ASSUME NEW i \in 1..n, NEW j \in 1..n, New(x, i), New(y, j)
        PROVE  x = y
    <3>1. e \in {pairs[i][1], pairs[i][2]} /\ e \in {pairs[j][1], pairs[j][2]}
      BY <1>8, <2>2
    <3>2. e # Nobody
      OBVIOUS
    <3>3. e \in F
      BY <1>4, <3>1, <3>2
    <3>4. i = j
      BY <1>4, <3>1, <3>3
    <3> QED
      BY <1>7, <2>2, <3>4
  <2>3. ~(Old(x) /\ x[1] = s.round) /\ ~(Old(y) /\ y[1] = s.round)
    OBVIOUS
  <2> QED
    BY <1>2, <2>1, <2>2, <2>3
<1>12. SeatedAtLeastOnce(u)
  <2> SUFFICES ASSUME NEW x \in D, NEW e \in Range(s.entries), ~(s.format = "swiss" /\ e \in s.withdrawn)
               PROVE  \E y \in D : y[1] = x[1] /\ Live(u, y) /\ e \in Seats(u.pairings[y])
    BY <1>1 DEF SeatedAtLeastOnce
  <2>1. CASE Old(x)
    <3>1. PICK y \in DOMAIN s.pairings : y[1] = x[1] /\ Live(s, y) /\ e \in Seats(s.pairings[y])
      BY <2>1 DEF Seating, SeatedAtLeastOnce
    <3>2. y \in D /\ u.pairings[y] = s.pairings[y]
      BY <1>1
    <3>3. Live(u, y) /\ e \in Seats(u.pairings[y])
      BY <3>1, <3>2 DEF Live
    <3> QED
      BY <3>1, <3>2, <3>3
  <2>2. ASSUME NEW i \in 1..n, New(x, i)
        PROVE  \E y \in D : y[1] = x[1] /\ Live(u, y) /\ e \in Seats(u.pairings[y])
    <3>1. e \in F
      BY DEF F, Field, RoundFormats
    <3>2. PICK k \in 1..n : e \in {pairs[k][1], pairs[k][2]}
      BY <1>4, <3>1
    <3>3. PICK y \in D : New(y, k)
      BY <1>3
    <3>4. Live(u, y) /\ e \in Seats(u.pairings[y]) /\ y[1] = x[1]
      BY <1>8, <2>2, <3>2, <3>3
    <3> QED
      BY <3>4
  <2> QED
    BY <1>2, <2>1, <2>2
<1>13. Scheduled(u)
  <2> SUFFICES ASSUME s.format = "round_robin", NEW x \in D
               PROVE  /\ x[1] + 1 \in 1..Len(GenerateAllRounds(s.entries))
                      /\ \E i \in 1..Len(GenerateAllRounds(s.entries)[x[1] + 1]) :
                           PlacedAs(GenerateAllRounds(s.entries), u.pairings[x], x[1] + 1, i)
    BY <1>1 DEF Scheduled
  <2> DEFINE all == GenerateAllRounds(s.entries)
  <2> HIDE DEF all
  <2>1. CASE Old(x)
    BY <2>1 DEF Seating, Scheduled, all
  <2>2. ASSUME NEW i \in 1..n, New(x, i)
        PROVE  /\ x[1] + 1 \in 1..Len(all)
               /\ \E j \in 1..Len(all[x[1] + 1]) : PlacedAs(all, u.pairings[x], x[1] + 1, j)
    <3>1. s.round + 1 \in 1..Len(all) /\ pairs = all[s.round + 1] /\ x[1] = s.round
      BY <2>2 DEF Drawn, all
    <3>2. i \in 1..Len(all[x[1] + 1])
      BY <3>1 DEF n
    <3>3. PlacedAs(all, u.pairings[x], x[1] + 1, i)
      BY <2>2, <3>1 DEF PlacedAs
    <3> QED
      BY <3>1, <3>2, <3>3
  <2> QED
    BY <1>2, <2>1, <2>2 DEF all
<1>14. ByesShared(u)
  <2> SUFFICES ASSUME s.format = "swiss", NEW x \in D, NEW y \in D, NEW e,
                      ByeOf(u, x, e), ByeOf(u, y, e), x # y,
                      NEW o \in Range(s.entries), o \notin s.withdrawn
               PROVE  HadBye(u, o)
    BY <1>1 DEF ByesShared
  <2>1. HadBye(s, o) => HadBye(u, o)
    BY <1>1 DEF HadBye, ByeOf
  <2>2. CASE Old(x) /\ Old(y)
    <3>1. ByeOf(s, x, e) /\ ByeOf(s, y, e) /\ x \in DOMAIN s.pairings /\ y \in DOMAIN s.pairings
      BY <1>9, <2>2
    <3> QED
      BY <2>1, <3>1 DEF Seating, ByesShared
  <2>3. ASSUME NEW z \in D, NEW v \in D, Old(z), ByeOf(u, z, e), ByeOf(u, v, e),
               NEW i \in 1..n, New(v, i)
        PROVE  HadBye(s, o)
    <3>1. HadBye(s, e)
      BY <1>9, <2>3 DEF HadBye
    <3>2. pairs[i][2] = Nobody /\ pairs[i][1] = e
      BY <2>3 DEF ByeOf, IsBye
    <3> QED
      BY <3>1, <3>2 DEF Drawn, n
  <2>4. ASSUME NEW i \in 1..n, NEW j \in 1..n, New(x, i), New(y, j)
        PROVE  FALSE
    <3>1. pairs[i][1] = e /\ pairs[j][1] = e
      BY <2>4 DEF ByeOf
    <3>2. e \in F
      BY <1>4, <3>1
    <3>3. i = j
      BY <1>4, <3>1, <3>2
    <3> QED
      BY <1>7, <2>4, <3>3
  <2>5. CASE Old(x)
    BY <1>2, <2>1, <2>2, <2>3, <2>5
  <2>6. CASE ~Old(x)
    BY <1>2, <2>1, <2>3, <2>4, <2>6
  <2> QED
    BY <2>5, <2>6
<1>15. Attended(u)
  <2> SUFFICES ASSUME NEW x \in D, IsOpen(u, x)
               PROVE  /\ u.pairings[x].player2 # Nobody
                      /\ u.pairings[x].player1 \notin s.withdrawn
                      /\ u.pairings[x].player2 \notin s.withdrawn
    BY <1>1 DEF Attended, OpenPairings
  <2>1. CASE Old(x)
    BY <2>1 DEF Attended, OpenPairings, IsOpen
  <2>2. ASSUME NEW i \in 1..n, New(x, i)
        PROVE  /\ u.pairings[x].player2 # Nobody
               /\ u.pairings[x].player1 \notin s.withdrawn
               /\ u.pairings[x].player2 \notin s.withdrawn
    <3>1. u.pairings[x].state = "Open"
      BY <2>2 DEF IsOpen, Terminal
    <3> QED
      BY <2>2, <3>1
  <2> QED
    BY <1>2, <2>1, <2>2
<1> QED
  BY <1>10, <1>11, <1>12, <1>13, <1>14, <1>15 DEF Seating

-----------------------------------------------------------------------------
(* Rounds go on.                                                           *)

\* The open matches are among those of the current round.
RoundState(t) ==
  /\ Seating(t) /\ Attended(t)
  /\ OpenPairings(t) \subseteq t.current
  /\ \A id \in t.current : id[1] = t.round

\* The state of the rounds outlasts what changes no match.
LEMMA CalmState ==
  ASSUME NEW t, NEW u, RoundState(t), Calm(t, u), u.withdrawn = t.withdrawn, u.current = t.current,
         u.round = t.round
  PROVE  RoundState(u)
<1>1. Seating(u) /\ Attended(u)
  BY CalmKeeps DEF RoundState
<1>2. OpenPairings(u) \subseteq OpenPairings(t)
  BY DEF Calm, OpenPairings
<1> QED
  BY <1>1, <1>2 DEF RoundState

\* Somebody is left to be paired, so the round has a match.
LEMMA RoundIsNotEmpty ==
  ASSUME NEW s, NEW u, NEW pairs, Drawn(s, pairs), Materialized(s, u, pairs), Field(s) # {}
  PROVE  u.current # {}
<1>1. PICK e \in Field(s) : TRUE
  OBVIOUS
<1>2. PICK k \in 1..Len(pairs) : e \in {pairs[k][1], pairs[k][2]}
  BY DEF Drawn, SeatsOnce
<1> QED
  BY <1>2, MaterializedPlaces

\* It is there after a new round,
LEMMA NewRoundState ==
  ASSUME NEW s, s.format \in RoundFormats, Seating(s), Attended(s), OpenPairings(s) = {},
         \A id \in DOMAIN s.pairings : id[1] # s.round,
         Nobody \notin Range(s.entries),
         NEW pairs, Drawn(s, pairs), NEW u, Materialized(s, u, pairs)
  PROVE  RoundState(u)
<1>1. Seating(u) /\ Attended(u)
  BY NewRoundSeats
<1>2. ASSUME NEW x \in OpenPairings(u)
      PROVE  x \in u.current
  <2>1. x \in DOMAIN u.pairings /\ IsOpen(u, x)
    BY DEF OpenPairings
  <2>2. \/ x \in DOMAIN s.pairings /\ u.pairings[x] = s.pairings[x]
        \/ x \in u.current
    BY <2>1, MaterializedSplit
  <2>3. ~(x \in DOMAIN s.pairings /\ u.pairings[x] = s.pairings[x])
    BY <2>1 DEF OpenPairings, IsOpen
  <2> QED
    BY <2>2, <2>3
<1>3. \A x \in u.current : x[1] = u.round
  <2>1. u.round = s.round
    BY DEF Materialized, Placed, Beside
  <2> SUFFICES ASSUME NEW x \in u.current PROVE x[1] = s.round
    BY <2>1
  <2>2. \E i \in 1..Len(pairs) : x = <<s.round, i, 0>>
    BY DEF Materialized
  <2> QED
    BY <2>2
<1> QED
  BY <1>1, <1>2, <1>3 DEF RoundState

\* which the code draws as it should be.
LEMMA NextRoundDrawn ==
  ASSUME NEW t, Sound(t), t.format \in RoundFormats, Len(t.entries) >= 2,
         t.round < LastRound(t),
         NEW s, Fixed(t, s), s.pairings = t.pairings, s.round = t.round + 1,
         s.withdrawn = t.withdrawn
  PROVE  Drawn(s, NextPairs(t))
<1> DEFINE pairs == NextPairs(t)
           rows == SwissTable(t)
<1>1. t.round \in Nat /\ Basic(t) /\ Counted(t)
  BY DEF Sound, Basic, WellFormed
<1>2. /\ SeatsOnce(pairs, Field(t))
      /\ t.format = "round_robin" =>
           /\ t.round + 2 \in 1..Len(GenerateAllRounds(t.entries))
           /\ pairs = GenerateAllRounds(t.entries)[t.round + 2]
      /\ t.format = "swiss" => ByesAreShared(pairs, rows)
  BY <1>1, NextPairsSeatOnce
<1>3. s.format = t.format /\ s.entries = t.entries /\ Field(s) = Field(t)
  BY DEF Fixed, Field
<1>4. \A e : HadBye(s, e) <=> HadBye(t, e)
  BY DEF HadBye, ByeOf
<1>5. ASSUME t.format = "swiss", NEW k \in 1..Len(pairs), pairs[k][2] = Nobody,
             HadBye(t, pairs[k][1]), NEW o \in Range(t.entries), o \notin t.withdrawn
      PROVE  HadBye(t, o)
  <2>1. /\ \A e : e \in Ids(rows) <=> e \in Range(t.entries) /\ e \notin t.withdrawn
        /\ \A i \in 1..Len(rows) :
             rows[i].hadBye <=> \E id \in DOMAIN t.pairings :
               IsBye(t.pairings[id]) /\ t.pairings[id].player1 = rows[i].id
    BY <1>1, NobodyIsNoEntry, SwissTableRows
  <2> HIDE DEF rows, pairs
  <2>2. \A i \in 1..Len(rows) : rows[i].hadBye <=> HadBye(t, rows[i].id)
    BY <2>1 DEF HadBye, ByeOf
  <2>3. PICK i \in 1..Len(rows) : /\ rows[i].id = pairs[k][1]
                                  /\ rows[i].hadBye => \A j \in 1..Len(rows) : rows[j].hadBye
    BY <1>2, <1>5 DEF ByesAreShared
  <2>4. PICK j \in 1..Len(rows) : rows[j].id = o
    BY <1>5, <2>1 DEF Ids
  <2> QED
    BY <1>5, <2>2, <2>3, <2>4
<1>6. (t.round + 1) + 1 = t.round + 2
  BY <1>1
<1> HIDE DEF pairs
<1>7. Drawn(s, pairs)
  BY <1>2, <1>3, <1>4, <1>5, <1>6 DEF Drawn
<1> QED
  BY <1>7 DEF pairs

\* So it is after the next round,
LEMMA NextRoundState ==
  ASSUME NEW t, Sound(t), RoundState(t), RoundComplete(t), t.round < LastRound(t)
  PROVE  LET u == NextRound(t)
         IN  RoundState(u) /\ (Field(t) # {} => u.current # {}) /\ Field(u) = Field(t)
<1> DEFINE s == [t EXCEPT !.round = @ + 1]
           u == NextRound(t)
<1>1. /\ t.format \in RoundFormats /\ DOMAIN t.pairings # {} /\ Len(t.entries) >= 2
  BY DEF RoundComplete, Sound, Started
<1>2. /\ Fixed(t, s) /\ s.pairings = t.pairings /\ s.round = t.round + 1
      /\ s.status = t.status /\ s.withdrawn = t.withdrawn /\ s.current = t.current
      /\ \A id \in DOMAIN s.pairings : id[1] # s.round
  BY <1>1, RoundCounted DEF Sound
<1>3. Materialized(s, u, NextPairs(t)) /\ Evolves(t, u) /\ u.withdrawn = t.withdrawn
  BY NextRoundSound
<1> HIDE DEF s, u
<1>4. Drawn(s, NextPairs(t))
  BY <1>1, <1>2, NextRoundDrawn
<1>5. Calm(t, s)
  BY <1>2 DEF Calm, SamePlayers, Live, IsOpen
<1>6. Seating(s) /\ Attended(s)
  BY <1>2, <1>5, CalmKeeps DEF RoundState
<1>7. OpenPairings(s) = {}
  <2>1. OpenPairings(t) = {}
    BY DEF RoundState, RoundComplete, OpenPairings
  <2> QED
    BY <1>2, <2>1 DEF OpenPairings, IsOpen
<1>8. Nobody \notin Range(s.entries) /\ s.format \in RoundFormats
  BY <1>1, <1>2, EntriesAreSeated DEF Sound, Basic, Fixed
<1>9. RoundState(u)
  BY <1>2, <1>3, <1>4, <1>6, <1>7, <1>8, NewRoundState
<1>10. Field(s) = Field(t)
  BY <1>2 DEF Field, Fixed
<1>11. Field(t) # {} => u.current # {}
  BY <1>3, <1>4, <1>10, RoundIsNotEmpty
<1>12. Field(u) = Field(t)
  BY <1>3 DEF Field, Evolves, Fixed
<1> QED
  BY <1>9, <1>11, <1>12 DEF u

\* and before the first.
LEMMA RoundsOfNone ==
  ASSUME NEW t, DOMAIN t.pairings = {}, t.current = {}
  PROVE  Seating(t) /\ Attended(t) /\ RoundState(t)
BY DEF Seating, Attended, RoundState, Matched, SeatedAtMostOnce, SeatedAtLeastOnce, Scheduled,
       ByesShared, OpenPairings

\* What a tournament in progress or at its end looks like.
Onward(u) ==
  /\ RoundState(u)
  /\ u.status = "active" => \E id \in u.current : IsOpen(u, id)
  /\ u.status = "completed" => OpenPairings(u) = {} /\ IsPodium(u.ranks, Range(u.entries))

\* A tournament whose rounds are over has a podium.
LEMMA CompletedOnward ==
  ASSUME NEW t, Sound(t), RoundState(t), RoundComplete(t), NEW times
  PROVE  Onward(CompleteTournament(t, times))
<1> DEFINE u == CompleteTournament(t, times)
           rr == t.format = "round_robin"
<1>1. WellFormed(t) /\ Counted(t) /\ Registered(t)
  BY DEF Sound, Basic
<1>2. /\ Fixed(t, u)
      /\ u.pairings = t.pairings /\ u.withdrawn = t.withdrawn /\ u.current = t.current
      /\ u.round = t.round
      /\ u.status = "completed"
      /\ t.format # "double_elim" =>
           u.ranks = FinalTable(Range(t.entries), Completions(t), rr)
  BY <1>1, CompletedFields
<1> HIDE DEF u
<1>3. Calm(t, u)
  BY <1>2 DEF Calm, SamePlayers, Live, IsOpen
<1>4. RoundState(u)
  BY <1>2, <1>3, CalmState
<1>5. OpenPairings(u) = {}
  BY <1>2, <1>4 DEF RoundState, RoundComplete, OpenPairings, IsOpen
<1>6. IsPodium(FinalTable(Range(t.entries), Completions(t), rr), Range(t.entries))
  <2>1. IsFiniteSet(Range(t.entries)) /\ rr \in BOOLEAN
    BY <1>1, EntriesAreSeated
  <2>2. Results(Completions(t))
    BY <1>1, CompletionsAreResults
  <2> HIDE DEF rr
  <2> QED
    BY <2>1, <2>2, FinalTableIsPodium
<1>7. t.format # "double_elim" /\ u.entries = t.entries
  BY <1>2 DEF RoundComplete, RoundFormats, Fixed
<1> QED
  BY <1>2, <1>4, <1>5, <1>6, <1>7 DEF Onward, u

\* A tournament that is advanced has an open match in its current round, or
\* its podium: no round is left complete.
LEMMA AdvanceOnward ==
  ASSUME NEW t, Sound(t), RoundState(t), t.format \in RoundFormats, t.status = "active",
         t.current # {}, RoundComplete(t) => Field(t) # {}
  PROVE  Onward(AdvanceIfRoundComplete(t))
<1> DEFINE n == Len(t.entries)
           u == AdvanceIfRoundComplete(t)
           Kept(v) == /\ Sound(v) /\ RoundState(v) /\ v.status = "active"
                      /\ v.current # {} /\ (RoundComplete(v) => Field(v) # {})
                      /\ v.format = t.format
<1>1. n \in Nat
  BY DEF Sound, Basic, Registered
<1>2. PICK g : Advanced(g, t)
  BY <1>1, AdvanceRuns
<1> DEFINE S == {i \in 0..n : Kept(g[i])}
<1>3. 0 \in S
  BY <1>1, <1>2 DEF Advanced
<1>4. ASSUME NEW i \in 1..n, i - 1 \in S
      PROVE  i \in S
  <2> DEFINE s == g[i - 1]
             v == g[i]
  <2>1. v = IF RoundComplete(s) /\ s.round < LastRound(s) THEN NextRound(s) ELSE s
    BY <1>2 DEF Advanced
  <2>2. Kept(s)
    BY <1>4
  <2>3. i \in 0..n
    BY <1>1
  <2> HIDE DEF s, v
  <2>4. Kept(v)
    <3>1. CASE RoundComplete(s) /\ s.round < LastRound(s)
      <4>1. v = NextRound(s)
        BY <2>1, <3>1
      <4>2. Sound(v) /\ v.status = s.status /\ v.format = s.format
        BY <2>2, <3>1, <4>1, NextRoundSound, SlottedEvolves
      <4>3. RoundState(v) /\ (Field(s) # {} => v.current # {}) /\ Field(v) = Field(s)
        BY <2>2, <3>1, <4>1, NextRoundState
      <4> QED
        BY <2>2, <3>1, <4>2, <4>3
    <3>2. CASE ~(RoundComplete(s) /\ s.round < LastRound(s))
      BY <2>1, <2>2, <3>2
    <3> QED
      BY <3>1, <3>2
  <2> HIDE DEF Kept
  <2> QED
    BY <2>3, <2>4 DEF v
<1>5. \A i \in 0..n : i \in S
  <2> HIDE DEF S
  <2> QED
    BY <1>1, <1>3, <1>4, BoundedInduction
<1> DEFINE last == g[n]
<1>6. Kept(last)
  BY <1>1, <1>5
<1>7. u = IF RoundComplete(last) THEN CompleteTournament(last, 1) ELSE last
  BY <1>2 DEF Advanced
<1> HIDE DEF last, u, S
<1>8. CASE RoundComplete(last)
  BY <1>6, <1>7, <1>8, CompletedOnward DEF u
<1>9. CASE ~RoundComplete(last)
  <2>1. \E id \in last.current : IsOpen(last, id)
    BY <1>6, <1>9 DEF RoundComplete
  <2>2. Onward(last)
    BY <1>6, <2>1 DEF Onward
  <2> QED
    BY <1>7, <1>9, <2>2 DEF u
<1> QED
  BY <1>8, <1>9

\* So has one that starts.
LEMMA StartOnward ==
  ASSUME NEW t, Sound(t), t.status = "draft", Len(t.entries) >= 2, t.format \in RoundFormats,
         t.withdrawn = {}
  PROVE  Onward(StartTournament(t))
<1>1. PICK s, v : /\ Activated(t, s)
                  /\ Sound(v) /\ Evolves(s, v) /\ Materialized(s, v, FirstPairs(t))
                  /\ StartTournament(t) = AdvanceIfRoundComplete(v)
  BY StartRoundsSound
<1> DEFINE pairs == FirstPairs(t)
<1>2. /\ s.format = t.format /\ s.entries = t.entries /\ s.withdrawn = {}
      /\ s.status = "active" /\ DOMAIN s.pairings = {} /\ s.current = {}
      /\ s.round = IF t.format = "swiss" THEN 1 ELSE 0
  BY <1>1 DEF Activated
<1>3. Registered(t)
  BY DEF Sound, Basic
<1>4. SeatsOnce(pairs, Range(t.entries))
  BY <1>3, FirstPairsSeatOnce
<1>5. Field(s) = Range(t.entries)
  BY <1>2 DEF Field
<1>6. Drawn(s, pairs)
  <2>1. \A e : ~HadBye(s, e)
    BY <1>2 DEF HadBye
  <2>2. ASSUME t.format = "round_robin"
        PROVE  /\ s.round + 1 \in 1..Len(GenerateAllRounds(t.entries))
               /\ pairs = GenerateAllRounds(t.entries)[s.round + 1]
    <3> DEFINE all == GenerateAllRounds(t.entries)
    <3>1. RoundRobin(all, Range(t.entries))
      BY <1>3, RoundRobinOf
    <3>2. pairs = all[1] /\ s.round + 1 = 1
      BY <1>2, <2>2 DEF FirstPairs
    <3> HIDE DEF all, pairs
    <3>3. 1 \in 1..Len(all)
      BY <3>1 DEF RoundRobin
    <3> QED
      BY <3>2, <3>3 DEF all
  <2> HIDE DEF pairs
  <2> QED
    BY <1>2, <1>4, <1>5, <2>1, <2>2 DEF Drawn
<1>7. Nobody \notin Range(s.entries) /\ Range(t.entries) # {}
  <2>1. t.entries[1] \in Range(t.entries)
    BY <1>3 DEF Registered, Range
  <2> QED
    BY <1>2, <1>3, <2>1, EntriesAreSeated
<1>8. OpenPairings(s) = {} /\ Seating(s) /\ Attended(s)
  BY <1>2, RoundsOfNone DEF OpenPairings
<1>9. RoundState(v)
  BY <1>1, <1>2, <1>6, <1>7, <1>8, NewRoundState
<1>10. v.current # {}
  BY <1>1, <1>5, <1>6, <1>7, RoundIsNotEmpty
<1>11. v.status = "active" /\ v.format = t.format /\ Field(v) = Field(s)
  BY <1>1, <1>2 DEF Materialized, Placed, Beside, Fixed, Field
<1> QED
  BY <1>1, <1>5, <1>7, <1>9, <1>10, <1>11, AdvanceOnward

-----------------------------------------------------------------------------
(* The invariant of rounds.                                                *)

\* What holds of a tournament of rounds, in draft, on, over or cancelled.
Begun(t) ==
  t.format \in RoundFormats =>
    /\ Onward(t)
    /\ t.status \in {"completed", "cancelled"} => OpenPairings(t) = {}

\* The inductive invariant of the formats that are played in rounds.
RoundsInv(t) ==
  /\ Sound(t) /\ Begun(t)
  /\ t.status \in {"draft", "active", "completed", "cancelled"}
  /\ t.status = "draft" => t.withdrawn = {}

\* An open match is one of a tournament in progress, with two players.
LEMMA OpenIsActive ==
  ASSUME NEW t, RoundsInv(t), t.format \in RoundFormats, NEW id \in OpenPairings(t)
  PROVE  /\ t.status = "active" /\ RoundState(t) /\ t.current # {}
         /\ Field(t) # {}
<1>1. id \in DOMAIN t.pairings
  BY DEF OpenPairings
<1>2. t.status = "active"
  BY <1>1 DEF RoundsInv, Begun, Sound
<1>3. RoundState(t) /\ t.current # {}
  BY <1>2 DEF RoundsInv, Begun, Onward
<1>4. /\ t.pairings[id].player1 \in Range(t.entries)
      /\ t.pairings[id].player1 \notin t.withdrawn
  BY <1>1, <1>3 DEF RoundState, Seating, Matched, Attended
<1>5. t.pairings[id].player1 \in Field(t)
  BY <1>4 DEF Field
<1> QED
  BY <1>2, <1>3, <1>5

\* Once decided, released or cancelled, a pairing is not open and not void.
LEMMA EditedCalm ==
  ASSUME NEW t, NEW id \in OpenPairings(t), NEW u, Fixed(t, u),
         DOMAIN u.pairings = DOMAIN t.pairings,
         \A x \in DOMAIN t.pairings : x # id => u.pairings[x] = t.pairings[x],
         SamePlayers(t.pairings[id], u.pairings[id]),
         u.pairings[id].state \in {"Completed", "OrganizerAdjusted"}
  PROVE  Calm(t, u)
<1>1. id \in DOMAIN t.pairings /\ t.pairings[id].state \notin Terminal
  BY DEF OpenPairings, IsOpen
<1>2. Live(t, id) /\ Live(u, id) /\ ~IsOpen(u, id)
  BY <1>1 DEF Live, IsOpen, Terminal
<1> QED
  BY <1>2 DEF Calm, Live, IsOpen, SamePlayers

\* A decision advances a round that it completes,
LEMMA DecideOnward ==
  ASSUME NEW t, RoundsInv(t), t.format \in RoundFormats, NEW id \in OpenPairings(t), NEW w
  PROVE  Onward(Decide(t, id, w))
<1> DEFINE s == Settled(t, id, w)
           r == RecordCompletion(s, id)
           u == Decide(t, id, w)
<1>1. /\ t.status = "active" /\ RoundState(t) /\ t.current # {}
      /\ Field(t) # {}
  BY OpenIsActive
<1>2. /\ Sound(r) /\ Evolves(t, r) /\ Edited(t, s, id)
      /\ SamePlayers(t.pairings[id], s.pairings[id]) /\ s.pairings[id].state = "Completed"
      /\ r.current = t.current /\ r.withdrawn = t.withdrawn
      /\ r.status = t.status /\ r.pairings = s.pairings /\ r.round = t.round
  BY RecordSound DEF RoundsInv
<1>3. u = AdvanceIfRoundComplete(r)
  BY DEF Decide, Settled
<1> HIDE DEF s, r, u
<1>4. Fixed(t, r) /\ DOMAIN r.pairings = DOMAIN t.pairings
      /\ \A x \in DOMAIN t.pairings : x # id => r.pairings[x] = t.pairings[x]
  BY <1>2 DEF Evolves, Edited
<1>5. Calm(t, r)
  BY <1>2, <1>4, EditedCalm
<1>6. RoundState(r)
  BY <1>1, <1>2, <1>5, CalmState
<1>7. r.format \in RoundFormats /\ Field(r) = Field(t)
  BY <1>2, <1>4 DEF Fixed, Field
<1>8. Onward(u)
  BY <1>1, <1>2, <1>3, <1>6, <1>7, AdvanceOnward
<1> QED
  BY <1>8 DEF u

\* so does the release of a match,
LEMMA ReleaseOnward ==
  ASSUME NEW t, RoundsInv(t), t.format \in RoundFormats, NEW id \in OpenPairings(t), NEW life
  PROVE  Onward(AdvanceIfRoundComplete(Released(t, id, life)))
<1> DEFINE s == Released(t, id, life)
<1>1. /\ t.status = "active" /\ RoundState(t) /\ t.current # {}
      /\ Field(t) # {}
  BY OpenIsActive
<1>2. /\ Sound(s) /\ Edited(t, s, id) /\ SamePlayers(t.pairings[id], s.pairings[id])
      /\ s.pairings[id].state = "OrganizerAdjusted"
  BY ReleaseSound DEF RoundsInv
<1> HIDE DEF s
<1>3. /\ Fixed(t, s) /\ DOMAIN s.pairings = DOMAIN t.pairings
      /\ \A x \in DOMAIN t.pairings : x # id => s.pairings[x] = t.pairings[x]
      /\ s.status = t.status /\ s.current = t.current /\ s.withdrawn = t.withdrawn
      /\ s.round = t.round
  BY <1>2 DEF Edited
<1>4. Calm(t, s)
  BY <1>2, <1>3, EditedCalm
<1>5. RoundState(s)
  BY <1>1, <1>3, <1>4, CalmState
<1>6. s.format \in RoundFormats /\ Field(s) = Field(t)
  BY <1>3 DEF Fixed, Field
<1> QED
  BY <1>1, <1>2, <1>3, <1>5, <1>6, AdvanceOnward DEF s

\* A void match and its replay: the replay sits in its place.
LEMMA ReplayOnward ==
  ASSUME NEW t, RoundsInv(t), t.format \in RoundFormats, NEW id \in OpenPairings(t),
         NEW v, Edited(t, v, id), SameSeats(t.pairings[id], v.pairings[id]),
         v.pairings[id].state = "DoubleNoShow",
         NEW u, Replayed(v, u, id), ReplayId(v, id) \notin DOMAIN t.pairings
  PROVE  Onward(u)
<1> DEFINE new == ReplayId(v, id)
           D == DOMAIN t.pairings
<1>1. /\ t.status = "active" /\ RoundState(t)
      /\ id \in D /\ IsOpen(t, id)
  BY OpenIsActive DEF OpenPairings
<1>2. t.format # "double_elim"
  BY DEF RoundFormats
<1>3. /\ DOMAIN v.pairings = D /\ v.format = t.format /\ Fixed(t, v)
      /\ v.status = t.status /\ v.current = t.current /\ v.withdrawn = t.withdrawn
      /\ v.round = t.round
      /\ \A x \in D : x # id => v.pairings[x] = t.pairings[x]
  BY DEF Edited, Fixed
<1>4. new = <<id[1], id[2], id[3] + 1>>
  BY <1>2, <1>3 DEF ReplayId
<1>5. new[1] = id[1]
  <2> HIDE DEF new
  <2> QED
    BY <1>4
<1> HIDE DEF new
<1>6. new \notin D
  BY DEF new
<1>7. /\ u.entries = t.entries /\ u.format = t.format /\ u.withdrawn = t.withdrawn
      /\ u.status = "active" /\ u.round = t.round
      /\ DOMAIN u.pairings = D \cup {new}
      /\ \A x \in D : x # id => u.pairings[x] = t.pairings[x]
      /\ u.pairings[id].state = "DoubleNoShow"
      /\ u.pairings[id].player1 = t.pairings[id].player1
      /\ u.pairings[id].player2 = t.pairings[id].player2
      /\ u.pairings[new].state = "Open"
      /\ u.pairings[new].player1 = t.pairings[id].player1
      /\ u.pairings[new].player2 = t.pairings[id].player2
      /\ u.current = (t.current \ {id}) \cup {new}
  BY <1>1, <1>2, <1>3, <1>6 DEF Replayed, Beside, Fixed, SamePlayers, SameSeats, new
<1>8. /\ Live(t, id) /\ Live(u, new) /\ ~Live(u, id) /\ ~IsOpen(u, id) /\ IsOpen(u, new)
      /\ \A x \in D : x # id => (Live(u, x) <=> Live(t, x)) /\ (IsOpen(u, x) <=> IsOpen(t, x))
  BY <1>1, <1>7 DEF Live, IsOpen, Terminal
<1>9. /\ \A x \in D : Seats(u.pairings[x]) = Seats(t.pairings[x])
      /\ Seats(u.pairings[new]) = Seats(t.pairings[id])
  BY <1>7 DEF Seats
<1>10. /\ t.pairings[id].player2 # Nobody
       /\ t.pairings[id].player1 \notin t.withdrawn /\ t.pairings[id].player2 \notin t.withdrawn
  BY <1>1 DEF RoundState, Attended
<1>11. /\ Seating(t) /\ Attended(t) /\ OpenPairings(t) \subseteq t.current
       /\ id \in t.current /\ \A x \in t.current : x[1] = t.round
  BY <1>1 DEF RoundState
<1>12. Matched(u)
  BY <1>1, <1>7, <1>11 DEF Seating, Matched
<1>13. SeatedAtMostOnce(u)
  <2> SUFFICES ASSUME NEW x \in D \cup {new}, NEW y \in D \cup {new}, NEW e \in Range(t.entries),
                      x[1] = y[1], Live(u, x), Live(u, y),
                      e \in Seats(u.pairings[x]), e \in Seats(u.pairings[y])
               PROVE  x = y
    BY <1>7 DEF SeatedAtMostOnce
  <2> DEFINE old(z) == IF z = new THEN id ELSE z
  <2>1. ASSUME NEW z \in D \cup {new}, Live(u, z), e \in Seats(u.pairings[z])
        PROVE  /\ old(z) \in D /\ old(z)[1] = z[1] /\ Live(t, old(z))
               /\ e \in Seats(t.pairings[old(z)])
    BY <1>1, <1>5, <1>8, <1>9, <2>1
  <2>2. /\ old(x) \in D /\ old(x)[1] = x[1] /\ Live(t, old(x))
        /\ e \in Seats(t.pairings[old(x)])
    BY <2>1
  <2>3. /\ old(y) \in D /\ old(y)[1] = y[1] /\ Live(t, old(y))
        /\ e \in Seats(t.pairings[old(y)])
    BY <2>1
  <2>4. old(x) = old(y)
    <3> HIDE DEF old
    <3> QED
      BY <1>11, <2>2, <2>3 DEF Seating, SeatedAtMostOnce
  <2> QED
    BY <1>8, <2>4
<1>14. SeatedAtLeastOnce(u)
  <2> SUFFICES ASSUME NEW x \in D \cup {new}, NEW e \in Range(t.entries),
                      ~(t.format = "swiss" /\ e \in t.withdrawn)
               PROVE  \E y \in D \cup {new} :
                        y[1] = x[1] /\ Live(u, y) /\ e \in Seats(u.pairings[y])
    BY <1>7 DEF SeatedAtLeastOnce
  <2> DEFINE z == IF x = new THEN id ELSE x
  <2>1. z \in D /\ z[1] = x[1]
    BY <1>1, <1>5
  <2> HIDE DEF z
  <2>2. PICK y \in D : y[1] = z[1] /\ Live(t, y) /\ e \in Seats(t.pairings[y])
    BY <1>11, <2>1 DEF Seating, SeatedAtLeastOnce
  <2>3. CASE y = id
    BY <1>5, <1>8, <1>9, <2>1, <2>2, <2>3
  <2>4. CASE y # id
    BY <1>8, <1>9, <2>1, <2>2, <2>4
  <2> QED
    BY <2>3, <2>4
<1>15. Scheduled(u)
  <2> SUFFICES ASSUME t.format = "round_robin", NEW x \in D \cup {new}
               PROVE  /\ x[1] + 1 \in 1..Len(GenerateAllRounds(t.entries))
                      /\ \E i \in 1..Len(GenerateAllRounds(t.entries)[x[1] + 1]) :
                           PlacedAs(GenerateAllRounds(t.entries), u.pairings[x], x[1] + 1, i)
    BY <1>7 DEF Scheduled
  <2> DEFINE z == IF x = new THEN id ELSE x
             all == GenerateAllRounds(t.entries)
  <2>1. /\ z \in D /\ z[1] = x[1]
        /\ u.pairings[x].player1 = t.pairings[z].player1
        /\ u.pairings[x].player2 = t.pairings[z].player2
    BY <1>1, <1>5, <1>7
  <2> HIDE DEF z, all
  <2>2. z[1] + 1 \in 1..Len(all) /\ \E i \in 1..Len(all[z[1] + 1]) :
                           PlacedAs(all, t.pairings[z], z[1] + 1, i)
    BY <1>11, <2>1 DEF Seating, Scheduled, all
  <2>3. \A i : PlacedAs(all, t.pairings[z], z[1] + 1, i) => PlacedAs(all, u.pairings[x], x[1] + 1, i)
    BY <2>1 DEF PlacedAs
  <2> QED
    BY <2>1, <2>2, <2>3 DEF all
<1>16. ByesShared(u)
  <2>1. \A x \in D \cup {new} : \A e : ByeOf(u, x, e) => x \in D /\ ByeOf(t, x, e)
    BY <1>7, <1>10 DEF ByeOf, IsBye
  <2>2. \A x \in D : \A e : ByeOf(t, x, e) => ByeOf(u, x, e)
    BY <1>7 DEF ByeOf, IsBye
  <2>3. \A o : HadBye(t, o) => HadBye(u, o)
    BY <1>7, <2>2 DEF HadBye
  <2> QED
    BY <1>7, <1>11, <2>1, <2>3 DEF Seating, ByesShared
<1>17. Attended(u)
  BY <1>7, <1>8, <1>10, <1>11 DEF Attended, OpenPairings
<1>18. OpenPairings(u) \subseteq u.current
  BY <1>7, <1>8, <1>11 DEF OpenPairings
<1>19. \A x \in u.current : x[1] = u.round
  BY <1>5, <1>7, <1>11
<1> QED
  BY <1>7, <1>8, <1>12, <1>13, <1>14, <1>15, <1>16, <1>17, <1>18, <1>19 DEF Onward, RoundState,
     Seating

\* and a cancelled tournament waits for nothing.
LEMMA CancelOnward ==
  ASSUME NEW t, RoundsInv(t), t.format \in RoundFormats
  PROVE  LET u == CancelTournament(t)
         IN  Onward(u) /\ OpenPairings(u) = {}
<1> DEFINE u == CancelTournament(t)
<1>1. Closed(t, u) /\ u.status = "cancelled"
  BY CancelSound DEF RoundsInv
<1> HIDE DEF u
<1>2. RoundState(t)
  BY DEF RoundsInv, Begun, Onward
<1>3. OpenPairings(u) = {}
  BY <1>1 DEF Closed, OpenPairings, IsOpen, Terminal
<1>4. Calm(t, u)
  <2>1. \A id \in DOMAIN t.pairings : SamePlayers(t.pairings[id], t.pairings[id])
    BY DEF SamePlayers
  <2>2. \A id \in DOMAIN t.pairings : Live(u, id) <=> Live(t, id)
    BY <1>1 DEF Closed, Live, IsOpen, Terminal
  <2>3. \A id \in DOMAIN t.pairings : ~IsOpen(u, id)
    BY <1>1 DEF Closed, IsOpen, Terminal
  <2> QED
    BY <1>1, <2>1, <2>2, <2>3 DEF Calm, Closed
<1>5. RoundState(u)
  BY <1>1, <1>2, <1>4, CalmState DEF Closed
<1> QED
  BY <1>1, <1>3, <1>5 DEF Onward, u

\* The matches of who withdraws are forfeited one by one until none is left.
LEMMA ForfeitsEmpty ==
  ASSUME NEW t, Sound(t), t.format \in RoundFormats, t.status = "active", NEW e,
         NEW n \in Nat, n = Cardinality(Theirs(t, e)), NEW g, Withdrawn(g, t, e, n)
  PROVE  /\ Calm(t, g[n]) /\ g[n].current = t.current /\ g[n].status = "active"
         /\ g[n].round = t.round
         /\ Left(g[n], Theirs(t, e)) = {}
<1> DEFINE ids == Theirs(t, e)
           Rest(v) == Left(v, ids)
           Kept(v, i) == /\ Calm(t, v) /\ v.current = t.current /\ v.status = "active"
                         /\ v.round = t.round
                         /\ Rest(v) = {} \/ Cardinality(Rest(v)) + i <= n
           S == {i \in 0..n : Kept(g[i], i)}
<1>1. \A i \in 0..n : Sound(g[i]) /\ Evolves(t, g[i])
  BY WithdrawalSound
<1>2. IsFiniteSet(ids) /\ \A y \in ids : y \in DOMAIN t.pairings /\ IsOpen(t, y)
  BY TheirsAreFinite DEF Theirs, OpenPairings
<1>3. \A v : Rest(v) \subseteq ids
  BY DEF Left
<1>4. 0 \in S
  <2> DEFINE v == [t EXCEPT !.withdrawn = @ \cup {e}]
  <2>1. g[0] = v
    BY DEF Withdrawn
  <2>2. /\ Evolves(t, v) /\ v.pairings = t.pairings /\ v.status = t.status
        /\ v.current = t.current /\ v.round = t.round
    BY WithdrawnFields
  <2> HIDE DEF v, ids
  <2>3. Calm(t, v)
    BY <2>2 DEF Calm, Evolves, SamePlayers, Live, IsOpen
  <2>4. Rest(v) = ids
    BY <1>2, <2>2 DEF Left, IsOpen
  <2>5. Kept(v, 0)
    <3>1. Cardinality(ids) + 0 <= n
      BY DEF ids
    <3> QED
      BY <2>2, <2>3, <2>4, <3>1
  <2>6. Kept(g[0], 0) /\ 0 \in 0..n
    BY <2>1, <2>5
  <2> HIDE DEF Kept
  <2> QED
    BY <2>6
<1>5. ASSUME NEW i \in 1..n, i - 1 \in S
      PROVE  i \in S
  <2> DEFINE s == g[i - 1]
             v == g[i]
             x == First(Rest(s))
             z == Settled(s, x, ForfeitWinner(s, s.pairings[x]))
  <2>1. v = IF Rest(s) = {} THEN s ELSE Forfeit(s, x)
    BY DEF Withdrawn
  <2>2. Kept(s, i - 1) /\ Sound(s) /\ Evolves(t, s)
    BY <1>1, <1>5
  <2>3. i \in 0..n /\ i \in Nat
    OBVIOUS
  <2>4. Rest(s) # {} => x \in ids /\ x \in OpenPairings(s)
    BY <2>2, FirstLeft
  <2> HIDE DEF s, v, x, ids
  <2>5. Kept(v, i)
    <3>1. CASE Rest(s) = {}
      <4>1. v = s
        BY <2>1, <3>1
      <4> QED
        BY <2>2, <3>1, <4>1
    <3>2. CASE Rest(s) # {}
      <4>1. v = Forfeit(s, x) /\ x \in ids /\ x \in OpenPairings(s)
        BY <2>1, <2>4, <3>2
      <4>2. s.format \in RoundFormats
        BY <2>2, SlottedEvolves
      <4>3. /\ Evolves(s, v)
            /\ Edited(s, z, x) /\ SamePlayers(s.pairings[x], z.pairings[x])
            /\ z.pairings[x].state = "Completed"
            /\ v.current = s.current /\ v.round = s.round
            /\ v.status = s.status /\ v.pairings = z.pairings
        BY <2>2, <4>1, <4>2, ForfeitSound
      <4> HIDE DEF z
      <4>4. /\ Fixed(s, v) /\ DOMAIN v.pairings = DOMAIN s.pairings
            /\ \A y \in DOMAIN s.pairings : y # x => v.pairings[y] = s.pairings[y]
        BY <4>3 DEF Evolves, Edited
      <4>5. Calm(s, v)
        BY <4>1, <4>3, <4>4, EditedCalm
      <4>6. Calm(t, v)
        BY <2>2, <4>5, CalmTransitive
      <4>7. Rest(v) = Rest(s) \ {x}
        <5>1. s.status = "active" /\ v.status = "active"
          BY <2>2, <4>3
        <5>2. \A y \in ids : y \in DOMAIN s.pairings
          BY <1>2, <2>2 DEF Evolves
        <5>3. ~IsOpen(v, x)
          BY <4>3 DEF IsOpen, Terminal
        <5>4. \A y \in ids : IsOpen(v, y) <=> IsOpen(s, y) /\ y # x
          BY <4>4, <5>2, <5>3 DEF IsOpen
        <5> QED
          BY <5>1, <5>4 DEF Left
      <4>8. x \in Rest(s)
        <5>1. s.status = "active" /\ IsOpen(s, x)
          BY <2>2, <4>1 DEF OpenPairings
        <5> QED
          BY <4>1, <5>1 DEF Left
      <4>9. IsFiniteSet(Rest(s))
        BY <1>2, <1>3, FS_Subset
      <4>10. Cardinality(Rest(s)) + (i - 1) <= n
        BY <2>2, <3>2
      <4> HIDE DEF Rest
      <4>11. /\ Cardinality(Rest(v)) = Cardinality(Rest(s)) - 1
             /\ Cardinality(Rest(s)) \in Nat
        BY <4>7, <4>8, <4>9, FS_RemoveElement, FS_CardinalityType
      <4>12. Cardinality(Rest(v)) + i <= n
        BY <2>3, <4>10, <4>11
      <4> QED
        BY <2>2, <4>3, <4>6, <4>12
    <3> QED
      BY <3>1, <3>2
  <2> HIDE DEF Kept
  <2> QED
    BY <2>3, <2>5 DEF v
<1>6. \A i \in 0..n : i \in S
  <2> HIDE DEF S
  <2> QED
    BY <1>4, <1>5, BoundedInduction
<1>7. Kept(g[n], n)
  BY <1>6
<1>8. Rest(g[n]) = {}
  <2>1. IsFiniteSet(Rest(g[n]))
    BY <1>2, <1>3, FS_Subset
  <2> DEFINE R == Rest(g[n])
  <2>2. R = {} \/ Cardinality(R) + n <= n
    BY <1>7
  <2> HIDE DEF R
  <2>3. Cardinality(R) \in Nat
    BY <2>1, FS_CardinalityType DEF R
  <2>4. R = {}
    BY <2>1, <2>2, <2>3, FS_EmptySet DEF R
  <2> QED
    BY <2>4 DEF R
<1> QED
  BY <1>7, <1>8

\* So does a withdrawal, though it may complete several rounds at once.
LEMMA WithdrawOnward ==
  ASSUME NEW t, RoundsInv(t), t.format \in RoundFormats, t.status = "active", NEW e
  PROVE  Onward(WithdrawPlayer(t, e))
<1> DEFINE n == Cardinality(Theirs(t, e))
           u == WithdrawPlayer(t, e)
<1>1. Sound(t) /\ RoundState(t) /\ \E id \in t.current : IsOpen(t, id)
  BY DEF RoundsInv, Begun, Onward
<1>2. n \in Nat
  BY <1>1, TheirsAreFinite
<1>3. PICK g : Withdrawn(g, t, e, n)
  <2>1. \A k \in Nat : k = n => \E g : Withdrawn(g, t, e, k)
    BY WithdrawalRuns
  <2> HIDE DEF n
  <2> QED
    BY <1>2, <2>1
<1> DEFINE s == g[n]
<1>4. /\ Sound(s) /\ Evolves(t, s) /\ s.withdrawn = t.withdrawn \cup {e}
      /\ Calm(t, s) /\ s.current = t.current /\ s.status = "active" /\ s.round = t.round
      /\ Left(s, Theirs(t, e)) = {}
  <2>1. \A k \in Nat : k = n =>
           /\ Sound(g[k]) /\ Evolves(t, g[k])
           /\ g[k].withdrawn = t.withdrawn \cup {e}
    <3> SUFFICES ASSUME NEW k \in Nat, k = n
                 PROVE  /\ Sound(g[k]) /\ Evolves(t, g[k])
                        /\ g[k].withdrawn = t.withdrawn \cup {e}
      OBVIOUS
    <3>1. Withdrawn(g, t, e, k) /\ k \in 0..k
      BY <1>3
    <3> QED
      BY <1>1, <3>1, WithdrawalSound
  <2>2. \A k \in Nat : k = n =>
           /\ Calm(t, g[k]) /\ g[k].current = t.current /\ g[k].status = "active"
           /\ g[k].round = t.round
           /\ Left(g[k], Theirs(t, e)) = {}
    BY <1>1, <1>3, ForfeitsEmpty
  <2> HIDE DEF n
  <2> QED
    BY <1>2, <2>1, <2>2
<1>5. u = AdvanceIfRoundComplete(s)
  BY <1>3 DEF Withdrawn
<1> HIDE DEF n, s, u
<1>6. Seating(s)
  BY <1>1, <1>4, CalmKeeps DEF RoundState
<1>7. Attended(s)
  <2> SUFFICES ASSUME NEW id \in OpenPairings(s)
               PROVE  /\ s.pairings[id].player2 # Nobody
                      /\ s.pairings[id].player1 \notin s.withdrawn
                      /\ s.pairings[id].player2 \notin s.withdrawn
    BY DEF Attended
  <2>1. IsOpen(s, id) /\ id \in OpenPairings(t) /\ SamePlayers(t.pairings[id], s.pairings[id])
    BY <1>4 DEF Calm, OpenPairings
  <2>2. id \notin Theirs(t, e)
    BY <1>4, <2>1 DEF Left
  <2>3. e # t.pairings[id].player1 /\ e # t.pairings[id].player2
    BY <2>1, <2>2 DEF Theirs, Seats
  <2>4. /\ t.pairings[id].player2 # Nobody
        /\ t.pairings[id].player1 \notin t.withdrawn
        /\ t.pairings[id].player2 \notin t.withdrawn
    BY <1>1, <2>1 DEF RoundState, Attended
  <2> QED
    BY <1>4, <2>1, <2>3, <2>4 DEF SamePlayers
<1>8. RoundState(s)
  <2>1. OpenPairings(s) \subseteq OpenPairings(t)
    BY <1>4 DEF Calm, OpenPairings
  <2> QED
    BY <1>1, <1>4, <1>6, <1>7, <2>1 DEF RoundState
<1>9. Field(s) # {}
  <2>1. PICK id \in t.current : IsOpen(t, id)
    BY <1>1
  <2>2. id \in OpenPairings(t) /\ id \in DOMAIN t.pairings
    BY <1>1, <2>1 DEF Sound, OpenPairings
  <2> DEFINE a == t.pairings[id].player1
             b == t.pairings[id].player2
  <2>3. /\ a \in Range(t.entries) /\ b \in Range(t.entries) /\ a # b
        /\ a \notin t.withdrawn /\ b \notin t.withdrawn
    BY <1>1, <2>2 DEF RoundState, Seating, Matched, Attended
  <2>4. a \notin s.withdrawn \/ b \notin s.withdrawn
    BY <1>4, <2>3
  <2>5. s.entries = t.entries
    BY <1>4 DEF Calm, Fixed
  <2> HIDE DEF a, b
  <2> QED
    BY <2>3, <2>4, <2>5 DEF Field
<1>10. s.current # {} /\ s.format \in RoundFormats
  BY <1>1, <1>4 DEF Calm, Fixed
<1>11. Onward(u)
  BY <1>4, <1>5, <1>8, <1>9, <1>10, AdvanceOnward
<1> QED
  BY <1>11 DEF u

-----------------------------------------------------------------------------
\* A tournament in draft has no round yet.
LEMMA DraftRounds ==
  ASSUME NEW u, Sound(u), u.status = "draft", u.withdrawn = {}
  PROVE  RoundsInv(u)
<1>1. DOMAIN u.pairings = {} /\ u.current = {} /\ OpenPairings(u) = {}
  BY DraftFields
<1>2. Onward(u)
  BY <1>1, RoundsOfNone DEF Onward
<1> QED
  BY <1>1, <1>2 DEF RoundsInv, Begun

\* Once it has been started, what a cascade returns.
LEMMA StartedRounds ==
  ASSUME NEW u, Sound(u), u.status \in {"active", "completed"},
         u.format \in RoundFormats => Onward(u)
  PROVE  RoundsInv(u)
BY DEF RoundsInv, Begun, Onward

\* An open pairing is one of a tournament that started.
LEMMA OpenIsNotDraft ==
  ASSUME NEW t, Sound(t), NEW id \in OpenPairings(t)
  PROVE  t.status # "draft"
BY DEF OpenPairings, Sound

\* What an operation on an open pairing has to be shown to do.
LEMMA OpenFormats ==
  ASSUME NEW t, RoundsInv(t), NEW id \in OpenPairings(t), NEW u, Sound(u),
         u.status \in {t.status, "completed"}, u.format = t.format,
         t.format \in RoundFormats => Onward(u)
  PROVE  RoundsInv(u)
<1>1. t.status # "draft" /\ t.status \in {"active", "completed", "cancelled"}
  BY OpenIsNotDraft DEF RoundsInv
<1>2. t.format \in RoundFormats => t.status = "active"
  BY OpenIsActive
<1> QED
  BY <1>1, <1>2 DEF RoundsInv, Begun, Onward

\* Every step of TournamentRounds keeps the invariant,
LEMMA RoundsStep ==
  ASSUME RoundsInv(tournament), [Next]_tournament
  PROVE  RoundsInv(tournament')
<1> DEFINE t == tournament
<1>0. Sound(t)
  BY DEF RoundsInv
<1>1. CASE Register
  <2>1. Sound(tournament') /\ tournament'.status = "draft" /\ tournament'.withdrawn = {}
    BY <1>0, <1>1, RegisterSound DEF Register, RoundsInv
  <2> QED
    BY <2>1, DraftRounds
<1>2. ASSUME NEW e \in 1..MaxEntries, Unregister(e)
      PROVE  RoundsInv(tournament')
  <2>1. Sound(tournament') /\ tournament'.status = "draft" /\ tournament'.withdrawn = {}
    BY <1>0, <1>2, UnregisterSound DEF Unregister, RoundsInv
  <2> QED
    BY <2>1, DraftRounds
<1>3. ASSUME NEW e \in 1..MaxEntries, Withdraw(e)
      PROVE  RoundsInv(tournament')
  <2>1. tournament' = WithdrawPlayer(t, e) /\ t.status = "active"
    BY <1>3 DEF Withdraw
  <2>2. /\ Sound(tournament') /\ tournament'.status \in {"active", "completed"}
        /\ tournament'.format = t.format
    BY <1>0, <2>1, WithdrawSound, SlottedEvolves
  <2>3. t.format \in RoundFormats => Onward(tournament')
    BY <2>1, WithdrawOnward
  <2> QED
    BY <2>2, <2>3, StartedRounds
<1>4. CASE Start
  <2>1. tournament' = StartTournament(t) /\ t.status = "draft" /\ Len(t.entries) >= 2
    BY <1>4 DEF Start
  <2>2. /\ Sound(tournament') /\ tournament'.status \in {"active", "completed"}
        /\ tournament'.format = t.format
    BY <1>0, <2>1, StartSound
  <2>3. t.format \in RoundFormats => Onward(tournament')
    BY <1>0, <2>1, StartOnward DEF RoundsInv
  <2> QED
    BY <2>2, <2>3, StartedRounds
<1>5. ASSUME NEW id \in DOMAIN tournament.pairings, NEW winner, DecidePairing(id, winner)
      PROVE  RoundsInv(tournament')
  <2>1. id \in OpenPairings(t) /\ tournament' = Decide(t, id, winner)
    BY <1>5, OpenPairingsAreOpen DEF DecidePairing
  <2>2. /\ Sound(tournament') /\ tournament'.status \in {t.status, "completed"}
        /\ tournament'.format = t.format
    BY <1>0, <2>1, DecideSound, SlottedEvolves
  <2>3. t.format \in RoundFormats => Onward(tournament')
    BY <2>1, DecideOnward
  <2> QED
    BY <2>1, <2>2, <2>3, OpenFormats
<1>6. ASSUME NEW id \in DOMAIN tournament.pairings, VoidPairing(id)
      PROVE  RoundsInv(tournament')
  <2> DEFINE v == Voided(t, id, SettledLife)
  <2>1. id \in OpenPairings(t) /\ tournament' = Replay(v, id)
    BY <1>6, OpenPairingsAreOpen DEF VoidPairing, Voided
  <2>2. /\ WellFormed(v)
        /\ Edited(t, v, id)
        /\ SameSeats(t.pairings[id], v.pairings[id])
        /\ v.pairings[id].state = "DoubleNoShow"
    BY <1>0, VoidedFields DEF Sound, Basic
  <2> HIDE DEF v
  <2>3. /\ Sound(tournament') /\ Replayed(v, tournament', id)
        /\ t.format # "double_elim" => ReplayId(v, id) \notin DOMAIN t.pairings
    BY <1>0, <2>1, <2>2, ReplaySound
  <2>4. tournament'.status = t.status /\ tournament'.format = t.format
    BY <2>2, <2>3 DEF Replayed, Beside, Edited, Fixed
  <2>5. t.format \in RoundFormats => Onward(tournament')
    <3>1. t.format \in RoundFormats => t.format # "double_elim"
      BY DEF RoundFormats
    <3> QED
      BY <2>1, <2>2, <2>3, <3>1, ReplayOnward
  <2> QED
    BY <2>1, <2>3, <2>4, <2>5, OpenFormats
<1>7. ASSUME NEW id \in DOMAIN tournament.pairings, ReleasePairing(id)
      PROVE  RoundsInv(tournament')
  <2> DEFINE s == Released(t, id, SettledLife)
  <2>1. id \in OpenPairings(t) /\ t.format \in RoundFormats
        /\ tournament' = AdvanceIfRoundComplete(s)
    BY <1>7, OpenPairingsAreOpen DEF ReleasePairing, Released
  <2>2. /\ Sound(tournament') /\ tournament'.status \in {t.status, "completed"}
        /\ Edited(t, s, id) /\ Evolves(s, tournament')
    BY <1>0, <2>1, ReleaseSound
  <2>3. Onward(tournament')
    BY <2>1, ReleaseOnward
  <2>4. tournament'.format = t.format
    BY <2>2 DEF Edited, Fixed, Evolves
  <2> QED
    BY <2>1, <2>2, <2>3, <2>4, OpenFormats
<1>8. CASE Cancel
  <2>1. tournament' = CancelTournament(t)
    BY <1>8 DEF Cancel
  <2>2. Sound(tournament') /\ tournament'.status = "cancelled" /\ tournament'.format = t.format
    BY <1>0, <2>1, CancelSound DEF Closed, Fixed
  <2>3. t.format \in RoundFormats => Onward(tournament') /\ OpenPairings(tournament') = {}
    BY <2>1, CancelOnward
  <2> QED
    BY <2>2, <2>3 DEF RoundsInv, Begun
<1>9. CASE UNCHANGED tournament
  BY <1>9
<1> QED
  BY <1>1, <1>2, <1>3, <1>4, <1>5, <1>6, <1>7, <1>8, <1>9 DEF Next

\* which holds at the start.
LEMMA RoundsStart == Init => RoundsInv(tournament)
<1> SUFFICES ASSUME NEW format \in Formats, tournament = NewTournament(format)
             PROVE  RoundsInv(tournament)
  BY DEF Init
<1>1. Sound(tournament) /\ tournament.status = "draft" /\ tournament.withdrawn = {}
  BY NewTournamentSound
<1> QED
  BY <1>1, DraftRounds

-----------------------------------------------------------------------------
(* What the invariant of rounds is for.                                    *)

\* The name of a pairing tells its round.
LEMMA LiveOfRound ==
  ASSUME NEW t, RoundsInv(t), t.format \in RoundFormats, NEW id \in DOMAIN t.pairings
  PROVE  t.pairings[id].round = id[1] /\ id[1] \in Nat
BY DEF RoundsInv, Sound, Basic, Numbered

\* In every round that was paired everybody has one match or bye.
LEMMA PlayersHaveOneMatch ==
  ASSUME NEW t, RoundsInv(t), t.format \in RoundFormats,
         NEW x \in DOMAIN t.pairings, NEW e \in Range(t.entries)
  PROVE  LET of == {id \in DOMAIN t.pairings :
                      /\ t.pairings[id].round = t.pairings[x].round
                      /\ Live(t, id) /\ e \in Seats(t.pairings[id])}
         IN  \/ Cardinality(of) = 1
             \/ of = {} /\ t.format = "swiss" /\ e \in t.withdrawn
<1> DEFINE of == {id \in DOMAIN t.pairings :
                    /\ t.pairings[id].round = t.pairings[x].round
                    /\ Live(t, id) /\ e \in Seats(t.pairings[id])}
<1>1. SeatedAtMostOnce(t) /\ SeatedAtLeastOnce(t)
  BY DEF RoundsInv, Begun, Onward, RoundState, Seating
<1>2. \A id \in of : id \in DOMAIN t.pairings /\ id[1] = x[1] /\ Live(t, id)
                     /\ e \in Seats(t.pairings[id])
  BY LiveOfRound
<1>3. \A id \in DOMAIN t.pairings :
        id[1] = x[1] /\ Live(t, id) /\ e \in Seats(t.pairings[id]) => id \in of
  BY LiveOfRound
<1> HIDE DEF of
<1>4. \A y, z \in of : y = z
  BY <1>1, <1>2 DEF SeatedAtMostOnce
<1>5. CASE of # {}
  <2>1. PICK y \in of : of = {y}
    BY <1>4, <1>5
  <2>2. Cardinality({y}) = 1
    BY FS_Singleton
  <2> QED
    BY <2>1, <2>2 DEF of
<1>6. CASE of = {}
  <2>1. t.format = "swiss" /\ e \in t.withdrawn
    BY <1>1, <1>3, <1>6 DEF SeatedAtLeastOnce
  <2> QED
    BY <1>6, <2>1 DEF of
<1> QED
  BY <1>5, <1>6

\* Nobody meets the same player in two rounds of a round robin.
LEMMA MeetOnce ==
  ASSUME NEW t, RoundsInv(t), t.format = "round_robin",
         NEW x \in DOMAIN t.pairings, NEW y \in DOMAIN t.pairings,
         Seats(t.pairings[x]) = Seats(t.pairings[y])
  PROVE  t.pairings[x].round = t.pairings[y].round
<1> DEFINE all == GenerateAllRounds(t.entries)
           p == t.pairings[x]
           q == t.pairings[y]
           r == x[1] + 1
           s == y[1] + 1
<1>1. t.format \in RoundFormats
  BY DEF RoundFormats
<1>2. RoundRobin(all, Range(t.entries))
  BY RoundRobinOf DEF RoundsInv, Sound, Basic, Started
<1>3. Scheduled(t)
  BY <1>1 DEF RoundsInv, Begun, Onward, RoundState, Seating
<1>4. /\ p.round = x[1] /\ x[1] \in Nat
      /\ q.round = y[1] /\ y[1] \in Nat
  BY <1>1, LiveOfRound
<1> HIDE DEF all
<1>5. /\ r \in 1..Len(all) /\ \E i \in 1..Len(all[r]) : PlacedAs(all, p, r, i)
      /\ s \in 1..Len(all) /\ \E j \in 1..Len(all[s]) : PlacedAs(all, q, s, j)
  BY <1>3 DEF Scheduled, all
<1>6. PICK i \in 1..Len(all[r]) : PlacedAs(all, p, r, i)
  BY <1>5
<1>7. PICK j \in 1..Len(all[s]) : PlacedAs(all, q, s, j)
  BY <1>5
<1>8. \/ p.player1 = q.player1 /\ p.player2 = q.player2
      \/ p.player1 = q.player2 /\ p.player2 = q.player1
  BY DEF Seats
<1>9. Same(all[r][i], all[s][j])
  BY <1>6, <1>7, <1>8 DEF Same, PlacedAs
<1>10. r = s
  <2> HIDE DEF r, s
  <2> QED
    BY <1>2, <1>5, <1>9 DEF RoundRobin
<1> QED
  BY <1>4, <1>10

\* A set of more than one has two.
LEMMA TwoOfMany ==
  ASSUME NEW S, IsFiniteSet(S), Cardinality(S) > 1
  PROVE  \E x, y \in S : x # y
<1>1. SUFFICES ASSUME \A x, y \in S : x = y
               PROVE  FALSE
  OBVIOUS
<1>2. Cardinality(S) \in Nat
  BY FS_CardinalityType
<1>3. S # {}
  BY <1>2, FS_EmptySet
<1>4. PICK x \in S : S = {x}
  BY <1>1, <1>3
<1>5. Cardinality({x}) = 1
  BY FS_Singleton
<1> QED
  BY <1>4, <1>5

\* A second bye in a Swiss tournament comes after everybody's first.
LEMMA ByesOfRounds ==
  ASSUME NEW t, RoundsInv(t), t.format = "swiss"
  PROVE  LET of(e) == {id \in DOMAIN t.pairings :
                         IsBye(t.pairings[id]) /\ t.pairings[id].player1 = e}
         IN  \A e : Cardinality(of(e)) > 1 =>
               \A o \in Range(t.entries) \ t.withdrawn : Cardinality(of(o)) > 0
<1> DEFINE of(e) == {id \in DOMAIN t.pairings :
                       IsBye(t.pairings[id]) /\ t.pairings[id].player1 = e}
<1>1. t.format \in RoundFormats
  BY DEF RoundFormats
<1>2. ByesShared(t)
  BY <1>1 DEF RoundsInv, Begun, Onward, RoundState, Seating
<1>3. \A e : IsFiniteSet(of(e))
  <2>1. IsFiniteSet(DOMAIN t.pairings)
    BY DEF RoundsInv, Sound, Basic, WellFormed
  <2>2. \A e : of(e) \in SUBSET DOMAIN t.pairings
    OBVIOUS
  <2> HIDE DEF of
  <2> QED
    BY <2>1, <2>2, FS_Subset
<1>4. \A e, id : id \in of(e) <=> id \in DOMAIN t.pairings /\ ByeOf(t, id, e)
  BY DEF ByeOf
<1> HIDE DEF of
<1>5. ASSUME NEW e, Cardinality(of(e)) > 1, NEW o \in Range(t.entries) \ t.withdrawn
      PROVE  Cardinality(of(o)) > 0
  <2>1. PICK x \in of(e) : \E y \in of(e) : x # y
    BY <1>3, <1>5, TwoOfMany
  <2>2. PICK y \in of(e) : x # y
    BY <2>1
  <2>3. HadBye(t, o)
    BY <1>2, <1>4, <1>5, <2>1, <2>2 DEF ByesShared
  <2>4. of(o) # {}
    BY <1>4, <2>3 DEF HadBye
  <2>5. Cardinality(of(o)) \in Nat /\ Cardinality(of(o)) # 0
    BY <1>3, <2>4, FS_CardinalityType, FS_EmptySet
  <2> QED
    BY <2>5
<1> QED
  BY <1>5 DEF of

\* The invariant makes the rounds fair,
LEMMA InvIsFair == RoundsInv(tournament) => RoundsAreFair
<1> SUFFICES ASSUME RoundsInv(tournament) PROVE RoundsSeatEverybodyOnce /\ SwissByesAreShared
  BY DEF RoundsAreFair
<1> DEFINE t == tournament
<1>1. ASSUME t.format \in RoundFormats, NEW x \in DOMAIN t.pairings
      PROVE  LET k == t.pairings[x].round
                 live == {id \in PairingsOfRound(k) : t.pairings[id].state # "DoubleNoShow"}
                 of(e) == {id \in live : e \in Seats(t.pairings[id])}
             IN  /\ \A id \in live : t.pairings[id].player1 # t.pairings[id].player2
                 /\ \A e \in Range(t.entries) :
                      \/ Cardinality(of(e)) = 1
                      \/ of(e) = {} /\ t.format = "swiss" /\ e \in t.withdrawn
                 /\ t.format = "round_robin" =>
                      \A id \in live, other \in DOMAIN t.pairings :
                        t.pairings[other].round # k
                          => Seats(t.pairings[id]) # Seats(t.pairings[other])
  <2> DEFINE k == t.pairings[x].round
             live == {id \in PairingsOfRound(k) : t.pairings[id].state # "DoubleNoShow"}
             of(e) == {id \in live : e \in Seats(t.pairings[id])}
             seated(e) == {id \in DOMAIN t.pairings :
                             t.pairings[id].round = k /\ Live(t, id)
                               /\ e \in Seats(t.pairings[id])}
  <2>1. Matched(t)
    BY <1>1 DEF RoundsInv, Begun, Onward, RoundState, Seating
  <2>2. live \subseteq DOMAIN t.pairings /\ \A id \in live : t.pairings[id].round = k
    BY DEF PairingsOfRound
  <2>3. \A id \in live : t.pairings[id].player1 # t.pairings[id].player2
    BY <2>1, <2>2 DEF Matched
  <2>4. \A e : of(e) = seated(e)
    BY DEF PairingsOfRound, Live
  <2>5. \A e \in Range(t.entries) :
          \/ Cardinality(seated(e)) = 1
          \/ seated(e) = {} /\ t.format = "swiss" /\ e \in t.withdrawn
    BY <1>1, PlayersHaveOneMatch
  <2>6. t.format = "round_robin" =>
          \A id \in live : \A other \in DOMAIN t.pairings :
            t.pairings[other].round # k => Seats(t.pairings[id]) # Seats(t.pairings[other])
    BY <2>2, MeetOnce
  <2> HIDE DEF live, seated
  <2> QED
    BY <2>3, <2>4, <2>5, <2>6 DEF live
<1>2. RoundsSeatEverybodyOnce
  BY <1>1 DEF RoundsSeatEverybodyOnce
<1>3. SwissByesAreShared
  BY ByesOfRounds DEF SwissByesAreShared
<1> QED
  BY <1>2, <1>3

\* keeps a match open in a tournament that is on, and ranks a podium.
LEMMA RoundsHaveAMatch ==
  ASSUME RoundsInv(tournament), tournament.format \in RoundFormats
  PROVE  ActiveHasAMatch /\ RanksAreAPodium
<1>1. Onward(tournament) /\ tournament.current \subseteq DOMAIN tournament.pairings
  BY DEF RoundsInv, Begun, Sound
<1>2. ActiveHasAMatch
  BY <1>1 DEF Onward, ActiveHasAMatch, OpenPairings
<1>3. RanksAreAPodium
  BY <1>1 DEF Onward, IsPodium, RanksAreAPodium
<1> QED
  BY <1>2, <1>3

\* The invariant of the formats that are played in rounds.
RoundsInvariant == RoundsInv(tournament)

\* It holds in every state of TournamentRounds.
THEOREM RoundsAreInvariant == Spec => []RoundsInvariant
<1>1. Init => RoundsInvariant
  BY RoundsStart DEF RoundsInvariant
<1>2. RoundsInvariant /\ [Next]_tournament => RoundsInvariant'
  BY RoundsStep DEF RoundsInvariant
<1> QED
  BY <1>1, <1>2, PTL DEF Spec

\* In every round everybody has exactly one match or bye, nobody meets himself,
\* a round robin brings no two players together twice, and in a Swiss system
\* the bye goes round before anybody has a second: for any number of entries,
\* decisions, forfeits, replays, releases and withdrawals.
THEOREM RoundsStayFair == Spec => []RoundsAreFair
<1>1. RoundsInvariant => RoundsAreFair
  BY InvIsFair DEF RoundsInvariant
<1> QED
  BY <1>1, RoundsAreInvariant, PTL

\* A Swiss or round-robin tournament that is active has an open match: the round
\* that an operation completes is advanced by it, through as many rounds as
\* that completes.  advanceIfRoundComplete.
THEOREM RoundsGoOn ==
  Spec => [](tournament.format \in RoundFormats => ActiveHasAMatch)
<1>1. RoundsInvariant => (tournament.format \in RoundFormats => ActiveHasAMatch)
  BY RoundsHaveAMatch DEF RoundsInvariant
<1> QED
  BY <1>1, RoundsAreInvariant, PTL

\* The final table of a completed Swiss or round-robin tournament ranks every
\* entry, with no rank skipped but for ties.  completeTournament, finalTable.
THEOREM RoundsRankAPodium ==
  Spec => [](tournament.format \in RoundFormats => RanksAreAPodium)
<1>1. RoundsInvariant => (tournament.format \in RoundFormats => RanksAreAPodium)
  BY RoundsHaveAMatch DEF RoundsInvariant
<1> QED
  BY <1>1, RoundsAreInvariant, PTL

-----------------------------------------------------------------------------
(* What is final.                                                          *)

\* What was decided stays as it was.
Lasting(t, u) ==
  \A id \in DOMAIN t.pairings :
    t.pairings[id].state = "Completed" =>
      id \in DOMAIN u.pairings /\ u.pairings[id] = t.pairings[id]

\* A cascade keeps what is decided,
LEMMA EvolvesLasting ==
  ASSUME NEW t, NEW u, Evolves(t, u)
  PROVE  Lasting(t, u)
BY DEF Evolves, Lasting, IsOpen, Terminal

\* so does a change of an open pairing,
LEMMA EditedLasting ==
  ASSUME NEW t, NEW id \in OpenPairings(t), NEW u, Edited(t, u, id)
  PROVE  Lasting(t, u)
BY DEF Edited, Lasting, OpenPairings, IsOpen, Terminal

\* one after the other do,
LEMMA LastingTransitive ==
  ASSUME NEW s, NEW t, NEW u, Lasting(s, t), Lasting(t, u)
  PROVE  Lasting(s, u)
BY DEF Lasting

\* and so does a replay.
LEMMA ReplayLasting ==
  ASSUME NEW t, NEW id \in OpenPairings(t), NEW v, Edited(t, v, id), NEW u, Replayed(v, u, id),
         t.format # "double_elim" => ReplayId(v, id) \notin DOMAIN t.pairings
  PROVE  Lasting(t, u)
<1>1. /\ DOMAIN v.pairings = DOMAIN t.pairings /\ v.format = t.format
      /\ \A x \in DOMAIN t.pairings : x # id => v.pairings[x] = t.pairings[x]
  BY DEF Edited, Fixed
<1>2. t.pairings[id].state # "Completed"
  BY DEF OpenPairings, IsOpen, Terminal
<1>3. ASSUME NEW x \in DOMAIN t.pairings, t.pairings[x].state = "Completed"
      PROVE  x \in DOMAIN u.pairings /\ u.pairings[x] = t.pairings[x]
  <2>1. x # id
    BY <1>2, <1>3
  <2>2. x # ReplayId(v, id)
    BY <1>1, <1>3, <2>1 DEF ReplayId
  <2> QED
    BY <1>1, <1>3, <2>1, <2>2 DEF Replayed
<1> QED
  BY <1>3 DEF Lasting

\* Every step keeps what is decided, and the format.
LEMMA RoundsStepLasts ==
  ASSUME Sound(tournament), [Next]_tournament
  PROVE  /\ Lasting(tournament, tournament')
         /\ tournament.status = "completed" => tournament'.status = "completed"
         /\ tournament'.format = tournament.format
<1> DEFINE t == tournament
<1>1. CASE Register
  <2>1. /\ tournament'.pairings = t.pairings /\ t.status = "draft"
        /\ tournament'.format = t.format
    BY <1>1, RegisterSound DEF Register
  <2> QED
    BY <2>1 DEF Lasting
<1>2. ASSUME NEW e \in 1..MaxEntries, Unregister(e)
      PROVE  /\ Lasting(t, tournament') /\ t.status # "completed"
             /\ tournament'.format = t.format
  <2>1. /\ tournament'.pairings = t.pairings /\ t.status = "draft"
        /\ tournament'.format = t.format
    BY <1>2, UnregisterSound DEF Unregister
  <2> QED
    BY <2>1 DEF Lasting
<1>3. ASSUME NEW e \in 1..MaxEntries, Withdraw(e)
      PROVE  /\ Lasting(t, tournament') /\ t.status # "completed"
             /\ tournament'.format = t.format
  <2>1. Evolves(t, tournament') /\ t.status = "active"
    BY <1>3, WithdrawSound DEF Withdraw
  <2> QED
    BY <2>1, EvolvesLasting DEF Evolves, Fixed
<1>4. CASE Start
  <2>1. /\ t.status = "draft" /\ DOMAIN t.pairings = {}
        /\ tournament'.format = t.format
    BY <1>4, StartSound DEF Start, Sound
  <2> QED
    BY <2>1 DEF Lasting
<1>5. ASSUME NEW id \in DOMAIN tournament.pairings, NEW winner, DecidePairing(id, winner)
      PROVE  /\ Lasting(t, tournament')
             /\ t.status = "completed" => tournament'.status = "completed"
             /\ tournament'.format = t.format
  <2>1. id \in OpenPairings(t) /\ tournament' = Decide(t, id, winner)
    BY <1>5, OpenPairingsAreOpen DEF DecidePairing
  <2>2. Evolves(t, tournament') /\ tournament'.status \in {t.status, "completed"}
    BY <2>1, DecideSound
  <2> QED
    BY <2>2, EvolvesLasting DEF Evolves, Fixed
<1>6. ASSUME NEW id \in DOMAIN tournament.pairings, VoidPairing(id)
      PROVE  /\ Lasting(t, tournament')
             /\ t.status = "completed" => tournament'.status = "completed"
             /\ tournament'.format = t.format
  <2> DEFINE v == Voided(t, id, SettledLife)
  <2>1. id \in OpenPairings(t) /\ tournament' = Replay(v, id)
    BY <1>6, OpenPairingsAreOpen DEF VoidPairing, Voided
  <2>2. /\ WellFormed(v)
        /\ Edited(t, v, id)
        /\ SameSeats(t.pairings[id], v.pairings[id])
        /\ v.pairings[id].state = "DoubleNoShow"
    BY VoidedFields DEF Sound, Basic
  <2> HIDE DEF v
  <2>3. /\ Replayed(v, tournament', id)
        /\ t.format # "double_elim" => ReplayId(v, id) \notin DOMAIN t.pairings
    BY <2>1, <2>2, ReplaySound
  <2>4. tournament'.status = t.status /\ tournament'.format = t.format
    BY <2>2, <2>3 DEF Replayed, Beside, Edited, Fixed
  <2> QED
    BY <2>1, <2>2, <2>3, <2>4, ReplayLasting
<1>7. ASSUME NEW id \in DOMAIN tournament.pairings, ReleasePairing(id)
      PROVE  /\ Lasting(t, tournament')
             /\ t.status = "completed" => tournament'.status = "completed"
             /\ tournament'.format = t.format
  <2> DEFINE s == Released(t, id, SettledLife)
  <2>1. id \in OpenPairings(t) /\ tournament' = AdvanceIfRoundComplete(s)
    BY <1>7, OpenPairingsAreOpen DEF ReleasePairing, Released
  <2>2. /\ tournament'.status \in {t.status, "completed"}
        /\ Edited(t, s, id) /\ Evolves(s, tournament')
    BY <2>1, ReleaseSound
  <2> QED
    BY <2>1, <2>2, EditedLasting, EvolvesLasting, LastingTransitive DEF Evolves, Edited, Fixed
<1>8. CASE Cancel
  <2>1. Closed(t, tournament') /\ t.status # "completed"
    BY <1>8, CancelSound DEF Cancel
  <2> QED
    BY <2>1 DEF Closed, Lasting, IsOpen, Terminal, Fixed
<1>9. CASE UNCHANGED tournament
  BY <1>9 DEF Lasting
<1> QED
  BY <1>1, <1>2, <1>3, <1>4, <1>5, <1>6, <1>7, <1>8, <1>9 DEF Next

\* Nothing happens in a tournament of rounds that is completed.
LEMMA CompletedRoundsRest ==
  ASSUME RoundsInv(tournament), [Next]_tournament,
         tournament.format \in RoundFormats, tournament.status = "completed"
  PROVE  tournament' = tournament
<1>1. OpenPairings(tournament) = {}
  BY DEF RoundsInv, Begun
<1>2. \A id \in DOMAIN tournament.pairings : ~IsOpen(tournament, id)
  BY <1>1 DEF OpenPairings
<1> QED
  BY <1>2 DEF Next, Register, Unregister, Withdraw, Start, DecidePairing, VoidPairing,
              ReleasePairing, Cancel

\* A decided pairing stays decided, for the same player, and a completed
\* tournament completed, in every format.
THEOREM DecisionsAreFinal ==
  Spec => [][/\ \A id \in DOMAIN tournament.pairings :
                  tournament.pairings[id].state = "Completed" =>
                    /\ id \in DOMAIN tournament'.pairings
                    /\ tournament'.pairings[id].state = tournament.pairings[id].state
                    /\ tournament'.pairings[id].winner = tournament.pairings[id].winner
             /\ tournament.status = "completed" => tournament'.status = "completed"]_tournament
<1>1. SoundRounds /\ [Next]_tournament =>
        /\ \A id \in DOMAIN tournament.pairings :
             tournament.pairings[id].state = "Completed" =>
               /\ id \in DOMAIN tournament'.pairings
               /\ tournament'.pairings[id].state = tournament.pairings[id].state
               /\ tournament'.pairings[id].winner = tournament.pairings[id].winner
        /\ tournament.status = "completed" => tournament'.status = "completed"
  BY RoundsStepLasts DEF SoundRounds, Lasting
<1> QED
  BY <1>1, RoundsAreSound, PTL DEF Spec

\* In a Swiss or round-robin tournament a settled pairing is never changed, and
\* once completed nothing is: no late decision, deadline or withdrawal reaches
\* the final ranks.
THEOREM RoundResultsAreFinal ==
  Spec /\ tournament.format \in RoundFormats => ResultsAreFinal
<1> DEFINE Final ==
      /\ \A id \in DOMAIN tournament.pairings :
           tournament.pairings[id].state = "Completed" =>
             /\ id \in DOMAIN tournament'.pairings
             /\ tournament'.pairings[id].state = tournament.pairings[id].state
             /\ tournament'.pairings[id].winner = tournament.pairings[id].winner
      /\ tournament.status = "completed" =>
           /\ tournament'.status = "completed"
           /\ tournament'.ranks = tournament.ranks
           /\ tournament'.closings = tournament.closings
           /\ DOMAIN tournament'.pairings = DOMAIN tournament.pairings
<1>1. RoundsInvariant /\ tournament.format \in RoundFormats /\ [Next]_tournament => Final
  <2> SUFFICES ASSUME RoundsInv(tournament), tournament.format \in RoundFormats,
                      [Next]_tournament
               PROVE  Final
    BY DEF RoundsInvariant
  <2>1. Lasting(tournament, tournament')
    BY RoundsStepLasts DEF RoundsInv
  <2>2. tournament.status = "completed" => tournament' = tournament
    BY CompletedRoundsRest
  <2> QED
    BY <2>1, <2>2 DEF Lasting
<1>2. SoundRounds /\ tournament.format \in RoundFormats /\ [Next]_tournament
        => (tournament.format \in RoundFormats)'
  BY RoundsStepLasts DEF SoundRounds
<1>3. Spec /\ tournament.format \in RoundFormats => [][Final]_tournament
  <2> HIDE DEF Final
  <2> QED
    BY <1>1, <1>2, RoundsAreInvariant, RoundsAreSound, PTL DEF Spec
<1> QED
  BY <1>3 DEF ResultsAreFinal

-----------------------------------------------------------------------------
(* The life of a pairing: phases, deadlines, series.                       *)

\* The fields of a life, and its phases while the pairing is open.
LifeFields ==
  {"phase", "by", "disputed", "overdue", "ready", "games", "tracked", "timer"}
Phases == {"Negotiating", "Reported", "Ready", "InProgress"}

\* evaluateSeries under the rules r for the players a and b.
Verdict(r, games, a, b) ==
  LET pa == SeriesScore(games, a)
      pb == SeriesScore(games, b)
      leader == IF pa > pb THEN a ELSE IF pb > pa THEN b ELSE Draw
      lead   == IF pa > pb THEN pa - pb ELSE pb - pa
      most   == IF pa > pb THEN pa ELSE pb
  IN  CASE r.seriesMode \in {"single", "fixedCount"} ->
             IF Len(games) < (IF r.seriesMode = "single" THEN 1 ELSE r.count)
             THEN Pending ELSE leader
        [] r.seriesMode = "raceToMargin" ->
             IF most >= 2 * r.target /\ lead >= 2 * r.margin THEN leader ELSE Pending

\* evaluateSeries depends on the rules, the games and the two players.
LEMMA EvaluateIsVerdict ==
  ASSUME NEW games, NEW p
  PROVE  EvaluateSeries(games, p) = Verdict(rules, games, p.player1, p.player2)
BY Zenon DEF EvaluateSeries, Verdict

\* The series was undecided after each of its games.
Undecided(r, games, a, b) ==
  \A n \in 1..Len(games) : Verdict(r, SubSeq(games, 1, n), a, b) = Pending

\* The deadline and the timer of an open pairing.
OnTime(l) ==
  /\ l.timer <=> l.phase = "InProgress"
  /\ l.overdue => l.phase = "Reported" /\ l.disputed
  /\ l.tracked <=> l.phase # "InProgress" /\ ~l.overdue

\* The life of an open pairing of a and b.
LifeGood(r, l, a, b) ==
  /\ DOMAIN l = LifeFields
  /\ l.phase \in Phases
  /\ l.by \in {a, b, Nobody}
  /\ l.ready \subseteq {a, b}
  /\ l.games \in Seq({a, b, Draw})
  /\ OnTime(l)
  /\ Undecided(r, l.games, a, b)

\* What the two constant lives are.
LEMMA FreshLifeFields ==
  /\ DOMAIN FreshLife = LifeFields /\ DOMAIN ClosedLife = LifeFields
  /\ FreshLife.phase = "Negotiating" /\ FreshLife.by = Nobody /\ FreshLife.overdue = FALSE
  /\ FreshLife.ready = {} /\ FreshLife.games = <<>> /\ FreshLife.tracked = TRUE
  /\ FreshLife.timer = FALSE
  /\ ClosedLife.phase = "Closed" /\ ClosedLife.overdue = FALSE
  /\ ClosedLife.tracked = FALSE /\ ClosedLife.timer = FALSE
BY DEF FreshLife, ClosedLife, LifeFields

\* A new pairing waits for its deadline.
LEMMA FreshLifeIsGood ==
  ASSUME NEW r, NEW a, NEW b
  PROVE  LifeGood(r, NewLife, a, b)
<1>1. NewLife = FreshLife
  BY LifeAssumption
<1>2. Undecided(r, <<>>, a, b)
  BY DEF Undecided
<1> QED
  BY <1>1, <1>2, FreshLifeFields DEF LifeGood, OnTime, Phases

\* A life stays as it should be through each step of the two players
LEMMA ReportedIsGood ==
  ASSUME NEW r, NEW l, NEW a, NEW b, LifeGood(r, l, a, b), l.phase = "Negotiating",
         NEW e \in {a, b}
  PROVE  LifeGood(r, [l EXCEPT !.phase = "Reported", !.by = e], a, b)
BY DEF LifeGood, LifeFields, OnTime, Phases

LEMMA ConfirmedIsGood ==
  ASSUME NEW r, NEW l, NEW a, NEW b, LifeGood(r, l, a, b), l.phase = "Reported", ~l.disputed
  PROVE  LifeGood(r, [l EXCEPT !.phase = "Ready"], a, b)
BY DEF LifeGood, LifeFields, OnTime, Phases

LEMMA DisputedIsGood ==
  ASSUME NEW r, NEW l, NEW a, NEW b, LifeGood(r, l, a, b), l.phase = "Reported"
  PROVE  LifeGood(r, [l EXCEPT !.disputed = TRUE], a, b)
BY DEF LifeGood, LifeFields, OnTime, Phases

\* and of the organizer,
LEMMA ResolvedIsGood ==
  ASSUME NEW r, NEW l, NEW a, NEW b, LifeGood(r, l, a, b), l.phase = "Reported"
  PROVE  LifeGood(r, [l EXCEPT !.phase = "Ready", !.disputed = FALSE, !.overdue = FALSE,
                               !.tracked = @ \/ l.overdue], a, b)
BY DEF LifeGood, LifeFields, OnTime, Phases

\* the check-in that starts the game,
LEMMA StartedIsGood ==
  ASSUME NEW r, NEW l, NEW a, NEW b, LifeGood(r, l, a, b), l.phase = "Ready",
         NEW ready \in SUBSET {a, b}
  PROVE  /\ LifeGood(r, [l EXCEPT !.phase = "InProgress", !.ready = ready,
                                  !.tracked = FALSE, !.timer = TRUE], a, b)
         /\ LifeGood(r, [l EXCEPT !.ready = ready], a, b)
BY DEF LifeGood, LifeFields, OnTime, Phases

\* the deadline of a dispute,
LEMMA OverdueIsGood ==
  ASSUME NEW r, NEW l, NEW a, NEW b, LifeGood(r, l, a, b), l.phase = "Reported", l.disputed
  PROVE  LifeGood(r, [l EXCEPT !.overdue = TRUE, !.tracked = FALSE], a, b)
BY DEF LifeGood, LifeFields, OnTime, Phases

\* One game more, after which the series is still undecided.
LEMMA PlayedOnIsGood ==
  ASSUME NEW r, NEW l, NEW a, NEW b, LifeGood(r, l, a, b), l.phase = "InProgress",
         NEW x \in {a, b, Draw}, Verdict(r, Append(l.games, x), a, b) = Pending
  PROVE  LifeGood(r, [[l EXCEPT !.games = Append(l.games, x)] EXCEPT
                        !.phase = "Ready", !.ready = {}, !.tracked = TRUE, !.timer = FALSE], a, b)
<1> DEFINE g == l.games
           h == Append(g, x)
           m == [[l EXCEPT !.games = h] EXCEPT
                    !.phase = "Ready", !.ready = {}, !.tracked = TRUE, !.timer = FALSE]
<1>1. g \in Seq({a, b, Draw}) /\ h \in Seq({a, b, Draw}) /\ Len(h) = Len(g) + 1
  BY DEF LifeGood
<1>2. Undecided(r, h, a, b)
  <2> SUFFICES ASSUME NEW n \in 1..Len(h) PROVE Verdict(r, SubSeq(h, 1, n), a, b) = Pending
    BY DEF Undecided
  <2>1. CASE n = Len(h)
    <3>1. SubSeq(h, 1, n) = h
      BY <1>1, <2>1
    <3> QED
      BY <3>1
  <2>2. CASE n # Len(h)
    <3>1. n \in 1..Len(g)
      BY <1>1, <2>2
    <3>2. SubSeq(h, 1, n) = SubSeq(g, 1, n)
      BY <1>1, <3>1
    <3>3. Verdict(r, SubSeq(g, 1, n), a, b) = Pending
      BY <3>1 DEF LifeGood, Undecided
    <3> QED
      BY <3>2, <3>3
  <2> QED
    BY <2>1, <2>2
<1> HIDE DEF h
<1>3. /\ DOMAIN m = LifeFields /\ m.phase = "Ready" /\ m.by = l.by /\ m.ready = {}
      /\ m.games = h /\ m.tracked = TRUE /\ m.timer = FALSE /\ m.overdue = l.overdue
  BY DEF LifeGood, LifeFields
<1>4. ~l.overdue
  BY DEF LifeGood, OnTime
<1> HIDE DEF m
<1>5. LifeGood(r, m, a, b)
  BY <1>1, <1>2, <1>3, <1>4 DEF LifeGood, OnTime, Phases
<1> QED
  BY <1>5 DEF m, h

\* and a restart.
LEMMA HydratedIsGood ==
  ASSUME NEW r, NEW l, NEW a, NEW b, LifeGood(r, l, a, b)
  PROVE  LifeGood(r, HydratedLife(l), a, b)
<1> DEFINE m == HydratedLife(l)
           phase == IF l.phase = "Reported" THEN "Negotiating"
                    ELSE IF l.phase = "InProgress" THEN "Ready" ELSE l.phase
<1>1. phase \in Phases /\ phase # "InProgress"
  BY DEF LifeGood, Phases
<1>2. m = [[FreshLife EXCEPT !.phase = phase] EXCEPT !.games = l.games]
  BY DEF HydratedLife
<1> HIDE DEF phase, m
<1>3. /\ DOMAIN m = LifeFields /\ m.phase = phase /\ m.by = Nobody /\ m.ready = {}
      /\ m.games = l.games /\ m.tracked = TRUE /\ m.timer = FALSE /\ m.overdue = FALSE
  BY <1>2, FreshLifeFields DEF LifeFields
<1>4. LifeGood(r, m, a, b)
  BY <1>1, <1>3 DEF LifeGood, OnTime
<1> QED
  BY <1>4 DEF m

-----------------------------------------------------------------------------
(* Lives through the cascades.                                             *)

\* Who plays in an open pairing and how it stands; a settled one is closed.
Alive(r, p) ==
  IF p.state \notin Terminal
  THEN LifeGood(r, p.life, p.player1, p.player2)
  ELSE p.life = ClosedLife

\* Every pairing lives as it should.
Lively(r, t) == \A id \in DOMAIN t.pairings : Alive(r, t.pairings[id])

\* A fresh pairing does.
LEMMA FreshIsAlive ==
  ASSUME NEW r, NEW p, FreshPairing(p)
  PROVE  Alive(r, p)
<1>1. SettledLife = ClosedLife
  BY LifeAssumption
<1>2. LifeGood(r, NewLife, p.player1, p.player2)
  BY FreshLifeIsGood
<1> QED
  BY <1>1, <1>2 DEF FreshPairing, Alive, Terminal

\* A cascade keeps the lives of those it leaves and adds fresh ones.
LEMMA EvolvesLively ==
  ASSUME NEW r, NEW s, NEW u, Lively(r, s), Evolves(s, u)
  PROVE  Lively(r, u)
<1>1. SettledLife = ClosedLife
  BY LifeAssumption
<1>2. ASSUME NEW id \in DOMAIN u.pairings
      PROVE  Alive(r, u.pairings[id])
  <2>1. CASE id \in DOMAIN s.pairings
    <3>1. CASE u.pairings[id] = s.pairings[id]
      BY <2>1, <3>1 DEF Lively
    <3>2. CASE u.pairings[id].state = "Completed" /\ u.pairings[id].life = SettledLife
      BY <1>1, <3>2 DEF Alive, Terminal
    <3> QED
      BY <2>1, <3>1, <3>2 DEF Evolves
  <2>2. CASE id \notin DOMAIN s.pairings
    BY <1>2, <2>2, FreshIsAlive DEF Evolves
  <2> QED
    BY <2>1, <2>2
<1> QED
  BY <1>2 DEF Lively

\* A change of one pairing has to be shown of that pairing.
LEMMA EditedLively ==
  ASSUME NEW r, NEW t, Lively(r, t), NEW id, NEW u, Edited(t, u, id),
         id \in DOMAIN t.pairings => Alive(r, u.pairings[id])
  PROVE  Lively(r, u)
BY DEF Lively, Edited

\* A replay starts a fresh life, and leaves the voided pairing closed.
LEMMA ReplayedLively ==
  ASSUME NEW r, NEW t, Lively(r, t), NEW id \in DOMAIN t.pairings, NEW v, Edited(t, v, id),
         t.format # "double_elim" =>
           v.pairings[id].state \in Terminal /\ v.pairings[id].life = ClosedLife,
         NEW u, Replayed(v, u, id)
  PROVE  Lively(r, u)
<1>1. /\ DOMAIN v.pairings = DOMAIN t.pairings /\ v.format = t.format
      /\ \A x \in DOMAIN t.pairings : x # id => v.pairings[x] = t.pairings[x]
  BY DEF Edited, Fixed
<1>2. Alive(r, u.pairings[ReplayId(v, id)])
  <2>1. FreshPairing(u.pairings[ReplayId(v, id)])
    BY DEF Replayed, FreshPairing
  <2> QED
    BY <2>1, FreshIsAlive
<1>3. ASSUME NEW x \in DOMAIN u.pairings, x # ReplayId(v, id)
      PROVE  Alive(r, u.pairings[x])
  <2>1. x \in DOMAIN t.pairings /\ u.pairings[x] = v.pairings[x]
    BY <1>1, <1>3 DEF Replayed
  <2>2. CASE x = id
    <3>1. t.format # "double_elim"
      BY <1>1, <1>3, <2>2 DEF ReplayId
    <3> QED
      BY <2>1, <2>2, <3>1 DEF Alive
  <2>3. CASE x # id
    BY <1>1, <2>1, <2>3 DEF Lively
  <2> QED
    BY <2>2, <2>3
<1> QED
  BY <1>2, <1>3 DEF Lively

\* An open pairing lives on.
LEMMA RelivedSound ==
  ASSUME NEW t, Sound(t), NEW id \in OpenPairings(t), NEW life
  PROVE  LET u == Relived(t, id, life)
         IN  /\ Sound(u) /\ Edited(t, u, id) /\ SamePlayers(t.pairings[id], u.pairings[id])
             /\ id \in OpenPairings(u) /\ u.pairings[id].life = life
             /\ u.pairings[id].state = t.pairings[id].state
<1> DEFINE u == Relived(t, id, life)
<1>1. id \in DOMAIN t.pairings /\ IsOpen(t, id)
  BY DEF OpenPairings
<1>2. /\ WellFormed(u) /\ Edited(t, u, id) /\ SamePlayers(t.pairings[id], u.pairings[id])
      /\ u.pairings[id].state = t.pairings[id].state /\ u.pairings[id].life = life
  BY <1>1, RelivedFields DEF Sound, Basic
<1> HIDE DEF u
<1>3. u.pairings[id].state # "Completed"
  BY <1>1, <1>2 DEF IsOpen, Terminal
<1>4. Sound(u)
  BY <1>2, <1>3, EditedSound DEF SamePlayers
<1>5. id \in OpenPairings(u)
  BY <1>1, <1>2 DEF OpenPairings, IsOpen, Edited
<1> QED
  BY <1>2, <1>4, <1>5 DEF u

\* A new life of an open pairing has to be a good one.
LEMMA RelivedLively ==
  ASSUME NEW r, NEW t, Sound(t), Lively(r, t), NEW id \in OpenPairings(t), NEW life,
         LifeGood(r, life, t.pairings[id].player1, t.pairings[id].player2)
  PROVE  Sound(Relived(t, id, life)) /\ Lively(r, Relived(t, id, life))
<1> DEFINE u == Relived(t, id, life)
<1>1. /\ Sound(u) /\ Edited(t, u, id) /\ SamePlayers(t.pairings[id], u.pairings[id])
      /\ id \in OpenPairings(u) /\ u.pairings[id].life = life
  BY RelivedSound
<1> HIDE DEF u
<1>2. Alive(r, u.pairings[id])
  BY <1>1 DEF Alive, SamePlayers, OpenPairings, IsOpen
<1>3. Lively(r, u)
  BY <1>1, <1>2, EditedLively
<1> QED
  BY <1>1, <1>3 DEF u

\* A decision, whatever was last known of the life of the pairing.
LEMMA DecidedLively ==
  ASSUME NEW r, NEW t, Lively(r, t), NEW id, NEW v, Sound(v), Edited(t, v, id),
         id \in OpenPairings(v), NEW w
  PROVE  Sound(Decide(v, id, w)) /\ Lively(r, Decide(v, id, w))
<1> DEFINE s == Settled(v, id, w)
           u == Decide(v, id, w)
<1>1. /\ Sound(u) /\ Evolves(s, u) /\ Edited(v, s, id)
      /\ s.pairings[id].state = "Completed" /\ s.pairings[id].life = SettledLife
  BY DecideSound
<1> HIDE DEF s, u
<1>2. Edited(t, s, id)
  BY <1>1 DEF Edited, Fixed
<1>3. Alive(r, s.pairings[id])
  BY <1>1, LifeAssumption DEF Alive, Terminal
<1>4. Lively(r, s)
  BY <1>2, <1>3, EditedLively
<1>5. Lively(r, u)
  BY <1>1, <1>4, EvolvesLively
<1> QED
  BY <1>1, <1>5 DEF u

\* No change is a change of one pairing.
LEMMA EditedReflexive == ASSUME NEW t, NEW id PROVE Edited(t, t, id)
BY DEF Edited, Fixed

-----------------------------------------------------------------------------
(* Reading back.                                                           *)

\* What is read back of the pairings.
Read(t) ==
  [id \in DOMAIN t.pairings |->
     IF IsOpen(t, id) THEN [t.pairings[id] EXCEPT !.life = HydratedLife(@)]
     ELSE t.pairings[id]]

\* The last round that has pairings.
LastPaired(t) == Max({t.pairings[id].round : id \in DOMAIN t.pairings})

\* A tournament that is read back, before it is advanced.
Reread(t, s) ==
  /\ DOMAIN s = TournamentFields
  /\ Fixed(t, s) /\ s.status = t.status /\ s.withdrawn = t.withdrawn /\ s.ranks = t.ranks
  /\ s.closings = t.closings
  /\ s.pairings = Read(t)
  /\ s.completed = SetToBag(Decided(t))
  /\ IF t.format = "double_elim"
     THEN s.round = t.round /\ s.current = t.current
     ELSE /\ s.round = LastPaired(t)
          /\ s.current = {id \in DOMAIN t.pairings : t.pairings[id].round = LastPaired(t)}

\* What _hydratePairing reads back: the lives of open pairings start anew.
LEMMA ReadFields ==
  ASSUME NEW t, WellFormed(t)
  PROVE  /\ DOMAIN Read(t) = DOMAIN t.pairings
         /\ \A id \in DOMAIN t.pairings :
              /\ DOMAIN Read(t)[id] = PairingFields
              /\ SamePlayers(t.pairings[id], Read(t)[id])
              /\ Read(t)[id].state = t.pairings[id].state
              /\ Read(t)[id].winner = t.pairings[id].winner
              /\ ~IsOpen(t, id) => Read(t)[id] = t.pairings[id]
              /\ IsOpen(t, id) => Read(t)[id].life = HydratedLife(t.pairings[id].life)
<1>1. ASSUME NEW id \in DOMAIN t.pairings
      PROVE  /\ DOMAIN Read(t)[id] = PairingFields
             /\ SamePlayers(t.pairings[id], Read(t)[id])
             /\ Read(t)[id].state = t.pairings[id].state
             /\ Read(t)[id].winner = t.pairings[id].winner
             /\ ~IsOpen(t, id) => Read(t)[id] = t.pairings[id]
             /\ IsOpen(t, id) => Read(t)[id].life = HydratedLife(t.pairings[id].life)
  <2> DEFINE p == t.pairings[id]
             q == [p EXCEPT !.life = HydratedLife(p.life)]
  <2>1. Read(t)[id] = IF IsOpen(t, id) THEN q ELSE p
    BY DEF Read
  <2>2. DOMAIN p = PairingFields
    BY DEF WellFormed
  <2>3. /\ DOMAIN q = PairingFields /\ SamePlayers(p, q) /\ q.state = p.state
        /\ q.winner = p.winner /\ q.life = HydratedLife(p.life)
    <3> HIDE DEF p
    <3> QED
      BY <2>2 DEF PairingFields, SamePlayers
  <2>4. SamePlayers(p, p)
    BY DEF SamePlayers
  <2> HIDE DEF q
  <2> QED
    BY <2>1, <2>2, <2>3, <2>4
<1>2. DOMAIN Read(t) = DOMAIN t.pairings
  BY DEF Read
<1> QED
  BY <1>1, <1>2

\* It is the last.
LEMMA LastPairedIsLast ==
  ASSUME NEW t, Basic(t), t.format \in RoundFormats, DOMAIN t.pairings # {}
  PROVE  /\ LastPaired(t) \in Nat /\ LastPaired(t) <= t.round
         /\ \E id \in DOMAIN t.pairings : t.pairings[id].round = LastPaired(t)
         /\ \A id \in DOMAIN t.pairings : id[1] <= LastPaired(t)
<1> DEFINE rounds == {t.pairings[id].round : id \in DOMAIN t.pairings}
           U == {t.round - k : k \in rounds}
<1>1. t.round \in Nat /\ \A id \in DOMAIN t.pairings :
        t.pairings[id].round = id[1] /\ id[1] \in Nat /\ id[1] <= t.round
  BY DEF Basic, WellFormed, Numbered
<1>2. rounds # {} /\ \A k \in rounds : k \in Nat /\ k <= t.round
  BY <1>1
<1>3. \A id \in DOMAIN t.pairings : t.pairings[id].round \in rounds
  OBVIOUS
<1>4. \A k \in rounds : \E id \in DOMAIN t.pairings : t.pairings[id].round = k
  OBVIOUS
<1>5. LastPaired(t) = Max(rounds)
  BY DEF LastPaired
<1> HIDE DEF rounds
<1>6. U \subseteq Nat /\ U # {}
  BY <1>1, <1>2
<1>7. PICK u \in U : \A v \in U : u <= v
  <2> HIDE DEF U
  <2> QED
    BY <1>6, LeastNatural
<1>8. PICK m \in rounds : u = t.round - m
  OBVIOUS
<1>9. \A k \in rounds : t.round - k \in U
  OBVIOUS
<1>10. \A k \in rounds : m >= k
  <2> TAKE k \in rounds
  <2>1. t.round - m <= t.round - k
    BY <1>7, <1>8, <1>9
  <2> QED
    BY <1>1, <1>2, <2>1
<1>11. Max(rounds) \in rounds /\ \A k \in rounds : Max(rounds) >= k
  BY <1>10 DEF Max
<1> QED
  BY <1>1, <1>2, <1>3, <1>4, <1>5, <1>11

\* The number of the round and the pairings that were saved are enough.
Saved(t) ==
  /\ Basic(t)
  /\ t.current \subseteq DOMAIN t.pairings
  /\ Started(t) /\ t.status # "draft" /\ DOMAIN t.pairings # {}

\* What is read back is sound: the decided pairings are counted anew.
LEMMA RereadSound ==
  ASSUME NEW t, Saved(t), NEW s, Reread(t, s)
  PROVE  Sound(s)
<1>1. WellFormed(t) /\ Registered(t) /\ Numbered(t) /\ t.format \in Formats /\ t.round \in Nat
  BY DEF Saved, Basic, WellFormed
<1>2. /\ DOMAIN s.pairings = DOMAIN t.pairings
      /\ \A id \in DOMAIN t.pairings :
           /\ DOMAIN s.pairings[id] = PairingFields
           /\ s.pairings[id].round = t.pairings[id].round
           /\ s.pairings[id].state = t.pairings[id].state
  BY <1>1, ReadFields DEF Reread, SamePlayers
<1>3. s.format = t.format /\ s.entries = t.entries /\ s.nextEntry = t.nextEntry
      /\ s.bracket = t.bracket /\ s.status = t.status
  BY DEF Reread, Fixed
<1>4. /\ s.round \in Nat
      /\ t.format \in RoundFormats => \A id \in DOMAIN t.pairings : id[1] <= s.round
      /\ s.current \subseteq DOMAIN t.pairings
  <2>1. CASE t.format = "double_elim"
    BY <1>1, <2>1 DEF Reread, Saved, RoundFormats
  <2>2. CASE t.format # "double_elim"
    <3>1. t.format \in RoundFormats
      BY <1>1, <2>2 DEF Formats
    <3>2. s.round = LastPaired(t)
          /\ s.current = {id \in DOMAIN t.pairings : t.pairings[id].round = LastPaired(t)}
      BY <2>2 DEF Reread
    <3> QED
      BY <3>1, <3>2, LastPairedIsLast DEF Saved
  <2> QED
    BY <2>1, <2>2
<1>5. s.pairings = [id \in DOMAIN s.pairings |-> s.pairings[id]]
  BY DEF Reread, Read
<1>6. WellFormed(s)
  BY <1>1, <1>2, <1>3, <1>4, <1>5 DEF WellFormed, Reread
<1>7. Registered(s)
  BY <1>1, <1>3 DEF Registered
<1>8. Numbered(s)
  BY <1>1, <1>2, <1>3, <1>4 DEF Numbered
<1>9. Decided(s) = Decided(t)
  BY <1>2 DEF Decided
<1>10. Counted(s)
  BY <1>9 DEF Counted, Reread
<1>11. Started(s)
  BY <1>3 DEF Saved, Started, Slotted
<1> QED
  BY <1>2, <1>3, <1>4, <1>6, <1>7, <1>8, <1>10, <1>11 DEF Sound, Basic, Saved

\* _hydrateTournament reads back, then advances what is active.
LEMMA HydrateRereads ==
  ASSUME NEW t, Saved(t)
  PROVE  \E s : /\ Reread(t, s)
                /\ Hydrate(t) = IF t.status # "active" THEN s
                                ELSE IF t.format = "double_elim"
                                THEN CheckDoubleElimComplete(s, 1)
                                ELSE AdvanceIfRoundComplete(s)
<1> DEFINE ids == DOMAIN t.pairings
           decided == DecidedIn(t)
           rebuilt == [t EXCEPT !.pairings = Read(t), !.completed = SetToBag(decided)]
           bracket == [rebuilt EXCEPT !.results =
                         [id \in {x \in decided : ~IsBye(t.pairings[x])} |-> t.pairings[id].winner]]
           rounds == [rebuilt EXCEPT !.round = LastPaired(t),
                                     !.current = {id \in ids : t.pairings[id].round = LastPaired(t)}]
<1>1. t.status # "draft" /\ ids # {} /\ WellFormed(t)
  BY DEF Saved, Basic
<1>2. Hydrate(t) = IF t.format = "double_elim"
                   THEN IF t.status = "active" THEN CheckDoubleElimComplete(bracket, 1) ELSE bracket
                   ELSE IF t.status = "active" THEN AdvanceIfRoundComplete(rounds) ELSE rounds
  BY <1>1, Zenon DEF Hydrate, Read, LastPaired
<1>3. decided = Decided(t)
  BY DEF DecidedIn, Decided
<1> HIDE DEF decided
<1>4. /\ DOMAIN rebuilt = TournamentFields
      /\ Fixed(t, rebuilt) /\ rebuilt.status = t.status /\ rebuilt.withdrawn = t.withdrawn
      /\ rebuilt.ranks = t.ranks /\ rebuilt.closings = t.closings
      /\ rebuilt.pairings = Read(t) /\ rebuilt.completed = SetToBag(decided)
      /\ rebuilt.round = t.round /\ rebuilt.current = t.current
  BY <1>1 DEF WellFormed, TournamentFields, Fixed
<1> HIDE DEF rebuilt
<1>5. CASE t.format = "double_elim"
  <2>1. Reread(t, bracket)
    BY <1>3, <1>4, <1>5 DEF Reread, TournamentFields, Fixed
  <2> HIDE DEF bracket, rounds
  <2> QED
    BY <1>2, <1>5, <2>1
<1>6. CASE t.format # "double_elim"
  <2>1. Reread(t, rounds)
    BY <1>3, <1>4, <1>6 DEF Reread, TournamentFields, Fixed
  <2> HIDE DEF bracket, rounds
  <2> QED
    BY <1>2, <1>6, <2>1
<1> QED
  BY <1>5, <1>6

\* A restart leaves a sound tournament.
LEMMA HydrateSound ==
  ASSUME NEW t, Saved(t)
  PROVE  LET u == Hydrate(t)
         IN  /\ Sound(u) /\ u.withdrawn = t.withdrawn /\ u.format = t.format
             /\ u.status \in {t.status, "completed"}
             /\ \E s : /\ Reread(t, s) /\ Sound(s) /\ Evolves(s, u)
                       /\ t.format \in RoundFormats =>
                            u = IF t.status = "active" THEN AdvanceIfRoundComplete(s) ELSE s
<1> DEFINE u == Hydrate(t)
<1>1. PICK s : /\ Reread(t, s)
               /\ u = IF t.status # "active" THEN s
                      ELSE IF t.format = "double_elim" THEN CheckDoubleElimComplete(s, 1)
                      ELSE AdvanceIfRoundComplete(s)
  BY HydrateRereads
<1> HIDE DEF u
<1>2. Sound(s) /\ s.status = t.status /\ s.withdrawn = t.withdrawn /\ s.format = t.format
  BY <1>1, RereadSound DEF Reread, Fixed
<1>3. Sound(u) /\ Evolves(s, u) /\ u.withdrawn = t.withdrawn /\ u.status \in {t.status, "completed"}
  <2>1. CASE t.status # "active"
    BY <1>1, <1>2, <2>1, EvolvesReflexive
  <2>2. CASE t.status = "active" /\ t.format = "double_elim"
    <3>1. u = CheckDoubleElimComplete(s, 1)
      BY <1>1, <2>2
    <3>2. WellFormed(u) /\ SamePairings(s, u) /\ u.status \in {s.status, "completed"}
      BY <1>2, <3>1, CheckKeeps DEF Sound, Basic
    <3>3. Basic(u) /\ Counted(u) /\ Evolves(s, u)
      BY <1>2, <3>2, SamePairingsKeep DEF Sound
    <3>4. /\ u.pairings = s.pairings /\ u.current = s.current /\ Fixed(s, u)
          /\ u.withdrawn = s.withdrawn
      BY <3>2 DEF SamePairings
    <3>5. Started(s) /\ s.current \subseteq DOMAIN s.pairings
      BY <1>1, <1>2, ReadFields DEF Sound, Saved, Basic, Reread
    <3>6. Started(u)
      BY <3>4, <3>5 DEF Started, Slotted, Fixed
    <3> QED
      BY <1>2, <2>2, <3>2, <3>3, <3>4, <3>5, <3>6 DEF Sound
  <2>3. CASE t.status = "active" /\ t.format # "double_elim"
    BY <1>1, <1>2, <2>3, AdvanceSound
  <2> QED
    BY <2>1, <2>2, <2>3
<1>4. u.format = t.format
  BY <1>2, <1>3 DEF Evolves, Fixed
<1>5. t.format \in RoundFormats => u = IF t.status = "active" THEN AdvanceIfRoundComplete(s) ELSE s
  BY <1>1 DEF RoundFormats
<1> QED
  BY <1>1, <1>2, <1>3, <1>4, <1>5 DEF u

\* What is read back lives,
LEMMA RereadLively ==
  ASSUME NEW r, NEW t, WellFormed(t), Lively(r, t), NEW s, Reread(t, s)
  PROVE  Lively(r, s)
<1>1. ASSUME NEW id \in DOMAIN t.pairings
      PROVE  Alive(r, s.pairings[id])
  <2> DEFINE p == t.pairings[id]
             q == s.pairings[id]
  <2>1. /\ SamePlayers(p, q) /\ q.state = p.state
        /\ ~IsOpen(t, id) => q = p
        /\ IsOpen(t, id) => q.life = HydratedLife(p.life)
    BY ReadFields DEF Reread
  <2>2. Alive(r, p)
    BY DEF Lively
  <2>3. CASE IsOpen(t, id)
    <3>1. p.state \notin Terminal /\ q.state \notin Terminal
      BY <2>1, <2>3 DEF IsOpen
    <3>2. LifeGood(r, p.life, p.player1, p.player2)
      BY <2>2, <3>1 DEF Alive
    <3>3. LifeGood(r, HydratedLife(p.life), p.player1, p.player2)
      BY <3>2, HydratedIsGood
    <3> QED
      BY <2>1, <2>3, <3>1, <3>3 DEF Alive, SamePlayers
  <2>4. CASE ~IsOpen(t, id)
    BY <2>1, <2>2, <2>4
  <2> QED
    BY <2>3, <2>4
<1>2. DOMAIN s.pairings = DOMAIN t.pairings
  BY ReadFields DEF Reread
<1> QED
  BY <1>1, <1>2 DEF Lively

\* and so does what a restart leaves.
LEMMA HydrateLively ==
  ASSUME NEW r, NEW t, Saved(t), Lively(r, t)
  PROVE  Lively(r, Hydrate(t))
<1>1. PICK s : Reread(t, s) /\ Evolves(s, Hydrate(t))
  BY HydrateSound
<1> QED
  BY <1>1, RereadLively, EvolvesLively DEF Saved, Basic

-----------------------------------------------------------------------------
(* The invariant of a tournament that is served.                           *)

\* The inductive invariant of Tournament, in every format.
SoundAndLively(r, t) == Sound(t) /\ Lively(r, t)

\* WithLife is a change of one life.
LEMMA WithLifeIsRelived ==
  ASSUME NEW id, NEW life
  PROVE  WithLife(id, life) = Relived(tournament, id, life)
BY DEF WithLife, Relived

\* The life of an open pairing is a good one.
LEMMA LifeOfOpen ==
  ASSUME NEW r, Lively(r, tournament), NEW id \in Open
  PROVE  /\ id \in DOMAIN tournament.pairings /\ id \in OpenPairings(tournament)
         /\ LifeGood(r, Life(id), tournament.pairings[id].player1, tournament.pairings[id].player2)
         /\ Players(id) = {tournament.pairings[id].player1, tournament.pairings[id].player2}
BY DEF Open, OpenPairings, IsOpen, Lively, Alive, Life, Players, Seats

\* What a player does, the second check-in included.
LEMMA PlayerStepLively ==
  ASSUME NEW r, SoundAndLively(r, tournament), NEW id \in Open, PlayerStep(id)
  PROVE  SoundAndLively(r, tournament')
<1> DEFINE a == tournament.pairings[id].player1
           b == tournament.pairings[id].player2
           l == Life(id)
<1>1. /\ id \in OpenPairings(tournament) /\ LifeGood(r, l, a, b) /\ Players(id) = {a, b}
      /\ Sound(tournament) /\ Lively(r, tournament)
  BY LifeOfOpen DEF SoundAndLively
<1>2. PICK e \in Players(id) \ {Nobody} :
        Report(id, e) \/ Confirm(id, e) \/ Dispute(id, e) \/ CheckIn(id, e)
  BY DEF PlayerStep
<1> HIDE DEF a, b
<1>3. \E m : tournament' = WithLife(id, m) /\ LifeGood(r, m, a, b)
  <2>1. CASE Report(id, e)
    <3>1. LifeGood(r, [l EXCEPT !.phase = "Reported", !.by = e], a, b)
      BY <1>1, <1>2, <2>1, ReportedIsGood DEF Report
    <3> QED
      BY <2>1, <3>1 DEF Report
  <2>2. CASE Confirm(id, e)
    <3>1. LifeGood(r, [l EXCEPT !.phase = "Ready"], a, b)
      BY <1>1, <2>2, ConfirmedIsGood DEF Confirm
    <3> QED
      BY <2>2, <3>1 DEF Confirm
  <2>3. CASE Dispute(id, e)
    <3>1. LifeGood(r, [l EXCEPT !.disputed = TRUE], a, b)
      BY <1>1, <2>3, DisputedIsGood DEF Dispute
    <3> QED
      BY <2>3, <3>1 DEF Dispute
  <2>4. CASE CheckIn(id, e)
    <3> DEFINE ready == l.ready \cup {e}
               playing == [l EXCEPT !.phase = "InProgress", !.ready = ready,
                                    !.tracked = FALSE, !.timer = TRUE]
               waiting == [l EXCEPT !.ready = ready]
    <3>1. ready \in SUBSET {a, b} /\ l.phase = "Ready"
      BY <1>1, <1>2, <2>4 DEF LifeGood, CheckIn
    <3>2. LifeGood(r, playing, a, b) /\ LifeGood(r, waiting, a, b)
      <4> HIDE DEF ready
      <4> QED
        BY <1>1, <3>1, StartedIsGood
    <3>3. tournament' = WithLife(id, IF Players(id) \subseteq ready THEN playing ELSE waiting)
      BY <2>4 DEF CheckIn
    <3> HIDE DEF playing, waiting
    <3> QED
      BY <3>2, <3>3
  <2> QED
    BY <1>2, <2>1, <2>2, <2>3, <2>4
<1>4. PICK m : tournament' = Relived(tournament, id, m) /\ LifeGood(r, m, a, b)
  BY <1>3, WithLifeIsRelived
<1> QED
  BY <1>1, <1>4, RelivedLively DEF SoundAndLively, a, b

\* The organizer rules on a dispute.
LEMMA ResolveLively ==
  ASSUME NEW r, SoundAndLively(r, tournament), NEW id \in Open, Resolve(id)
  PROVE  SoundAndLively(r, tournament')
<1> DEFINE a == tournament.pairings[id].player1
           b == tournament.pairings[id].player2
           l == Life(id)
           m == [l EXCEPT !.phase = "Ready", !.disputed = FALSE, !.overdue = FALSE,
                          !.tracked = @ \/ l.overdue]
<1>1. /\ id \in OpenPairings(tournament) /\ LifeGood(r, l, a, b)
      /\ Sound(tournament) /\ Lively(r, tournament)
  BY LifeOfOpen DEF SoundAndLively
<1>2. tournament' = Relived(tournament, id, m) /\ l.phase = "Reported"
  BY WithLifeIsRelived DEF Resolve
<1>3. LifeGood(r, m, a, b)
  <2> HIDE DEF a, b, l
  <2> QED
    BY <1>1, <1>2, ResolvedIsGood
<1> HIDE DEF m
<1> QED
  BY <1>1, <1>2, <1>3, RelivedLively DEF SoundAndLively

\* The organizer adjusts a pairing.
LEMMA AdjustLively ==
  ASSUME NEW r, SoundAndLively(r, tournament), NEW id \in Open, Adjust(id)
  PROVE  SoundAndLively(r, tournament')
<1> DEFINE t == tournament
           s == Released(t, id, ClosedLife)
<1>1. id \in DOMAIN t.pairings /\ id \in OpenPairings(t) /\ Sound(t) /\ Lively(r, t)
  BY LifeOfOpen DEF SoundAndLively
<1>2. tournament' = IF t.format = "double_elim" THEN Replay(s, id) ELSE AdvanceIfRoundComplete(s)
  BY DEF Adjust, Released
<1>3. /\ WellFormed(s) /\ Edited(t, s, id) /\ SamePlayers(t.pairings[id], s.pairings[id])
      /\ s.pairings[id].state = "OrganizerAdjusted" /\ s.pairings[id].life = ClosedLife
  BY <1>1, ReleasedFields DEF Sound, Basic
<1>4. t.format # "double_elim" =>
        Sound(AdvanceIfRoundComplete(s)) /\ Evolves(s, AdvanceIfRoundComplete(s))
  BY <1>1, ReleaseSound
<1> HIDE DEF s
<1>5. CASE t.format = "double_elim"
  <2>1. tournament' = Replay(s, id)
    BY <1>2, <1>5
  <2>2. Sound(tournament') /\ Replayed(s, tournament', id)
    BY <1>1, <1>3, <1>5, <2>1, ReplaySound DEF SamePlayers, SameSeats
  <2>3. Lively(r, tournament')
    BY <1>1, <1>3, <1>5, <2>2, ReplayedLively
  <2> QED
    BY <2>2, <2>3 DEF SoundAndLively
<1>6. CASE t.format # "double_elim"
  <2>1. tournament' = AdvanceIfRoundComplete(s)
    BY <1>2, <1>6
  <2>2. Alive(r, s.pairings[id])
    BY <1>3 DEF Alive, Terminal
  <2>3. Lively(r, s)
    BY <1>1, <1>3, <2>2, EditedLively
  <2>4. Lively(r, tournament')
    BY <1>4, <1>6, <2>1, <2>3, EvolvesLively
  <2> QED
    BY <1>4, <1>6, <2>1, <2>4 DEF SoundAndLively
<1> QED
  BY <1>5, <1>6

\* A game ends: the next, a replay or the decision.
LEMMA GameEndsLively ==
  ASSUME SoundAndLively(rules, tournament), NEW id \in Open,
         NEW outcome \in Players(id) \cup {Draw}, GameEnds(id, outcome)
  PROVE  SoundAndLively(rules, tournament')
<1> DEFINE t == tournament
           a == t.pairings[id].player1
           b == t.pairings[id].player2
           l == Life(id)
           games == Append(l.games, outcome)
           result == EvaluateSeries(games, t.pairings[id])
           played == [l EXCEPT !.games = games]
           rest == [played EXCEPT !.phase = "Ready", !.ready = {}, !.tracked = TRUE, !.timer = FALSE]
           over == WithLife(id, [played EXCEPT !.timer = FALSE])
<1>1. /\ id \in DOMAIN t.pairings /\ id \in OpenPairings(t)
      /\ LifeGood(rules, l, a, b) /\ Players(id) = {a, b} /\ Sound(t) /\ Lively(rules, t)
  BY LifeOfOpen DEF SoundAndLively
<1>2. /\ l.phase = "InProgress"
      /\ tournament' = IF result = Pending THEN WithLife(id, rest)
                       ELSE IF result = Draw /\ t.format = "double_elim" THEN Replay(over, id)
                       ELSE Decide(over, id, result)
  BY DEF GameEnds
<1>3. result = Verdict(rules, games, a, b)
  BY EvaluateIsVerdict
<1>4. over = Relived(t, id, [played EXCEPT !.timer = FALSE])
  BY WithLifeIsRelived
<1>5. /\ Sound(over) /\ Edited(t, over, id) /\ SamePlayers(t.pairings[id], over.pairings[id])
      /\ id \in OpenPairings(over)
  BY <1>1, <1>4, RelivedSound
<1> HIDE DEF result, over
<1>6. CASE result = Pending
  <2>1. tournament' = Relived(t, id, rest)
    BY <1>2, <1>6, WithLifeIsRelived
  <2>2. LifeGood(rules, rest, a, b)
    <3>1. outcome \in {a, b, Draw}
      BY <1>1
    <3> HIDE DEF a, b, l
    <3> QED
      BY <1>1, <1>2, <1>3, <1>6, <3>1, PlayedOnIsGood
  <2> HIDE DEF rest
  <2> QED
    BY <1>1, <2>1, <2>2, RelivedLively DEF SoundAndLively
<1>7. CASE result # Pending /\ result = Draw /\ t.format = "double_elim"
  <2>1. tournament' = Replay(over, id)
    BY <1>2, <1>7
  <2>2. Sound(tournament') /\ Replayed(over, tournament', id)
    BY <1>1, <1>5, <1>7, <2>1, ReplaySound DEF SamePlayers, SameSeats, Sound, Basic
  <2>3. Lively(rules, tournament')
    BY <1>1, <1>5, <1>7, <2>2, ReplayedLively
  <2> QED
    BY <2>2, <2>3 DEF SoundAndLively
<1>8. CASE result # Pending /\ ~(result = Draw /\ t.format = "double_elim")
  <2>1. tournament' = Decide(over, id, result)
    BY <1>2, <1>8
  <2> QED
    BY <1>1, <1>5, <2>1, DecidedLively DEF SoundAndLively
<1> QED
  BY <1>6, <1>7, <1>8

\* A deadline falls.
LEMMA DeadlineLively ==
  ASSUME NEW r, SoundAndLively(r, tournament), NEW id \in Open, Deadline(id)
  PROVE  SoundAndLively(r, tournament')
<1> DEFINE t == tournament
           a == t.pairings[id].player1
           b == t.pairings[id].player2
           l == Life(id)
<1>1. /\ id \in DOMAIN t.pairings /\ id \in OpenPairings(t)
      /\ LifeGood(r, l, a, b) /\ Players(id) = {a, b} /\ Sound(t) /\ Lively(r, t)
  BY LifeOfOpen DEF SoundAndLively
<1>2. ASSUME NEW w, tournament' = Decide(t, id, w)
      PROVE  SoundAndLively(r, tournament')
  BY <1>1, <1>2, DecidedLively, EditedReflexive DEF SoundAndLively
<1>3. CASE DisputeOverdue(id)
  <2> DEFINE m == [l EXCEPT !.overdue = TRUE, !.tracked = FALSE]
  <2>1. tournament' = Relived(t, id, m) /\ l.phase = "Reported" /\ l.disputed
    BY <1>3, WithLifeIsRelived DEF DisputeOverdue
  <2>2. LifeGood(r, m, a, b)
    <3> HIDE DEF a, b, l
    <3> QED
      BY <1>1, <2>1, OverdueIsGood
  <2> HIDE DEF m
  <2> QED
    BY <1>1, <2>1, <2>2, RelivedLively DEF SoundAndLively
<1>4. CASE WalkoverAtDeadline(id)
  BY <1>2, <1>4 DEF WalkoverAtDeadline
<1>5. CASE VoidAtDeadline(id)
  <2> DEFINE v == Voided(t, id, ClosedLife)
  <2>1. \/ \E w : tournament' = Decide(t, id, w)
        \/ tournament' = Replay(v, id)
    BY <1>5 DEF VoidAtDeadline, Voided
  <2>2. CASE tournament' = Replay(v, id)
    <3>1. /\ WellFormed(v) /\ Edited(t, v, id) /\ SameSeats(t.pairings[id], v.pairings[id])
          /\ v.pairings[id].state = "DoubleNoShow" /\ v.pairings[id].life = ClosedLife
      BY <1>1, VoidedFields DEF Sound, Basic
    <3> HIDE DEF v
    <3>2. Sound(tournament') /\ Replayed(v, tournament', id)
      BY <1>1, <2>2, <3>1, ReplaySound
    <3>3. "DoubleNoShow" \in Terminal
      BY DEF Terminal
    <3>4. Lively(r, tournament')
      BY <1>1, <3>1, <3>2, <3>3, ReplayedLively
    <3> QED
      BY <3>2, <3>4 DEF SoundAndLively
  <2> QED
    BY <1>2, <2>1, <2>2
<1> QED
  BY <1>3, <1>4, <1>5 DEF Deadline

\* What is saved when the server goes down after a result can be read back.
LEMMA CrashSaves ==
  ASSUME NEW t, Sound(t), NEW id \in OpenPairings(t), NEW w
  PROVE  LET s == Settled(t, id, w)
         IN  /\ Saved(s) /\ Edited(t, s, id)
             /\ SamePlayers(t.pairings[id], s.pairings[id])
             /\ s.pairings[id].state = "Completed" /\ s.pairings[id].life = ClosedLife
<1> DEFINE s == Settled(t, id, w)
<1>1. SettledLife = ClosedLife
  BY LifeAssumption
<1>2. id \in DOMAIN t.pairings /\ IsOpen(t, id)
  BY DEF OpenPairings
<1>3. /\ WellFormed(s) /\ Edited(t, s, id) /\ SamePlayers(t.pairings[id], s.pairings[id])
      /\ s.pairings[id].state = "Completed" /\ s.pairings[id].life = ClosedLife
  BY <1>1, <1>2, SettledFields DEF Sound, Basic
<1>4. Basic(s)
  BY <1>2, SettleKeeps DEF Sound
<1> HIDE DEF s
<1>5. Started(s)
  BY <1>2, <1>3 DEF Edited, Started, Slotted, Fixed, Sound
<1>6. Saved(s)
  BY <1>2, <1>3, <1>4, <1>5 DEF Saved, Edited, Sound
<1> QED
  BY <1>3, <1>6 DEF s

\* A crash after a result reads back a settled pairing.
LEMMA CrashIsSettled ==
  ASSUME NEW id, NEW outcome, CrashAfterResult(id, outcome)
  PROVE  \E w : tournament' = Hydrate(Settled(tournament, id, w))
<1> DEFINE w == EvaluateSeries(Append(Life(id).games, outcome), tournament.pairings[id])
<1>1. SettledLife = ClosedLife
  BY LifeAssumption
<1>2. tournament' = Hydrate(Settled(tournament, id, w))
  BY <1>1 DEF CrashAfterResult, Settled
<1> HIDE DEF w
<1> QED
  BY <1>2

\* The server goes down between a result and what follows it.
LEMMA CrashLively ==
  ASSUME NEW r, SoundAndLively(r, tournament), NEW id \in Open, NEW outcome,
         CrashAfterResult(id, outcome)
  PROVE  SoundAndLively(r, tournament')
<1>1. id \in OpenPairings(tournament) /\ Sound(tournament) /\ Lively(r, tournament)
  BY LifeOfOpen DEF SoundAndLively
<1>2. PICK w : tournament' = Hydrate(Settled(tournament, id, w))
  BY CrashIsSettled
<1> DEFINE s == Settled(tournament, id, w)
<1>3. Saved(s) /\ Edited(tournament, s, id)
      /\ s.pairings[id].state = "Completed" /\ s.pairings[id].life = ClosedLife
  BY <1>1, CrashSaves
<1> HIDE DEF s
<1>4. Alive(r, s.pairings[id])
  BY <1>3 DEF Alive, Terminal
<1>5. Lively(r, s)
  BY <1>1, <1>3, <1>4, EditedLively
<1>6. tournament' = Hydrate(s)
  BY <1>2 DEF s
<1> QED
  BY <1>3, <1>5, <1>6, HydrateSound, HydrateLively DEF SoundAndLively

\* The server restarts between two operations.
LEMMA RestartLively ==
  ASSUME NEW r, SoundAndLively(r, tournament), Restart
  PROVE  SoundAndLively(r, tournament')
<1>1. tournament' = Hydrate(tournament)
  BY DEF Restart
<1>2. CASE tournament.status = "draft" \/ DOMAIN tournament.pairings = {}
  <2>1. Hydrate(tournament) = tournament
    BY <1>2, Zenon DEF Hydrate
  <2> QED
    BY <1>1, <2>1
<1>3. CASE ~(tournament.status = "draft" \/ DOMAIN tournament.pairings = {})
  <2>1. Saved(tournament) /\ Lively(r, tournament)
    BY <1>3 DEF SoundAndLively, Sound, Saved
  <2> QED
    BY <1>1, <2>1, HydrateSound, HydrateLively DEF SoundAndLively
<1> QED
  BY <1>2, <1>3

\* Without pairings there is nothing to show.
LEMMA EmptyIsLively ==
  ASSUME NEW r, NEW t, DOMAIN t.pairings = {}
  PROVE  Lively(r, t)
BY DEF Lively

\* Cancelling closes the lives of the open pairings.
LEMMA ClosedIsLively ==
  ASSUME NEW r, NEW t, Lively(r, t), NEW u, Closed(t, u)
  PROVE  Lively(r, u)
<1>1. SettledLife = ClosedLife
  BY LifeAssumption
<1>2. ASSUME NEW id \in DOMAIN t.pairings
      PROVE  Alive(r, u.pairings[id])
  <2>1. CASE IsOpen(t, id)
    BY <1>1, <2>1 DEF Closed, Alive, Terminal
  <2>2. CASE ~IsOpen(t, id)
    BY <2>2 DEF Closed, Lively
  <2> QED
    BY <2>1, <2>2
<1> QED
  BY <1>2 DEF Lively, Closed

\* Every step keeps the invariant.
LEMMA TournamentStepSound ==
  ASSUME SoundAndLively(rules, tournament), [TournamentNext]_vars
  PROVE  SoundAndLively(rules, tournament') /\ rules' = rules
<1> DEFINE t == tournament
<1>0. Sound(t) /\ Lively(rules, t)
  BY DEF SoundAndLively
<1>1. rules' = rules
  BY DEF TournamentNext, vars
<1>2. ASSUME NEW id \in Open, Adjust(id)
      PROVE  SoundAndLively(rules, tournament')
  BY <1>2, AdjustLively
<1>3. CASE Register
  BY <1>0, <1>1, <1>3, RegisterSound, DraftFields, EmptyIsLively DEF Register, SoundAndLively
<1>4. ASSUME NEW e \in 1..MaxEntries, Unregister(e)
      PROVE  SoundAndLively(rules, tournament')
  BY <1>0, <1>4, UnregisterSound, DraftFields, EmptyIsLively DEF Unregister, SoundAndLively
<1>5. ASSUME NEW e \in 1..MaxEntries, Drop(e)
      PROVE  SoundAndLively(rules, tournament')
  BY <1>0, <1>5, WithdrawSound, EvolvesLively DEF Drop, SoundAndLively
<1>6. CASE Start
  <2>1. Sound(tournament') /\ \A id \in DOMAIN tournament'.pairings :
                                FreshPairing(tournament'.pairings[id])
    BY <1>0, <1>6, StartSound DEF Start
  <2> QED
    BY <1>1, <2>1, FreshIsAlive DEF Lively, SoundAndLively
<1>7. ASSUME NEW id \in Open, PlayerStep(id)
      PROVE  SoundAndLively(rules, tournament')
  BY <1>7, PlayerStepLively
<1>8. ASSUME NEW id \in Open, Resolve(id)
      PROVE  SoundAndLively(rules, tournament')
  BY <1>8, ResolveLively
<1>9. ASSUME NEW id \in Open, NEW outcome \in Players(id) \cup {Draw}, GameEnds(id, outcome)
      PROVE  SoundAndLively(rules, tournament')
  BY <1>9, GameEndsLively
<1>10. ASSUME NEW id \in Open, Deadline(id)
       PROVE  SoundAndLively(rules, tournament')
  BY <1>10, DeadlineLively
<1>11. ASSUME NEW id \in Open, NEW outcome \in Players(id), CrashAfterResult(id, outcome)
       PROVE  SoundAndLively(rules, tournament')
  BY <1>11, CrashLively
<1>12. CASE Cancel
  BY <1>0, <1>1, <1>12, CancelSound, ClosedIsLively DEF Cancel, SoundAndLively
<1>13. CASE Restart
  BY <1>1, <1>13, RestartLively
<1>14. CASE UNCHANGED vars
  BY <1>14 DEF vars
<1> QED
  BY <1>1, <1>2, <1>3, <1>4, <1>5, <1>6, <1>7, <1>8, <1>9, <1>10, <1>11, <1>12, <1>13, <1>14
     DEF TournamentNext

\* The invariant of Tournament.
TournamentInvariant == SoundAndLively(rules, tournament) /\ rules \in RuleSets

\* It holds in every state, restarts and crashes included.
THEOREM TournamentIsSound == TournamentSpec => []TournamentInvariant
<1>1. TournamentInit => TournamentInvariant
  BY NewTournamentSound, DraftFields, EmptyIsLively
     DEF TournamentInit, Init, TournamentInvariant, SoundAndLively
<1>2. TournamentInvariant /\ [TournamentNext]_vars => TournamentInvariant'
  BY TournamentStepSound DEF TournamentInvariant
<1> QED
  BY <1>1, <1>2, PTL DEF TournamentSpec

\* The type invariant of the lives: a phase of an open pairing, reported and
\* checked in by its own players, games between them.
THEOREM LivesAreTyped == TournamentSpec => []LifeTypeOK
<1>1. TournamentInvariant => LifeTypeOK
  <2> SUFFICES ASSUME TournamentInvariant, NEW id \in Open
               PROVE  /\ Life(id).phase \in {"Negotiating", "Reported", "Ready", "InProgress"}
                      /\ Life(id).by \in Players(id) \cup {Nobody}
                      /\ Life(id).ready \subseteq Players(id)
                      /\ \A i \in DOMAIN Life(id).games :
                           Life(id).games[i] \in Players(id) \cup {Draw}
    BY DEF LifeTypeOK, TournamentInvariant
  <2> DEFINE a == tournament.pairings[id].player1
             b == tournament.pairings[id].player2
             l == Life(id)
  <2>1. LifeGood(rules, l, a, b) /\ Players(id) = {a, b}
    BY LifeOfOpen DEF TournamentInvariant, SoundAndLively
  <2> HIDE DEF a, b, l
  <2>2. \A i \in DOMAIN l.games : l.games[i] \in {a, b, Draw}
    BY <2>1 DEF LifeGood
  <2> QED
    BY <2>1, <2>2 DEF LifeGood, Phases, l
<1> QED
  BY <1>1, TournamentIsSound, PTL

\* Every open pairing waits for exactly one of its deadline, the end of a timed
\* game and the organizer, and a settled one has neither deadline nor timer:
\* trackDeadline, untrackDeadline, _teardownPairingTimer, however decisions
\* cascade and wherever the server restarts.
THEOREM PairingsStayTimed == TournamentSpec => []PairingsAreTimed
<1>1. TournamentInvariant => PairingsAreTimed
  <2> SUFFICES ASSUME TournamentInvariant, NEW id \in DOMAIN tournament.pairings
               PROVE  /\ Life(id).timer <=> Life(id).phase = "InProgress"
                      /\ Life(id).overdue => Life(id).phase = "Reported" /\ Life(id).disputed
                      /\ Life(id).tracked <=> /\ id \in Open
                                              /\ Life(id).phase # "InProgress"
                                              /\ ~Life(id).overdue
    BY DEF PairingsAreTimed
  <2>1. Alive(rules, tournament.pairings[id])
    BY DEF TournamentInvariant, SoundAndLively, Lively
  <2>2. CASE id \in Open
    <3>1. OnTime(Life(id))
      BY <2>2, LifeOfOpen DEF TournamentInvariant, SoundAndLively, LifeGood
    <3> QED
      BY <2>2, <3>1 DEF OnTime
  <2>3. CASE id \notin Open
    <3>1. Life(id) = ClosedLife
      BY <2>1, <2>3 DEF Alive, Open, OpenPairings, IsOpen, Life
    <3> QED
      BY <2>3, <3>1, FreshLifeFields
  <2> QED
    BY <2>2, <2>3
<1> QED
  BY <1>1, TournamentIsSound, PTL

\* No series is played on after it is decided, and none is left open once it is:
\* recordPairingResult, startNextGame, _createReplayPairing, _hydratePairing.
THEOREM SeriesAreUndecided == TournamentSpec => []OpenSeriesAreUndecided
<1>1. TournamentInvariant => OpenSeriesAreUndecided
  <2> SUFFICES ASSUME TournamentInvariant, NEW id \in Open,
                      NEW n \in 0..Len(Life(id).games), n > 0
               PROVE  EvaluateSeries(SubSeq(Life(id).games, 1, n), tournament.pairings[id]) = Pending
    BY DEF OpenSeriesAreUndecided
  <2> DEFINE a == tournament.pairings[id].player1
             b == tournament.pairings[id].player2
             l == Life(id)
  <2>1. LifeGood(rules, l, a, b)
    BY LifeOfOpen DEF TournamentInvariant, SoundAndLively
  <2>2. Len(l.games) \in Nat
    BY <2>1 DEF LifeGood
  <2>3. n \in 1..Len(l.games)
    BY <2>2
  <2>4. Verdict(rules, SubSeq(l.games, 1, n), a, b) = Pending
    BY <2>1, <2>3 DEF LifeGood, Undecided
  <2> QED
    BY <2>4, EvaluateIsVerdict
<1> QED
  BY <1>1, TournamentIsSound, PTL

\* The count of the decided pairings is right with deadlines, restarts and a
\* crash between a result and its count: completedPairings is rebuilt.
THEOREM ServedDecisionsCountOnce == TournamentSpec => []EveryDecisionCountsOnce
<1>1. TournamentInvariant => EveryDecisionCountsOnce
  BY DEF TournamentInvariant, SoundAndLively, Sound, Counted, Decided, EveryDecisionCountsOnce
<1> QED
  BY <1>1, TournamentIsSound, PTL

-----------------------------------------------------------------------------
(* Rounds through restarts and crashes.                                    *)

\* A match that gets another life keeps the rounds as they are.
LEMMA RelivedRounds ==
  ASSUME NEW t, RoundsInv(t), NEW id \in OpenPairings(t), NEW life
  PROVE  RoundsInv(Relived(t, id, life)) /\ id \in OpenPairings(Relived(t, id, life))
<1> DEFINE u == Relived(t, id, life)
<1>1. /\ Sound(u) /\ Edited(t, u, id) /\ SamePlayers(t.pairings[id], u.pairings[id])
      /\ id \in OpenPairings(u)
      /\ u.pairings[id].state = t.pairings[id].state
  BY RelivedSound DEF RoundsInv
<1> HIDE DEF u
<1>2. /\ Fixed(t, u) /\ DOMAIN u.pairings = DOMAIN t.pairings
      /\ u.format = t.format /\ u.entries = t.entries
      /\ u.status = t.status /\ u.current = t.current /\ u.withdrawn = t.withdrawn
      /\ u.round = t.round /\ u.ranks = t.ranks
  BY <1>1 DEF Edited, Fixed
<1>3. \A x \in DOMAIN t.pairings : u.pairings[x].state = t.pairings[x].state
  BY <1>1 DEF Edited
<1>4. \A x \in DOMAIN t.pairings : SamePlayers(t.pairings[x], u.pairings[x])
  BY <1>1 DEF Edited, SamePlayers
<1>5. Calm(t, u)
  BY <1>2, <1>3, <1>4 DEF Calm, Live, IsOpen
<1>6. OpenPairings(u) = OpenPairings(t)
  BY <1>2, <1>3 DEF OpenPairings, IsOpen
<1>7. t.format \in RoundFormats => Onward(u) /\ u.status = "active"
  <2> SUFFICES ASSUME t.format \in RoundFormats PROVE Onward(u) /\ u.status = "active"
    OBVIOUS
  <2>1. RoundState(t) /\ t.status = "active" /\ \E x \in t.current : IsOpen(t, x)
    BY OpenIsActive DEF RoundsInv, Begun, Onward
  <2>2. RoundState(u)
    BY <1>2, <1>5, <2>1, CalmState
  <2>3. t.current \subseteq DOMAIN t.pairings
    BY DEF RoundsInv, Sound
  <2>4. \E x \in u.current : IsOpen(u, x)
    BY <1>2, <1>3, <2>1, <2>3 DEF IsOpen
  <2> QED
    BY <1>2, <2>1, <2>2, <2>4 DEF Onward
<1>8. RoundsInv(u)
  BY <1>1, <1>2, <1>7 DEF RoundsInv, Begun
<1> QED
  BY <1>1, <1>8 DEF u

\* A decision,
LEMMA DecidedRounds ==
  ASSUME NEW t, RoundsInv(t), NEW id \in OpenPairings(t), NEW w
  PROVE  RoundsInv(Decide(t, id, w))
<1> DEFINE u == Decide(t, id, w)
<1>1. /\ Sound(u) /\ u.status \in {t.status, "completed"} /\ u.format = t.format
  BY DecideSound, SlottedEvolves DEF RoundsInv
<1>2. t.format \in RoundFormats => Onward(u)
  BY DecideOnward
<1> HIDE DEF u
<1>3. RoundsInv(u)
  BY <1>1, <1>2, OpenFormats
<1> QED
  BY <1>3 DEF u

\* a replay
LEMMA ReplayedRounds ==
  ASSUME NEW t, RoundsInv(t), NEW id \in OpenPairings(t),
         NEW v, WellFormed(v), Edited(t, v, id), SameSeats(t.pairings[id], v.pairings[id]),
         t.format # "double_elim" => v.pairings[id].state = "DoubleNoShow"
  PROVE  RoundsInv(Replay(v, id))
<1> DEFINE u == Replay(v, id)
<1>1. /\ Sound(u) /\ Replayed(v, u, id)
      /\ t.format # "double_elim" => ReplayId(v, id) \notin DOMAIN t.pairings
  BY ReplaySound DEF RoundsInv
<1> HIDE DEF u
<1>2. u.status = t.status /\ u.format = t.format
  BY <1>1 DEF Replayed, Beside, Edited, Fixed
<1>3. t.format \in RoundFormats => Onward(u)
  <2>1. t.format \in RoundFormats => t.format # "double_elim"
    BY DEF RoundFormats
  <2> QED
    BY <1>1, <2>1, ReplayOnward
<1>4. RoundsInv(u)
  BY <1>1, <1>2, <1>3, OpenFormats
<1> QED
  BY <1>4 DEF u

\* and a release keep the invariant of rounds.
LEMMA ReleasedRounds ==
  ASSUME NEW t, RoundsInv(t), t.format \in RoundFormats, NEW id \in OpenPairings(t), NEW life
  PROVE  RoundsInv(AdvanceIfRoundComplete(Released(t, id, life)))
<1> DEFINE s == Released(t, id, life)
           u == AdvanceIfRoundComplete(s)
<1>1. /\ Sound(u) /\ u.status \in {t.status, "completed"}
      /\ Edited(t, s, id) /\ Evolves(s, u)
  BY ReleaseSound DEF RoundsInv
<1>2. Onward(u)
  BY ReleaseOnward
<1> HIDE DEF s, u
<1>3. u.format = t.format
  BY <1>1 DEF Edited, Fixed, Evolves
<1>4. RoundsInv(u)
  BY <1>1, <1>2, <1>3, OpenFormats
<1> QED
  BY <1>4 DEF u, s

\* What is read back of rounds is what they were: the current round is the last.
LEMMA RereadRounds ==
  ASSUME NEW t, Saved(t), t.format \in RoundFormats, RoundState(t), NEW s, Reread(t, s)
  PROVE  /\ RoundState(s) /\ OpenPairings(s) = OpenPairings(t)
         /\ t.current \subseteq s.current
         /\ \A id \in OpenPairings(t) : id \in s.current /\ IsOpen(s, id)
         /\ Field(s) = Field(t)
<1>1. Basic(t) /\ t.current \subseteq DOMAIN t.pairings /\ DOMAIN t.pairings # {}
  BY DEF Saved
<1>2. \A id \in DOMAIN t.pairings : t.pairings[id].round = id[1] /\ id[1] <= t.round
  BY <1>1 DEF Basic, Numbered
<1>3. /\ Fixed(t, s) /\ s.withdrawn = t.withdrawn /\ s.entries = t.entries
      /\ DOMAIN s.pairings = DOMAIN t.pairings
      /\ \A id \in DOMAIN t.pairings :
           SamePlayers(t.pairings[id], s.pairings[id])
             /\ s.pairings[id].state = t.pairings[id].state
  BY <1>1, ReadFields DEF Reread, Basic, Fixed
<1>4. Calm(t, s) /\ OpenPairings(s) = OpenPairings(t)
  BY <1>3 DEF Calm, Live, IsOpen, OpenPairings
<1>5. Seating(s) /\ Attended(s)
  BY <1>3, <1>4, CalmKeeps DEF RoundState
<1>6. /\ s.round = LastPaired(t)
      /\ s.current = {id \in DOMAIN t.pairings : t.pairings[id].round = LastPaired(t)}
  BY DEF Reread, RoundFormats
<1>7. /\ LastPaired(t) \in Nat /\ LastPaired(t) <= t.round /\ t.round \in Nat
      /\ \A id \in DOMAIN t.pairings : id[1] <= LastPaired(t)
  BY <1>1, LastPairedIsLast DEF Basic, WellFormed
<1>8. ASSUME NEW id \in t.current
      PROVE  id \in s.current
  <2>1. id \in DOMAIN t.pairings /\ id[1] = t.round
    BY <1>1, <1>8 DEF RoundState
  <2>2. LastPaired(t) = t.round
    BY <1>7, <2>1
  <2> QED
    BY <1>2, <1>6, <2>1, <2>2
<1>9. OpenPairings(t) \subseteq s.current
  BY <1>8 DEF RoundState
<1>10. \A id \in s.current : id[1] = s.round
  BY <1>2, <1>6
<1>11. RoundState(s)
  BY <1>4, <1>5, <1>9, <1>10 DEF RoundState
<1>12. \A id \in OpenPairings(t) : IsOpen(s, id)
  BY <1>4 DEF OpenPairings
<1>13. Field(s) = Field(t)
  BY <1>3 DEF Field, Fixed
<1> QED
  BY <1>4, <1>8, <1>9, <1>11, <1>12, <1>13

\* A restart between two handlers.
LEMMA RestartRounds ==
  ASSUME NEW t, RoundsInv(t), Saved(t)
  PROVE  RoundsInv(Hydrate(t))
<1> DEFINE u == Hydrate(t)
<1>1. /\ Sound(u) /\ u.withdrawn = t.withdrawn /\ u.format = t.format
      /\ u.status \in {t.status, "completed"}
  BY HydrateSound
<1>2. PICK s : /\ Reread(t, s) /\ Sound(s) /\ Evolves(s, u)
               /\ t.format \in RoundFormats =>
                    u = IF t.status = "active" THEN AdvanceIfRoundComplete(s) ELSE s
  BY HydrateSound
<1> HIDE DEF u
<1>3. t.status \in {"active", "completed", "cancelled"}
  BY DEF RoundsInv, Saved
<1>4. ASSUME t.format \in RoundFormats
      PROVE  /\ Onward(u)
             /\ u.status = "cancelled" => OpenPairings(u) = {}
  <2>1. Onward(t) /\ RoundState(t)
    BY <1>4 DEF RoundsInv, Begun, Onward
  <2>2. /\ RoundState(s) /\ OpenPairings(s) = OpenPairings(t)
        /\ \A id \in OpenPairings(t) : id \in s.current /\ IsOpen(s, id)
        /\ Field(s) = Field(t)
    BY <1>2, <1>4, <2>1, RereadRounds
  <2>3. /\ s.format = t.format /\ s.status = t.status /\ s.ranks = t.ranks
        /\ s.entries = t.entries
    BY <1>2 DEF Reread, Fixed
  <2>4. CASE t.status = "active"
    <3>1. PICK id \in t.current : IsOpen(t, id)
      BY <2>1, <2>4 DEF Onward
    <3>2. id \in OpenPairings(t)
      BY <3>1 DEF OpenPairings, Saved
    <3>3. id \in s.current /\ IsOpen(s, id)
      BY <2>2, <3>2
    <3>4. ~RoundComplete(s)
      BY <3>3 DEF RoundComplete
    <3>5. s.format \in RoundFormats /\ s.status = "active" /\ s.current # {}
      BY <1>4, <2>3, <2>4, <3>3
    <3>6. Onward(u)
      BY <1>2, <1>4, <2>2, <2>4, <3>4, <3>5, AdvanceOnward
    <3>7. u.status # "cancelled"
      BY <1>1, <2>4
    <3> QED
      BY <3>6, <3>7
  <2>5. CASE t.status # "active"
    <3>1. u = s
      BY <1>2, <1>4, <2>5
    <3>2. OpenPairings(t) = {}
      BY <1>3, <1>4, <2>5 DEF RoundsInv, Begun
    <3>3. t.status = "completed" => IsPodium(s.ranks, Range(s.entries))
      BY <2>1, <2>3 DEF Onward
    <3>4. Onward(s)
      BY <2>2, <2>3, <2>5, <3>2, <3>3 DEF Onward
    <3> QED
      BY <2>2, <3>1, <3>2, <3>4
  <2> QED
    BY <2>4, <2>5
<1>5. u.status \in {"active", "completed", "cancelled"}
  BY <1>1, <1>3
<1>6. RoundsInv(u)
  BY <1>1, <1>4, <1>5 DEF RoundsInv, Begun, Onward
<1> QED
  BY <1>6 DEF u

\* A restart that finds a result saved and nothing done about it.
LEMMA CrashRounds ==
  ASSUME NEW t, RoundsInv(t), NEW id \in OpenPairings(t), NEW w
  PROVE  RoundsInv(Hydrate(Settled(t, id, w)))
<1> DEFINE v == Settled(t, id, w)
           u == Hydrate(v)
<1>1. /\ Saved(v) /\ Edited(t, v, id)
      /\ SamePlayers(t.pairings[id], v.pairings[id])
      /\ v.pairings[id].state = "Completed"
  BY CrashSaves DEF RoundsInv
<1> HIDE DEF v
<1>2. /\ Fixed(t, v) /\ DOMAIN v.pairings = DOMAIN t.pairings
      /\ v.format = t.format /\ v.entries = t.entries
      /\ v.status = t.status /\ v.current = t.current /\ v.withdrawn = t.withdrawn
      /\ v.round = t.round
      /\ \A x \in DOMAIN t.pairings : x # id => v.pairings[x] = t.pairings[x]
  BY <1>1 DEF Edited, Fixed
<1>3. Calm(t, v)
  BY <1>1, <1>2, EditedCalm
<1>4. /\ Sound(u) /\ u.format = t.format /\ u.status \in {t.status, "completed"}
  BY <1>1, <1>2, HydrateSound
<1>5. PICK s : /\ Reread(v, s) /\ Sound(s)
               /\ v.format \in RoundFormats =>
                    u = IF v.status = "active" THEN AdvanceIfRoundComplete(s) ELSE s
  BY <1>1, HydrateSound
<1> HIDE DEF u
<1>6. t.format \in RoundFormats => Onward(u)
  <2> SUFFICES ASSUME t.format \in RoundFormats PROVE Onward(u)
    OBVIOUS
  <2>1. /\ t.status = "active" /\ RoundState(t) /\ t.current # {}
        /\ Field(t) # {}
    BY OpenIsActive
  <2>2. RoundState(v) /\ Field(v) = Field(t)
    BY <1>2, <1>3, <2>1, CalmState DEF Field
  <2>3. RoundState(s) /\ t.current \subseteq s.current /\ Field(s) = Field(t)
    BY <1>1, <1>2, <1>5, <2>2, RereadRounds
  <2> s.current # {}
    BY <2>1, <2>3
  <2>4. s.format = t.format /\ s.status = "active"
    BY <1>2, <1>5, <2>1 DEF Reread, Fixed
  <2>5. u = AdvanceIfRoundComplete(s)
    BY <1>2, <1>5, <2>1
  <2> QED
    BY <1>5, <2>1, <2>3, <2>4, <2>5, AdvanceOnward
<1>7. RoundsInv(u)
  BY <1>4, <1>6, OpenFormats
<1> QED
  BY <1>7 DEF u, v

\* A match that got another life, and no more.
LEMMA LifeStepRounds ==
  ASSUME RoundsInv(tournament), NEW id \in Open, NEW life,
         tournament' = WithLife(id, life)
  PROVE  RoundsInv(tournament')
BY RelivedRounds, WithLifeIsRelived DEF Open

\* The players and the organizer arrange a match.
LEMMA PlayerStepRounds ==
  ASSUME RoundsInv(tournament), NEW id \in Open, PlayerStep(id) \/ Resolve(id)
  PROVE  RoundsInv(tournament')
<1>1. ASSUME NEW e, Report(id, e) \/ Confirm(id, e) \/ Dispute(id, e) \/ CheckIn(id, e)
      PROVE  \E life : tournament' = WithLife(id, life)
  <2>1. CASE Report(id, e)
    BY <2>1 DEF Report
  <2>2. CASE Confirm(id, e)
    BY <2>2 DEF Confirm
  <2>3. CASE Dispute(id, e)
    BY <2>3 DEF Dispute
  <2>4. CASE CheckIn(id, e)
    BY <2>4 DEF CheckIn
  <2> QED
    BY <1>1, <2>1, <2>2, <2>3, <2>4
<1>2. \E life : tournament' = WithLife(id, life)
  BY <1>1 DEF PlayerStep, Resolve
<1> QED
  BY <1>2, LifeStepRounds

\* The organizer adjusts a pairing.
LEMMA AdjustRounds ==
  ASSUME RoundsInv(tournament), NEW id \in Open, Adjust(id)
  PROVE  RoundsInv(tournament')
<1> DEFINE t == tournament
           s == Released(t, id, ClosedLife)
<1>1. id \in DOMAIN t.pairings /\ id \in OpenPairings(t) /\ WellFormed(t) /\ t.format \in Formats
  BY DEF Open, OpenPairings, RoundsInv, Sound, Basic, WellFormed
<1>2. tournament' = IF t.format = "double_elim" THEN Replay(s, id) ELSE AdvanceIfRoundComplete(s)
  BY DEF Adjust, Released
<1>3. CASE t.format = "double_elim"
  <2>1. /\ WellFormed(s) /\ Edited(t, s, id) /\ SamePlayers(t.pairings[id], s.pairings[id])
    BY <1>1, ReleasedFields
  <2> HIDE DEF s
  <2>2. SameSeats(t.pairings[id], s.pairings[id])
    BY <2>1 DEF SamePlayers, SameSeats
  <2>3. RoundsInv(Replay(s, id))
    BY <1>1, <1>3, <2>1, <2>2, ReplayedRounds
  <2> QED
    BY <1>2, <1>3, <2>3
<1>4. CASE t.format # "double_elim"
  <2>1. t.format \in RoundFormats
    BY <1>1, <1>4 DEF Formats, RoundFormats
  <2> QED
    BY <1>1, <1>2, <1>4, <2>1, ReleasedRounds
<1> QED
  BY <1>3, <1>4

\* A game ends.
LEMMA GameEndsRounds ==
  ASSUME RoundsInv(tournament), NEW id \in Open, NEW outcome, GameEnds(id, outcome)
  PROVE  RoundsInv(tournament')
<1> DEFINE t == tournament
           games == Append(Life(id).games, outcome)
           result == EvaluateSeries(games, t.pairings[id])
           played == [Life(id) EXCEPT !.games = games]
           rest == [played EXCEPT !.phase = "Ready", !.ready = {}, !.tracked = TRUE, !.timer = FALSE]
           over == WithLife(id, [played EXCEPT !.timer = FALSE])
<1>1. tournament' = IF result = Pending THEN WithLife(id, rest)
                    ELSE IF result = Draw /\ t.format = "double_elim" THEN Replay(over, id)
                    ELSE Decide(over, id, result)
  BY DEF GameEnds
<1>2. over = Relived(t, id, [played EXCEPT !.timer = FALSE])
  BY WithLifeIsRelived
<1>3. /\ RoundsInv(over) /\ id \in OpenPairings(over)
  BY <1>2, RelivedRounds DEF Open
<1>4. Edited(t, over, id)
  BY <1>2, RelivedSound DEF RoundsInv, Open
<1> HIDE DEF result, over
<1>5. CASE tournament' = WithLife(id, rest)
  <2> HIDE DEF rest
  <2> QED
    BY <1>5, LifeStepRounds
<1>6. CASE t.format = "double_elim" /\ tournament' = Replay(over, id)
  <2>1. over.format = "double_elim"
    BY <1>4, <1>6 DEF Edited, Fixed
  <2>2. /\ WellFormed(over) /\ Edited(over, over, id)
        /\ SameSeats(over.pairings[id], over.pairings[id])
    BY <1>3, EditedReflexive DEF RoundsInv, Sound, Basic, SameSeats
  <2> QED
    BY <1>3, <1>6, <2>1, <2>2, ReplayedRounds
<1>7. CASE tournament' = Decide(over, id, result)
  BY <1>3, <1>7, DecidedRounds
<1> QED
  BY <1>1, <1>5, <1>6, <1>7

\* A deadline falls.
LEMMA DeadlineRounds ==
  ASSUME RoundsInv(tournament), NEW id \in Open, Deadline(id)
  PROVE  RoundsInv(tournament')
<1> DEFINE t == tournament
           v == Voided(t, id, ClosedLife)
<1>1. id \in DOMAIN t.pairings /\ id \in OpenPairings(t) /\ WellFormed(t)
  BY DEF Open, OpenPairings, RoundsInv, Sound, Basic
<1>2. \/ \E life : tournament' = WithLife(id, life)
      \/ \E w : tournament' = Decide(t, id, w)
      \/ tournament' = Replay(v, id)
  BY DEF Deadline, DisputeOverdue, WalkoverAtDeadline, VoidAtDeadline, Voided
<1>3. CASE \E life : tournament' = WithLife(id, life)
  BY <1>3, LifeStepRounds
<1>4. CASE \E w : tournament' = Decide(t, id, w)
  BY <1>1, <1>4, DecidedRounds
<1>5. CASE tournament' = Replay(v, id)
  <2>1. /\ WellFormed(v) /\ Edited(t, v, id) /\ SameSeats(t.pairings[id], v.pairings[id])
        /\ v.pairings[id].state = "DoubleNoShow"
    BY <1>1, VoidedFields
  <2> HIDE DEF v
  <2> QED
    BY <1>1, <1>5, <2>1, ReplayedRounds
<1> QED
  BY <1>2, <1>3, <1>4, <1>5

\* The server restarts, in draft or not.
LEMMA RebootRounds ==
  ASSUME RoundsInv(tournament), Restart
  PROVE  RoundsInv(tournament')
<1>1. tournament' = Hydrate(tournament)
  BY DEF Restart
<1>2. CASE tournament.status = "draft" \/ DOMAIN tournament.pairings = {}
  <2>1. Hydrate(tournament) = tournament
    BY <1>2, Zenon DEF Hydrate
  <2> QED
    BY <1>1, <2>1
<1>3. CASE ~(tournament.status = "draft" \/ DOMAIN tournament.pairings = {})
  <2>1. Saved(tournament)
    BY <1>3 DEF RoundsInv, Sound, Saved
  <2> QED
    BY <1>1, <2>1, RestartRounds
<1> QED
  BY <1>2, <1>3

\* A player withdraws.
LEMMA WithdrawRounds ==
  ASSUME NEW t, RoundsInv(t), t.status = "active", NEW e
  PROVE  RoundsInv(WithdrawPlayer(t, e))
<1> DEFINE u == WithdrawPlayer(t, e)
<1>1. /\ Sound(u) /\ u.status \in {"active", "completed"} /\ u.format = t.format
  BY WithdrawSound, SlottedEvolves DEF RoundsInv
<1>2. t.format \in RoundFormats => Onward(u)
  BY WithdrawOnward
<1> HIDE DEF u
<1>3. RoundsInv(u)
  BY <1>1, <1>2, StartedRounds
<1> QED
  BY <1>3 DEF u

\* Every step of Tournament keeps the invariant of rounds.
LEMMA TournamentStepRounds ==
  ASSUME RoundsInv(tournament), [TournamentNext]_vars
  PROVE  RoundsInv(tournament')
<1>1. ASSUME NEW id \in Open, Adjust(id)
      PROVE  RoundsInv(tournament')
  BY <1>1, AdjustRounds
<1>2. CASE \/ Register \/ Start \/ Cancel \/ UNCHANGED tournament
           \/ \E e \in 1..MaxEntries : Unregister(e)
  <2>1. [Next]_tournament
    BY <1>2 DEF Next
  <2> QED
    BY <2>1, RoundsStep
<1>3. ASSUME NEW e \in 1..MaxEntries, Drop(e)
      PROVE  RoundsInv(tournament')
  BY <1>3, WithdrawRounds DEF Drop
<1>4. ASSUME NEW id \in Open, PlayerStep(id) \/ Resolve(id)
      PROVE  RoundsInv(tournament')
  BY <1>4, PlayerStepRounds
<1>5. ASSUME NEW id \in Open, NEW outcome, GameEnds(id, outcome)
      PROVE  RoundsInv(tournament')
  BY <1>5, GameEndsRounds
<1>6. ASSUME NEW id \in Open, Deadline(id)
      PROVE  RoundsInv(tournament')
  BY <1>6, DeadlineRounds
<1>7. ASSUME NEW id \in Open, NEW outcome, CrashAfterResult(id, outcome)
      PROVE  RoundsInv(tournament')
  <2>1. PICK w : tournament' = Hydrate(Settled(tournament, id, w))
    BY <1>7, CrashIsSettled
  <2> QED
    BY <2>1, CrashRounds DEF Open
<1>8. CASE Restart
  BY <1>8, RebootRounds
<1> QED
  BY <1>1, <1>2, <1>3, <1>4, <1>5, <1>6, <1>7, <1>8 DEF TournamentNext, vars

\* It holds in every state of Tournament.
THEOREM ServedRoundsAreInvariant == TournamentSpec => []RoundsInvariant
<1>1. TournamentInit => RoundsInvariant
  BY RoundsStart DEF TournamentInit, RoundsInvariant
<1>2. RoundsInvariant /\ [TournamentNext]_vars => RoundsInvariant'
  BY TournamentStepRounds DEF RoundsInvariant
<1> QED
  BY <1>1, <1>2, PTL DEF TournamentSpec

\* The rounds are fair with deadlines, no-shows that are played again, series,
\* restarts and crashes.
THEOREM ServedRoundsStayFair == TournamentSpec => []RoundsAreFair
<1>1. RoundsInvariant => RoundsAreFair
  BY InvIsFair DEF RoundsInvariant
<1> QED
  BY <1>1, ServedRoundsAreInvariant, PTL

\* A crash between the result that completes a round and the next round heals:
\* after the restart a Swiss or round-robin tournament is over with its podium
\* or has an open match, as the comment of _hydrateFormatState means it to (and
\* as does not hold of a bracket).
THEOREM RoundsHealAfterCrashes ==
  TournamentSpec =>
    [](tournament.format \in RoundFormats => CrashesHeal /\ RanksAreAPodium)
<1>1. RoundsInvariant =>
        (tournament.format \in RoundFormats => CrashesHeal /\ RanksAreAPodium)
  BY RoundsHaveAMatch DEF RoundsInvariant, ActiveHasAMatch, CrashesHeal, Open, OpenPairings
<1> QED
  BY <1>1, ServedRoundsAreInvariant, PTL
=============================================================================
