---------------------------- MODULE LobbyProofs ----------------------------
(***************************************************************************)
(* Proofs about Lobby.                                                     *)
(*                                                                         *)
(* That challenges and their notifications agree is not inductive:         *)
(* removing one offer removes the notification of its pair of users, which *)
(* is right only while no other offer is between the same two, and a timer *)
(* that fires removes an offer without looking whether it is still         *)
(* pending.                                                                *)
(*                                                                         *)
(* That nobody waits beside a match is not inductive either: it needs one  *)
(* entry per user, made by the socket the user has, and it is about the    *)
(* list at the end of a pass, after an induction over the entries served.  *)
(* What a place is lost for follows from the same pass, with an induction  *)
(* over the pairs seated.                                                  *)
(***************************************************************************)
EXTENDS Lobby, SubsequenceProofs, TLAPS

\* send() replaces the offer there was, so that there is one per direction.
OneOfferEach ==
  \A c, d \in offers : c.from = d.from /\ c.to = d.to => c = d

\* A timer for each pending offer, and for no other.
TimersAreForOffers == armed = offers

OffersAreToUsers == \A c \in offers : c.to \in Users

OfferInv == OneOfferEach /\ TimersAreForOffers /\ OffersAreNotified /\ OffersAreToUsers

\* Without one of them the other offers are one per direction still, and theirs
\* are the notifications that stay.
LEMMA RemovalKeepsOffers ==
  ASSUME OfferInv, NEW c \in offers, offers' = offers \ {c}, armed' = armed \ {c},
         notified' = notified \ {<<c.to, c.from>>}
  PROVE  OfferInv'
<1>1. \A d \in offers : <<d.to, d.from>> = <<c.to, c.from>> => d = c
  BY DEF OfferInv, OneOfferEach
<1>2. notified' = {<<d.to, d.from>> : d \in offers'}
  BY <1>1 DEF OfferInv, OffersAreNotified
<1> QED
  BY <1>2 DEF OfferInv, OneOfferEach, TimersAreForOffers, OffersAreNotified, OffersAreToUsers

\* An offer sent again takes the place of the one before it, with its
\* notification.
LEMMA SendKeepsOffers ==
  ASSUME OfferInv, NEW u \in Users, NEW v \in Users, Send(u, v)
  PROVE  OfferInv'
<1> DEFINE c == [id |-> Min(FreshIds(u, v)), from |-> u, to |-> v]
<1>1. /\ offers' = (offers \ Resent(u, v)) \cup {c}
      /\ armed' = (armed \ Resent(u, v)) \cup {c}
      /\ notified' = notified \cup {<<v, u>>}
      /\ c.from = u /\ c.to = v
  BY DEF Send, Disarm
<1> HIDE DEF c
<1>2. OneOfferEach'
  BY <1>1 DEF OfferInv, OneOfferEach, Resent
<1>3. OffersAreNotified'
  <2>1. ASSUME NEW x \in notified'
        PROVE  x \in {<<d.to, d.from>> : d \in offers'}
    <3>1. CASE x = <<v, u>>
      BY <1>1, <3>1
    <3>2. CASE x # <<v, u>>
      <4>1. PICK d \in offers : x = <<d.to, d.from>>
        BY <1>1, <2>1, <3>2 DEF OfferInv, OffersAreNotified
      <4>2. d \notin Resent(u, v)
        BY <3>2, <4>1 DEF Resent
      <4> QED
        BY <1>1, <4>1, <4>2
    <3> QED
      BY <3>1, <3>2
  <2>2. ASSUME NEW d \in offers'
        PROVE  <<d.to, d.from>> \in notified'
    BY <1>1, <2>2 DEF OfferInv, OffersAreNotified
  <2>3. notified' = {<<d.to, d.from>> : d \in offers'}
    BY <2>1, <2>2
  <2> QED
    BY <2>3 DEF OffersAreNotified
<1> QED
  BY <1>1, <1>2, <1>3 DEF OfferInv, TimersAreForOffers, OffersAreToUsers

LEMMA NextKeepsOffers == OfferInv /\ [Next]_vars => OfferInv'
<1> SUFFICES ASSUME OfferInv, [Next]_vars PROVE OfferInv'
  OBVIOUS
<1>1. CASE UNCHANGED offerVars
  BY <1>1 DEF offerVars, OfferInv, OneOfferEach, TimersAreForOffers, OffersAreNotified, OffersAreToUsers
<1>2. CASE OfferStep
  <2>1. ASSUME NEW c \in offers, Accept(c) \/ Close(c)
        PROVE  OfferInv'
    BY <2>1, RemovalKeepsOffers DEF Accept, Close, RemoveOffer, Disarm
  <2>2. ASSUME NEW c \in armed, Expire(c)
        PROVE  OfferInv'
    <3>1. c \in offers
      BY <2>2 DEF OfferInv, TimersAreForOffers
    <3> QED
      BY <2>2, <3>1, RemovalKeepsOffers DEF Expire
  <2> QED
    BY <1>2, <2>1, <2>2, SendKeepsOffers DEF OfferStep
<1> QED
  BY <1>1, <1>2 DEF Next, Connect, Disconnect, vars

THEOREM OfferInvariance == Spec => []OfferInv
<1>1. Init => OfferInv
  BY DEF Init, OfferInv, OneOfferEach, TimersAreForOffers, OffersAreNotified, OffersAreToUsers
<1> QED
  BY <1>1, NextKeepsOffers, PTL DEF Spec

\* Among any number of users a challenge notification stands exactly for an
\* offer that is pending, however often offers were sent again, accepted,
\* declined, cancelled or timed out.
THEOREM NotificationsCorrect == Spec => []OffersAreNotified
<1>1. OfferInv => OffersAreNotified
  BY DEF OfferInv
<1> QED
  BY <1>1, OfferInvariance, PTL

(***************************************************************************)
(* Quick match.  A pass of pair() goes through the entries it started      *)
(* from and takes them off a list it shortens on the way: that nobody is   *)
(* left beside a match is about the list at the end, which entries looked  *)
(* at much earlier are still on.                                           *)
(***************************************************************************)
Entries == [user : Users, socket : SocketIds, chip : Chips, rating : Nat, age : 0..WindowOpen]

OnePlaceEach(q) == \A i, j \in DOMAIN q : q[i].user = q[j].user => i = j

\* The recursion of a pass, and of seating its pairs, at each step.
LEMMA PairUpUnrolls ==
  ASSUME NEW q, Len(q) \in Nat
  PROVE  \E pass : /\ PairUp(q) = pass[Len(q)]
                   /\ pass[0] = [left |-> q, pairs |-> <<>>]
                   /\ \A k \in 1..Len(q) : pass[k] = Serve(pass[k - 1], q[k])
<1> DEFINE Start == [left |-> q, pairs |-> <<>>]
           At(g, k) == IF k = 0 THEN Start ELSE Serve(g[k - 1], q[k])
           S == {n \in Nat : \E g : g = [k \in 0..n |-> At(g, k)]}
<1>1. 0 \in S
  <2> DEFINE g == [k \in 0..0 |-> Start]
  <2>1. g = [k \in 0..0 |-> At(g, k)]
    OBVIOUS
  <2> QED
    BY <2>1
<1>2. ASSUME NEW n \in Nat, n \in S
      PROVE  n + 1 \in S
  <2>1. PICK g : g = [k \in 0..n |-> At(g, k)]
    BY <1>2
  <2> DEFINE h == [k \in 0..(n + 1) |-> IF k = n + 1 THEN Serve(g[n], q[n + 1]) ELSE g[k]]
  <2>2. ASSUME NEW k \in 0..(n + 1)
        PROVE  h[k] = At(h, k)
    <3>1. CASE k = n + 1
      <4>1. k # 0 /\ k - 1 = n /\ n \in 0..(n + 1) /\ n # n + 1
        BY <3>1
      <4>2. h[n] = g[n]
        BY <4>1
      <4> QED
        BY <3>1, <4>1, <4>2
    <3>2. CASE k = 0
      <4>1. h[0] = g[0] /\ g[0] = Start
        BY <2>1
      <4> QED
        BY <3>2, <4>1
    <3>3. CASE k \in 1..n
      <4>1. k \in 0..n /\ k # 0 /\ k - 1 \in 0..n /\ k - 1 \in 0..(n + 1) /\ k - 1 # n + 1 /\ k # n + 1
        BY <3>3
      <4>2. h[k] = g[k] /\ h[k - 1] = g[k - 1]
        BY <4>1
      <4>3. g[k] = At(g, k)
        BY <2>1, <4>1
      <4> QED
        BY <4>1, <4>2, <4>3
    <3> QED
      BY <3>1, <3>2, <3>3
  <2>3. h = [k \in 0..(n + 1) |-> At(h, k)]
    BY <2>2
  <2>4. \E f : f = [k \in 0..(n + 1) |-> At(f, k)]
    <3> HIDE DEF h, At
    <3> QED
      BY <2>3
  <2> QED
    BY <2>4
<1>3. \A n \in Nat : n \in S
  <2> HIDE DEF S
  <2> QED
    BY <1>1, <1>2, SetInduction
<1> DEFINE pass == CHOOSE g : g = [k \in 0..Len(q) |-> At(g, k)]
<1>4. pass = [k \in 0..Len(q) |-> At(pass, k)]
  <2>1. \E g : g = [k \in 0..Len(q) |-> At(g, k)]
    BY <1>3
  <2> QED
    BY <2>1
<1>5. PairUp(q) = pass[Len(q)]
  BY Zenon DEF PairUp
<1> HIDE DEF pass
<1>6. pass[0] = Start
  BY <1>4
<1>7. ASSUME NEW k \in 1..Len(q)
      PROVE  pass[k] = Serve(pass[k - 1], q[k])
  <2>1. k \in 0..Len(q) /\ k # 0
    OBVIOUS
  <2> QED
    BY <1>4, <2>1
<1> QED
  BY <1>5, <1>6, <1>7

LEMMA SeatAllUnrolls ==
  ASSUME NEW pairs, Len(pairs) \in Nat
  PROVE  \E map : /\ SeatAll(pairs) = map[Len(pairs)]
                  /\ map[0] = roomOf
                  /\ \A k \in 1..Len(pairs) :
                       map[k] = SeatNextPair(map[k - 1], pairs[k])
<1> DEFINE At(g, k) == IF k = 0 THEN roomOf ELSE SeatNextPair(g[k - 1], pairs[k])
           S == {n \in Nat : \E g : g = [k \in 0..n |-> At(g, k)]}
<1>1. 0 \in S
  <2> DEFINE g == [k \in 0..0 |-> roomOf]
  <2>1. g = [k \in 0..0 |-> At(g, k)]
    OBVIOUS
  <2> QED
    BY <2>1
<1>2. ASSUME NEW n \in Nat, n \in S
      PROVE  n + 1 \in S
  <2>1. PICK g : g = [k \in 0..n |-> At(g, k)]
    BY <1>2
  <2> DEFINE h == [k \in 0..(n + 1) |-> IF k = n + 1 THEN SeatNextPair(g[n], pairs[n + 1]) ELSE g[k]]
  <2>2. ASSUME NEW k \in 0..(n + 1)
        PROVE  h[k] = At(h, k)
    <3>1. CASE k = n + 1
      <4>1. k # 0 /\ k - 1 = n /\ n \in 0..(n + 1) /\ n # n + 1
        BY <3>1
      <4>2. h[n] = g[n]
        BY <4>1
      <4> QED
        BY <3>1, <4>1, <4>2
    <3>2. CASE k = 0
      <4>1. h[0] = g[0] /\ g[0] = roomOf
        BY <2>1
      <4> QED
        BY <3>2, <4>1
    <3>3. CASE k \in 1..n
      <4>1. k \in 0..n /\ k # 0 /\ k - 1 \in 0..n /\ k - 1 \in 0..(n + 1) /\ k - 1 # n + 1 /\ k # n + 1
        BY <3>3
      <4>2. h[k] = g[k] /\ h[k - 1] = g[k - 1]
        BY <4>1
      <4>3. g[k] = At(g, k)
        BY <2>1, <4>1
      <4> QED
        BY <4>1, <4>2, <4>3
    <3> QED
      BY <3>1, <3>2, <3>3
  <2>3. h = [k \in 0..(n + 1) |-> At(h, k)]
    BY <2>2
  <2>4. \E f : f = [k \in 0..(n + 1) |-> At(f, k)]
    <3> HIDE DEF h, At
    <3> QED
      BY <2>3
  <2> QED
    BY <2>4
<1>3. \A n \in Nat : n \in S
  <2> HIDE DEF S
  <2> QED
    BY <1>1, <1>2, SetInduction
<1> DEFINE map == CHOOSE g : g = [k \in 0..Len(pairs) |-> At(g, k)]
<1>4. map = [k \in 0..Len(pairs) |-> At(map, k)]
  <2>1. \E g : g = [k \in 0..Len(pairs) |-> At(g, k)]
    BY <1>3
  <2> QED
    BY <2>1
<1>5. SeatAll(pairs) = map[Len(pairs)]
  BY Zenon DEF SeatAll
<1> HIDE DEF map
<1>6. map[0] = roomOf
  BY <1>4
<1>7. ASSUME NEW k \in 1..Len(pairs)
      PROVE  map[k] = SeatNextPair(map[k - 1], pairs[k])
  <2>1. k \in 0..Len(pairs) /\ k # 0
    OBVIOUS
  <2> QED
    BY <1>4, <2>1
<1> QED
  BY <1>5, <1>6, <1>7
LEMMA GapsAreNumbers ==
  ASSUME NEW a \in Entries, NEW b \in Entries
  PROVE  Gap(a, b) \in Nat
<1>1. a.rating \in Nat /\ b.rating \in Nat
  BY DEF Entries
<1> QED
  BY <1>1 DEF Gap

\* Among the entries a may be paired with there is a first of the nearest.
LEMMA NearestExists ==
  ASSUME NEW q \in Seq(Entries), NEW a \in Entries,
         NEW found \in SUBSET DOMAIN q, found # {}
  PROVE  \E i \in found : \A j \in found :
           \/ Gap(a, q[i]) < Gap(a, q[j])
           \/ Gap(a, q[i]) = Gap(a, q[j]) /\ i <= j
<1> DEFINE gaps == {Gap(a, q[i]) : i \in found}
<1>1. \A i \in found : i \in Nat /\ q[i] \in Entries
  OBVIOUS
<1>2. \A i \in found : Gap(a, q[i]) \in Nat
  BY <1>1, GapsAreNumbers
<1>3. gaps \subseteq Nat /\ gaps # {}
  BY <1>2
<1>4. PICK m \in gaps : \A n \in gaps : m <= n
  <2> HIDE DEF gaps
  <2> QED
    BY <1>3, LeastNatural
<1> DEFINE nearest == {i \in found : Gap(a, q[i]) = m}
<1>5. nearest \subseteq Nat /\ nearest # {}
  BY <1>1, <1>4
<1>6. PICK i \in nearest : \A j \in nearest : i <= j
  <2> HIDE DEF nearest
  <2> QED
    BY <1>5, LeastNatural
<1>7. i \in found /\ Gap(a, q[i]) = m /\ m \in Nat
  BY <1>3, <1>4, <1>6
<1>8. ASSUME NEW j \in found
      PROVE  m < Gap(a, q[j]) \/ (m = Gap(a, q[j]) /\ i <= j)
  <2>1. m <= Gap(a, q[j]) /\ Gap(a, q[j]) \in Nat
    BY <1>2, <1>4
  <2>2. Gap(a, q[j]) = m => i <= j
    BY <1>6
  <2> QED
    BY <1>7, <2>1, <2>2
<1> QED
  BY <1>7, <1>8

\* Serving an entry leaves the list as it is, which means that the entry has
\* been taken or that nobody on the list is in its window, or takes it and
\* somebody else.
LEMMA ServeOutcomes ==
  ASSUME NEW acc, acc.left \in Seq(Entries), NEW a \in Entries
  PROVE  \/ /\ Serve(acc, a) = acc
            /\ a \in Range(acc.left) =>
                 \A e \in Range(acc.left) : e.user = a.user \/ ~Matches(a, e)
         \/ /\ a \in Range(acc.left)
            /\ \E b \in Range(acc.left) :
                 /\ b.user # a.user
                 /\ Serve(acc, a) = [left  |-> WithoutUsers(acc.left, {a.user, b.user}),
                                     pairs |-> Append(acc.pairs, <<a.user, b.user>>)]
<1> DEFINE found == {i \in DOMAIN acc.left : acc.left[i].user # a.user /\ Matches(a, acc.left[i])}
           First(i) == \A j \in found :
             \/ Gap(a, acc.left[i]) < Gap(a, acc.left[j])
             \/ Gap(a, acc.left[i]) = Gap(a, acc.left[j]) /\ i <= j
           best == CHOOSE i \in found : First(i)
           b    == acc.left[best]
<1>1. Serve(acc, a) = IF a \notin Range(acc.left) \/ found = {}
                      THEN acc
                      ELSE [left  |-> WithoutUsers(acc.left, {a.user, b.user}),
                            pairs |-> Append(acc.pairs, <<a.user, b.user>>)]
  BY Zenon DEF Serve
<1>2. CASE a \notin Range(acc.left)
  BY <1>1, <1>2
<1>3. CASE found = {}
  <2>1. \A e \in Range(acc.left) : e.user = a.user \/ ~Matches(a, e)
    BY <1>3 DEF Range
  <2>2. Serve(acc, a) = acc
    BY <1>1, <1>3
  <2> QED
    BY <2>1, <2>2
<1>4. CASE a \in Range(acc.left) /\ found # {}
  <2>1. found \in SUBSET DOMAIN acc.left
    OBVIOUS
  <2>2. \E i \in found : First(i)
    <3> HIDE DEF found
    <3> QED
      BY <1>4, <2>1, NearestExists
  <2>3. best \in found
    <3> HIDE DEF found, First
    <3> QED
      BY <2>2
  <2>4. b \in Range(acc.left) /\ b.user # a.user
    <3> HIDE DEF best
    <3> QED
      BY <2>3 DEF Range
  <2>5. Serve(acc, a) = [left  |-> WithoutUsers(acc.left, {a.user, b.user}),
                         pairs |-> Append(acc.pairs, <<a.user, b.user>>)]
    <3> HIDE DEF found, b
    <3> QED
      BY <1>1, <1>4
  <2> HIDE DEF b
  <2> QED
    BY <1>4, <2>4, <2>5
<1> HIDE DEF found
<1> QED
  BY <1>2, <1>3, <1>4

\* A part of a list with one entry per user has one per user.
LEMMA EmbeddedPlaces ==
  ASSUME NEW q, NEW r, NEW at, Embeds(at, r, q), OnePlaceEach(q),
         DOMAIN r = 1..Len(r), DOMAIN q = 1..Len(q), Len(r) \in Nat, Len(q) \in Nat
  PROVE  OnePlaceEach(r)
<1> SUFFICES ASSUME NEW k \in 1..Len(r), NEW l \in 1..Len(r), r[k].user = r[l].user
             PROVE  k = l
  BY DEF OnePlaceEach
<1>1. at \in [1..Len(r) -> 1..Len(q)] /\ r[k] = q[at[k]] /\ r[l] = q[at[l]]
  BY DEF Embeds
<1>2. at[k] = at[l]
  BY <1>1 DEF OnePlaceEach
<1>3. ~(k < l) /\ ~(l < k)
  BY <1>1, <1>2 DEF Embeds
<1> QED
  BY <1>3

\* Nobody is in the rating window of anybody else, whichever came first: more
\* than NobodyWaitsBesideAMatch says, and what removals and passes preserve.
NobodyMatches(q) == \A i, j \in DOMAIN q : i # j => ~Matches(q[i], q[j])

\* What leaving entries out preserves.
LEMMA PartOfQueue ==
  ASSUME NEW q \in Seq(Entries), NEW I \in SUBSET DOMAIN q
  PROVE  /\ Picked(q, I) \in Seq(Entries)
         /\ \A e \in Range(Picked(q, I)) : \E i \in I : e = q[i]
         /\ \A i \in I : q[i] \in Range(Picked(q, I))
         /\ OnePlaceEach(q) => OnePlaceEach(Picked(q, I))
         /\ NobodyMatches(q) => NobodyMatches(Picked(q, I))
<1> DEFINE r == Picked(q, I)
<1>1. /\ r \in Seq(Entries)
      /\ \E at : /\ Embeds(at, r, q)
                 /\ \A k \in 1..Len(r) : at[k] \in I
                 /\ \A i \in I : \E k \in 1..Len(r) : at[k] = i
  BY PickedEmbeds
<1> HIDE DEF r
<1>2. PICK at : /\ Embeds(at, r, q)
                /\ \A k \in 1..Len(r) : at[k] \in I
                /\ \A i \in I : \E k \in 1..Len(r) : at[k] = i
  BY <1>1
<1>3. /\ DOMAIN r = 1..Len(r) /\ Len(r) \in Nat
      /\ DOMAIN q = 1..Len(q) /\ Len(q) \in Nat
      /\ at \in [1..Len(r) -> 1..Len(q)]
      /\ \A k \in 1..Len(r) : r[k] = q[at[k]]
      /\ \A k, l \in 1..Len(r) : k < l => at[k] < at[l]
  BY <1>1, <1>2 DEF Embeds
<1>4. \A e \in Range(r) : \E i \in I : e = q[i]
  BY <1>2, <1>3 DEF Range
<1>5. \A i \in I : q[i] \in Range(r)
  BY <1>2, <1>3 DEF Range
<1>6. OnePlaceEach(q) => OnePlaceEach(r)
  BY <1>2, <1>3, EmbeddedPlaces
<1>7. ASSUME NobodyMatches(q)
      PROVE  NobodyMatches(r)
  <2> SUFFICES ASSUME NEW k \in 1..Len(r), NEW l \in 1..Len(r), k # l
               PROVE  ~Matches(r[k], r[l])
    BY <1>3 DEF NobodyMatches
  <2>1. at[k] # at[l]
    <3>1. k < l \/ l < k
      BY <1>3
    <3>2. at[k] \in Nat /\ at[l] \in Nat
      BY <1>3
    <3>3. at[k] < at[l] \/ at[l] < at[k]
      BY <1>3, <3>1
    <3> QED
      BY <3>2, <3>3
  <2>2. at[k] \in DOMAIN q /\ at[l] \in DOMAIN q
    BY <1>3
  <2>3. ~Matches(q[at[k]], q[at[l]])
    BY <1>7, <2>1, <2>2 DEF NobodyMatches
  <2> QED
    BY <1>3, <2>3
<1> QED
  BY <1>1, <1>4, <1>5, <1>6, <1>7 DEF r

\* Taking two users off a list of entries, one per user.
LEMMA WithoutUsersProperties ==
  ASSUME NEW q \in Seq(Entries), NEW us
  PROVE  /\ WithoutUsers(q, us) \in Seq(Entries)
         /\ Range(WithoutUsers(q, us)) = {e \in Range(q) : e.user \notin us}
         /\ OnePlaceEach(q) => OnePlaceEach(WithoutUsers(q, us))
<1> DEFINE I == {i \in DOMAIN q : q[i].user \notin us}
<1>1. /\ I \in SUBSET DOMAIN q
      /\ WithoutUsers(q, us) = Picked(q, I)
      /\ \A i \in DOMAIN q : i \in I <=> q[i].user \notin us
  BY DEF WithoutUsers
<1> HIDE DEF I
<1>2. /\ Picked(q, I) \in Seq(Entries)
      /\ \A e \in Range(Picked(q, I)) : \E i \in I : e = q[i]
      /\ \A i \in I : q[i] \in Range(Picked(q, I))
      /\ OnePlaceEach(q) => OnePlaceEach(Picked(q, I))
  BY <1>1, PartOfQueue
<1>3. Range(Picked(q, I)) = {e \in Range(q) : e.user \notin us}
  <2> DEFINE R == Range(Picked(q, I))
  <2>1. \A e \in R : e \in Range(q) /\ e.user \notin us
    BY <1>1, <1>2 DEF Range
  <2> HIDE DEF R
  <2>2. \A e \in Range(q) : e.user \notin us => e \in R
    BY <1>1, <1>2 DEF Range, R
  <2> QED
    BY <2>1, <2>2 DEF R
<1> QED
  BY <1>1, <1>2, <1>3

Of(pair) == {pair[1], pair[2]}

\* The first k entries of q have been looked at: those that are still on the
\* list have nobody on it in their window.
Looked(acc, q, k) ==
  /\ acc.left \in Seq(Entries)
  /\ OnePlaceEach(acc.left)
  /\ Range(acc.left) \subseteq Range(q)
  /\ \A p \in 1..k : q[p] \in Range(acc.left) =>
       \A e \in Range(acc.left) : e.user = q[p].user \/ ~Matches(q[p], e)

\* Whoever is off the list is in one pair, and whoever is on it in none.
Paired(acc, q) ==
  /\ acc.pairs \in Seq(Users \X Users)
  /\ \A i \in DOMAIN acc.pairs :
       /\ acc.pairs[i][1] # acc.pairs[i][2]
       /\ \A u \in Of(acc.pairs[i]) : \E e \in Range(q) : e.user = u
       /\ \A e \in Range(acc.left) : e.user \notin Of(acc.pairs[i])
  /\ \A i, j \in DOMAIN acc.pairs : i # j => Of(acc.pairs[i]) \cap Of(acc.pairs[j]) = {}
  /\ \A e \in Range(q) : e \in Range(acc.left) \/ \E i \in DOMAIN acc.pairs : e.user \in Of(acc.pairs[i])

LEMMA ServeLooks ==
  ASSUME NEW q \in Seq(Entries), NEW k \in 1..Len(q), NEW acc, Looked(acc, q, k - 1)
  PROVE  Looked(Serve(acc, q[k]), q, k)
<1> DEFINE a == q[k]
<1>1. acc.left \in Seq(Entries) /\ a \in Entries
  BY DEF Looked
<1>2. \A p \in 1..k : p = k \/ p \in 1..(k - 1)
  OBVIOUS
<1>3. CASE /\ Serve(acc, a) = acc
           /\ a \in Range(acc.left) =>
                \A e \in Range(acc.left) : e.user = a.user \/ ~Matches(a, e)
  <2> HIDE DEF a
  <2>1. \A p \in 1..k : q[p] \in Range(acc.left) =>
          \A e \in Range(acc.left) : e.user = q[p].user \/ ~Matches(q[p], e)
    BY <1>2, <1>3 DEF Looked, a
  <2> QED
    BY <1>3, <2>1 DEF Looked, a
<1>4. ASSUME NEW b \in Range(acc.left),
             Serve(acc, a) = [left  |-> WithoutUsers(acc.left, {a.user, b.user}),
                              pairs |-> Append(acc.pairs, <<a.user, b.user>>)]
      PROVE  Looked(Serve(acc, a), q, k)
  <2> DEFINE left == WithoutUsers(acc.left, {a.user, b.user})
  <2>1. Serve(acc, a).left = left
    BY <1>4
  <2>2. /\ left \in Seq(Entries)
        /\ Range(left) = {e \in Range(acc.left) : e.user \notin {a.user, b.user}}
        /\ OnePlaceEach(left)
    BY <1>1, WithoutUsersProperties DEF Looked
  <2> HIDE DEF left
  <2>3. a \notin Range(left)
    BY <2>2
  <2>4. \A p \in 1..k : q[p] \in Range(left) =>
          \A e \in Range(left) : e.user = q[p].user \/ ~Matches(q[p], e)
    <3> SUFFICES ASSUME NEW p \in 1..k, q[p] \in Range(left), NEW e \in Range(left)
                 PROVE  e.user = q[p].user \/ ~Matches(q[p], e)
      OBVIOUS
    <3>1. p \in 1..(k - 1)
      BY <1>2, <2>3
    <3> QED
      BY <2>2, <3>1 DEF Looked
  <2> QED
    BY <2>1, <2>2, <2>4 DEF Looked
<1> QED
  BY <1>1, <1>3, <1>4, ServeOutcomes

LEMMA ServePairs ==
  ASSUME NEW q \in Seq(Entries), NEW k \in 1..Len(q), NEW acc,
         Looked(acc, q, k - 1), Paired(acc, q)
  PROVE  Paired(Serve(acc, q[k]), q)
<1> DEFINE a == q[k]
<1>1. acc.left \in Seq(Entries) /\ a \in Entries /\ a \in Range(q)
  BY DEF Looked, Range
<1>2. CASE Serve(acc, a) = acc
  BY <1>2
<1>3. ASSUME NEW b \in Range(acc.left), a \in Range(acc.left), b.user # a.user,
             Serve(acc, a) = [left  |-> WithoutUsers(acc.left, {a.user, b.user}),
                              pairs |-> Append(acc.pairs, <<a.user, b.user>>)]
      PROVE  Paired(Serve(acc, a), q)
  <2> DEFINE left  == WithoutUsers(acc.left, {a.user, b.user})
             new   == <<a.user, b.user>>
             pairs == Append(acc.pairs, new)
             n     == Len(acc.pairs)
  <2>1. Serve(acc, a).left = left /\ Serve(acc, a).pairs = pairs
    BY <1>3
  <2>2. Range(left) = {e \in Range(acc.left) : e.user \notin {a.user, b.user}}
    BY <1>1, WithoutUsersProperties
  <2>3. b \in Range(q) /\ b \in Entries
    <3>1. b \in Range(q)
      BY <1>1, <1>3 DEF Looked
    <3>2. PICK i \in DOMAIN q : q[i] = b
      BY <3>1 DEF Range
    <3> QED
      BY <1>1, <3>1, <3>2
  <2>4. new \in Users \X Users /\ new[1] = a.user /\ new[2] = b.user /\ Of(new) = {a.user, b.user}
    BY <1>1, <2>3 DEF Entries, Of
  <2> HIDE DEF left, new
  <2>5. /\ pairs \in Seq(Users \X Users)
        /\ n \in Nat /\ DOMAIN acc.pairs = 1..n /\ DOMAIN pairs = 1..(n + 1)
        /\ pairs[n + 1] = new
        /\ \A i \in 1..n : pairs[i] = acc.pairs[i]
    BY <2>4 DEF Paired
  <2>6. \A i \in 1..(n + 1) : i = n + 1 \/ i \in 1..n
    BY <2>5
  <2> HIDE DEF pairs, n
  <2>7. \A i \in 1..n : a.user \notin Of(acc.pairs[i]) /\ b.user \notin Of(acc.pairs[i])
    BY <1>3, <2>5 DEF Paired
  <2>8. ASSUME NEW i \in 1..(n + 1)
        PROVE  /\ pairs[i][1] # pairs[i][2]
               /\ \A u \in Of(pairs[i]) : \E e \in Range(q) : e.user = u
               /\ \A e \in Range(left) : e.user \notin Of(pairs[i])
    <3>1. CASE i = n + 1
      BY <1>1, <1>3, <2>2, <2>3, <2>4, <2>5, <3>1
    <3>2. CASE i \in 1..n
      BY <2>2, <2>5, <3>2 DEF Paired
    <3> QED
      BY <2>6, <3>1, <3>2
  <2>9. ASSUME NEW i \in 1..(n + 1), NEW j \in 1..(n + 1), i # j
        PROVE  Of(pairs[i]) \cap Of(pairs[j]) = {}
    <3>1. CASE i \in 1..n /\ j \in 1..n
      BY <2>5, <2>9, <3>1 DEF Paired
    <3>2. CASE i = n + 1 /\ j \in 1..n
      BY <2>4, <2>5, <2>7, <3>2
    <3>3. CASE j = n + 1 /\ i \in 1..n
      BY <2>4, <2>5, <2>7, <3>3
    <3> QED
      BY <2>6, <2>9, <3>1, <3>2, <3>3
  <2>10. ASSUME NEW e \in Range(q), e \notin Range(left)
         PROVE  \E i \in 1..(n + 1) : e.user \in Of(pairs[i])
    <3>1. CASE e.user \in {a.user, b.user}
      BY <2>4, <2>5, <3>1
    <3>2. CASE e.user \notin {a.user, b.user}
      <4>1. e \notin Range(acc.left)
        BY <2>2, <2>10, <3>2
      <4>2. PICK i \in 1..n : e.user \in Of(acc.pairs[i])
        BY <2>5, <4>1 DEF Paired
      <4>3. i \in 1..(n + 1)
        BY <2>5
      <4> QED
        BY <2>5, <4>2, <4>3
    <3> QED
      BY <3>1, <3>2
  <2> QED
    BY <2>1, <2>5, <2>8, <2>9, <2>10 DEF Paired
<1> QED
  BY <1>1, <1>2, <1>3, ServeOutcomes

\* What a pass leaves and whom it pairs.
LEMMA PassResult ==
  ASSUME NEW q \in Seq(Entries), OnePlaceEach(q)
  PROVE  Looked(PairUp(q), q, Len(q)) /\ Paired(PairUp(q), q)
<1>1. Len(q) \in Nat /\ DOMAIN q = 1..Len(q)
  OBVIOUS
<1>2. PICK pass : /\ PairUp(q) = pass[Len(q)]
                  /\ pass[0] = [left |-> q, pairs |-> <<>>]
                  /\ \A k \in 1..Len(q) : pass[k] = Serve(pass[k - 1], q[k])
  BY <1>1, PairUpUnrolls
<1> DEFINE S == {k \in 0..Len(q) : Looked(pass[k], q, k) /\ Paired(pass[k], q)}
<1>3. 0 \in S
  <2>1. pass[0].left = q /\ pass[0].pairs = <<>>
    BY <1>2
  <2>2. Looked(pass[0], q, 0)
    BY <2>1 DEF Looked
  <2>3. Paired(pass[0], q)
    BY <2>1 DEF Paired
  <2> QED
    BY <1>1, <2>2, <2>3
<1>4. ASSUME NEW k \in 1..Len(q), k - 1 \in S
      PROVE  k \in S
  <2>1. pass[k] = Serve(pass[k - 1], q[k]) /\ k \in 0..Len(q)
    BY <1>2
  <2>2. Looked(pass[k - 1], q, k - 1) /\ Paired(pass[k - 1], q)
    BY <1>4
  <2> QED
    BY <2>1, <2>2, ServeLooks, ServePairs
<1>5. \A k \in 0..Len(q) : k \in S
  <2> HIDE DEF S
  <2> QED
    BY <1>1, <1>3, <1>4, BoundedInduction
<1> QED
  BY <1>1, <1>2, <1>5

\* The entries pair() looks at are those whose socket and user are free.
LEMMA AbleProperties ==
  ASSUME NEW q \in Seq(Entries)
  PROVE  /\ Able(q) \in Seq(Entries)
         /\ Range(Able(q)) = {e \in Range(q) : CanPlay(e)}
         /\ OnePlaceEach(q) => OnePlaceEach(Able(q))
<1> DEFINE I == {i \in DOMAIN q : CanPlay(q[i])}
<1>1. /\ I \in SUBSET DOMAIN q
      /\ Able(q) = Picked(q, I)
      /\ \A i \in DOMAIN q : i \in I <=> CanPlay(q[i])
  BY DEF Able
<1> HIDE DEF I
<1>2. /\ Picked(q, I) \in Seq(Entries)
      /\ \A e \in Range(Picked(q, I)) : \E i \in I : e = q[i]
      /\ \A i \in I : q[i] \in Range(Picked(q, I))
      /\ OnePlaceEach(q) => OnePlaceEach(Picked(q, I))
  BY <1>1, PartOfQueue
<1>3. Range(Picked(q, I)) = {e \in Range(q) : CanPlay(e)}
  <2> DEFINE R == Range(Picked(q, I))
  <2>1. \A e \in R : e \in Range(q) /\ CanPlay(e)
    BY <1>1, <1>2 DEF Range
  <2> HIDE DEF R
  <2>2. \A e \in Range(q) : CanPlay(e) => e \in R
    BY <1>1, <1>2 DEF Range, R
  <2> QED
    BY <2>1, <2>2 DEF R
<1> QED
  BY <1>1, <1>2, <1>3

(***************************************************************************)
(* The rooms a pass gives away.                                            *)
(***************************************************************************)
MapTypes(map) == map \in [Users -> RoomIds \cup {NoRoom}]

\* createRoom refuses a room that one of two users would make.
Refused(map, u, v) == \E w \in {u, v} : ~MayCreate(map, AddressOf[w])

LEMMA LiveRoomsFinite ==
  ASSUME NEW map
  PROVE  IsFiniteSet(LiveRooms(map))
<1> DEFINE S == {map[u] : u \in Users}
           f == [u \in Users |-> map[u]]
<1>1. IsFiniteSet(S)
  <2>1. f \in Surjection(Users, S)
    BY DEF Surjection
  <2> QED
    BY <2>1, PairRoomsAssumption, FS_Surjection
<1> QED
  BY <1>1, FS_Subset DEF LiveRooms

\* While there are fewer rooms than MaxRooms, an address has a number left.
LEMMA NewRoomHasANumber ==
  ASSUME NEW map, NEW at \in Addresses, Cardinality(LiveRooms(map)) < MaxRooms
  PROVE  /\ NewRoom(map, at) \in RoomIds
         /\ NewRoom(map, at) # NoRoom
<1> DEFINE L == LiveRooms(map)
           f == [n \in 1..MaxRooms |-> <<at, n>>]
<1>1. IsFiniteSet(L) /\ Cardinality(L) < MaxRooms /\ Cardinality(L) \in Nat /\ MaxRooms \in Nat
  BY LiveRoomsFinite, FS_CardinalityType, PairRoomsAssumption
<1> HIDE DEF L
<1>2. \E n \in 1..MaxRooms : <<at, n>> \notin L
  <2> SUFFICES ASSUME \A n \in 1..MaxRooms : <<at, n>> \in L
               PROVE  FALSE
    OBVIOUS
  <2>1. f \in Injection(1..MaxRooms, L)
    BY DEF Injection, IsInjective
  <2>2. Cardinality(1..MaxRooms) =< Cardinality(L)
    BY <1>1, <2>1, FS_Injection
  <2>3. Cardinality(1..MaxRooms) = MaxRooms
    BY <1>1, FS_Interval
  <2> QED
    BY <1>1, <2>2, <2>3
<1>3. PICK n \in 1..MaxRooms : NewRoom(map, at) = <<at, n>>
  BY <1>2 DEF NewRoom, L
<1> QED
  BY <1>3, PairRoomsAssumption DEF RoomIds, NoRoom

\* Seating two gives one room to both, unless it is refused or one of them has
\* one, and changes nobody else's.
LEMMA SeatPairProperties ==
  ASSUME NEW map, MapTypes(map), NEW at \in Addresses, NEW a \in Users, NEW b \in Users
  PROVE  /\ MapTypes(SeatPair(map, at, a, b))
         /\ \A u \in Users : map[u] # NoRoom => SeatPair(map, at, a, b)[u] = map[u]
         /\ \A u \in Users \ {a, b} : SeatPair(map, at, a, b)[u] = map[u]
         /\ map[a] = NoRoom /\ map[b] = NoRoom =>
              \/ ~MayCreate(SeatPair(map, at, a, b), at)
              \/ /\ SeatPair(map, at, a, b)[a] # NoRoom
                 /\ SeatPair(map, at, a, b)[a] = SeatPair(map, at, a, b)[b]
<1> DEFINE m == NewRoom(map, at)
<1>1. CASE Seatable(map, at, a, b)
  <2>1. m \in RoomIds /\ m # NoRoom
    BY <1>1, NewRoomHasANumber DEF Seatable, MayCreate
  <2> HIDE DEF m
  <2>2. SeatPair(map, at, a, b) = [u \in Users |-> IF u \in {a, b} THEN m ELSE map[u]]
    BY <1>1 DEF SeatPair, m
  <2> QED
    BY <1>1, <2>1, <2>2 DEF MapTypes, Seatable
<1>2. CASE ~Seatable(map, at, a, b)
  <2>1. SeatPair(map, at, a, b) = map
    BY <1>2 DEF SeatPair
  <2> QED
    BY <1>2, <2>1 DEF Seatable
<1> QED
  BY <1>1, <1>2

\* What is refused stays refused while nobody leaves a room.
LEMMA RefusedStaysRefused ==
  ASSUME NEW map, NEW next, \A u \in Users : map[u] # NoRoom => next[u] = map[u],
         NEW at, ~MayCreate(map, at)
  PROVE  ~MayCreate(next, at)
<1>1. LiveRooms(map) \subseteq LiveRooms(next)
  BY DEF LiveRooms
<1>2. RoomsOf(map, at) \subseteq RoomsOf(next, at) /\ RoomsOf(next, at) \subseteq LiveRooms(next)
  BY <1>1 DEF RoomsOf
<1>3. IsFiniteSet(LiveRooms(next)) /\ IsFiniteSet(RoomsOf(next, at))
  BY <1>2, LiveRoomsFinite, FS_Subset
<1>4. /\ Cardinality(LiveRooms(map)) =< Cardinality(LiveRooms(next))
      /\ Cardinality(RoomsOf(map, at)) =< Cardinality(RoomsOf(next, at))
      /\ Cardinality(LiveRooms(map)) \in Nat /\ Cardinality(LiveRooms(next)) \in Nat
      /\ Cardinality(RoomsOf(map, at)) \in Nat /\ Cardinality(RoomsOf(next, at)) \in Nat
  BY <1>1, <1>2, <1>3, FS_Subset, FS_CardinalityType
<1>5. MaxRooms \in Nat /\ MaxRoomsPerIp \in Nat
  BY PairRoomsAssumption
<1> QED
  BY <1>4, <1>5 DEF MayCreate

\* Pairs of users who are in no room, each user in one pair at most: after the
\* first k have been seated, each of them has a room of its own or is refused one.
Seated(map, pairs, k) ==
  /\ MapTypes(map)
  /\ \A u \in Users : roomOf[u] # NoRoom => map[u] = roomOf[u]
  /\ \A u \in Users : map[u] # roomOf[u] => \E i \in 1..k : u \in Of(pairs[i])
  /\ \A i \in 1..k :
       \/ ~MayCreate(map, AddressOf[pairs[i][1]])
       \/ map[pairs[i][1]] # NoRoom /\ map[pairs[i][1]] = map[pairs[i][2]]

Apart(pairs) ==
  /\ pairs \in Seq(Users \X Users)
  /\ \A i \in DOMAIN pairs : pairs[i][1] # pairs[i][2] /\ \A u \in Of(pairs[i]) : roomOf[u] = NoRoom
  /\ \A i, j \in DOMAIN pairs : i # j => Of(pairs[i]) \cap Of(pairs[j]) = {}

LEMMA SeatNext ==
  ASSUME NEW pairs, Apart(pairs), NEW k \in 1..Len(pairs), NEW map, Seated(map, pairs, k - 1)
  PROVE  Seated(SeatNextPair(map, pairs[k]), pairs, k)
<1> DEFINE a    == pairs[k][1]
           b    == pairs[k][2]
           at   == AddressOf[a]
           next == SeatPair(map, at, a, b)
<1>1. /\ DOMAIN pairs = 1..Len(pairs) /\ Len(pairs) \in Nat
      /\ \A i \in 1..Len(pairs) : pairs[i][1] \in Users /\ pairs[i][2] \in Users
  BY DEF Apart
<1>2. a \in Users /\ b \in Users /\ Of(pairs[k]) = {a, b} /\ MapTypes(map)
  BY <1>1 DEF Of, Seated
<1>3. /\ MapTypes(next)
      /\ \A u \in Users : map[u] # NoRoom => next[u] = map[u]
      /\ \A u \in Users \ {a, b} : next[u] = map[u]
      /\ map[a] = NoRoom /\ map[b] = NoRoom =>
           \/ ~MayCreate(next, at)
           \/ next[a] # NoRoom /\ next[a] = next[b]
  <2>1. at \in Addresses
    BY <1>2, PairRoomsAssumption
  <2> HIDE DEF a, b, at
  <2> QED
    BY <1>2, <2>1, SeatPairProperties
<1>10. next = SeatNextPair(map, pairs[k])
  BY DEF SeatNextPair
<1> HIDE DEF next
<1>4. \A i \in 1..(k - 1) : i \in 1..Len(pairs) /\ i \in 1..k /\ i # k
  OBVIOUS
<1>5. map[a] = NoRoom /\ map[b] = NoRoom
  <2>1. \A u \in {a, b} : roomOf[u] = NoRoom /\ \A i \in 1..(k - 1) : u \notin Of(pairs[i])
    BY <1>1, <1>2, <1>4 DEF Apart
  <2> HIDE DEF a, b
  <2> QED
    BY <1>2, <2>1 DEF Seated
<1>6. k \in 1..k /\ \A i \in 1..k : i = k \/ i \in 1..(k - 1)
  OBVIOUS
<1>7. \A u \in Users : roomOf[u] # NoRoom => next[u] = roomOf[u]
  BY <1>3 DEF Seated
<1>8. ASSUME NEW u \in Users, next[u] # roomOf[u]
      PROVE  \E i \in 1..k : u \in Of(pairs[i])
  <2>1. CASE u \in {a, b}
    BY <1>2, <1>6, <2>1
  <2>2. CASE u \notin {a, b}
    <3>1. map[u] # roomOf[u]
      BY <1>3, <1>8, <2>2
    <3>2. PICK i \in 1..(k - 1) : u \in Of(pairs[i])
      BY <3>1 DEF Seated
    <3> QED
      BY <1>4, <3>2
  <2> QED
    BY <2>1, <2>2
<1>9. ASSUME NEW i \in 1..k
      PROVE  \/ ~MayCreate(next, AddressOf[pairs[i][1]])
             \/ next[pairs[i][1]] # NoRoom /\ next[pairs[i][1]] = next[pairs[i][2]]
  <2>1. CASE i = k
    BY <1>3, <1>5, <2>1
  <2>2. CASE i \in 1..(k - 1)
    <3>1. CASE ~MayCreate(map, AddressOf[pairs[i][1]])
      BY <1>3, <3>1, RefusedStaysRefused
    <3>2. CASE MayCreate(map, AddressOf[pairs[i][1]])
      <4>1. map[pairs[i][1]] # NoRoom /\ map[pairs[i][1]] = map[pairs[i][2]]
        BY <2>2, <3>2 DEF Seated
      <4>2. next[pairs[i][1]] = map[pairs[i][1]] /\ next[pairs[i][2]] = map[pairs[i][2]]
        BY <1>1, <1>3, <1>4, <2>2, <4>1
      <4> QED
        BY <4>1, <4>2
    <3> QED
      BY <3>1, <3>2
  <2> QED
    BY <1>6, <2>1, <2>2
<1>11. Seated(next, pairs, k)
  BY <1>3, <1>7, <1>8, <1>9 DEF Seated
<1> QED
  BY <1>10, <1>11

LEMMA SeatAllSeats ==
  ASSUME MapTypes(roomOf), NEW pairs, Apart(pairs)
  PROVE  Seated(SeatAll(pairs), pairs, Len(pairs))
<1>1. Len(pairs) \in Nat
  BY DEF Apart
<1>2. PICK map : /\ SeatAll(pairs) = map[Len(pairs)]
                 /\ map[0] = roomOf
                 /\ \A k \in 1..Len(pairs) :
                      map[k] = SeatNextPair(map[k - 1], pairs[k])
  BY <1>1, SeatAllUnrolls
<1> DEFINE S == {k \in 0..Len(pairs) : Seated(map[k], pairs, k)}
<1>3. 0 \in S
  BY <1>1, <1>2 DEF Seated
<1>4. ASSUME NEW k \in 1..Len(pairs), k - 1 \in S
      PROVE  k \in S
  <2>1. Seated(map[k - 1], pairs, k - 1) /\ k \in 0..Len(pairs)
    BY <1>4
  <2> QED
    BY <1>2, <2>1, SeatNext
<1>5. \A k \in 0..Len(pairs) : k \in S
  <2> HIDE DEF S
  <2> QED
    BY <1>1, <1>3, <1>4, BoundedInduction
<1> QED
  BY <1>1, <1>2, <1>5

(***************************************************************************)
(* The queue between the steps.                                            *)
(***************************************************************************)

\* An entry was made by the socket its user has.
PlacesAreLive(q) == \A i \in DOMAIN q : q[i].socket = sock[q[i].user]

LobbyTypes ==
  /\ sock \in [Users -> SocketIds \cup {None}]
  /\ MapTypes(roomOf)
  /\ queue \in Seq(Entries)

QueueInv ==
  /\ LobbyTypes
  /\ OnePlaceEach(queue)
  /\ PlacesAreLive(queue)
  /\ NobodyMatches(queue)

\* A pass over q: who is left, and what became of the others.  Somebody who
\* could play is off the list only with a partner who could, and who is off it.
LEMMA TickResult ==
  ASSUME NEW q \in Seq(Entries), OnePlaceEach(q), MapTypes(roomOf), Tick(q)
  PROVE  /\ queue' \in Seq(Entries)
         /\ OnePlaceEach(queue')
         /\ Range(queue') \subseteq Range(q)
         /\ NobodyMatches(queue')
         /\ MapTypes(roomOf')
         /\ sock' = sock
         /\ \A e \in Range(q) :
              \/ e \in Range(queue')
              \/ ~CanPlay(e)
              \/ \E f \in Range(q) :
                   /\ f.user # e.user
                   /\ CanPlay(f)
                   /\ \A g \in Range(queue') : g.user # f.user
                   /\ \/ Refused(roomOf', e.user, f.user)
                      \/ roomOf'[e.user] # NoRoom /\ roomOf'[e.user] = roomOf'[f.user]
<1> DEFINE able  == Able(q)
           pass  == PairUp(able)
<1>1. /\ queue' = pass.left
      /\ roomOf' = SeatAll(pass.pairs)
      /\ sock' = sock
  BY DEF Tick
<1>2. /\ able \in Seq(Entries)
      /\ Range(able) = {e \in Range(q) : CanPlay(e)}
      /\ OnePlaceEach(able)
  BY AbleProperties
<1> HIDE DEF able
<1>3. Looked(pass, able, Len(able)) /\ Paired(pass, able)
  BY <1>2, PassResult
<1> HIDE DEF pass
<1> DEFINE pairs == pass.pairs
           left  == pass.left
<1>4. DOMAIN able = 1..Len(able) /\ DOMAIN pairs = 1..Len(pairs) /\ DOMAIN left = 1..Len(left)
  BY <1>2, <1>3 DEF Looked, Paired
<1>5. /\ left \in Seq(Entries)
      /\ OnePlaceEach(left)
      /\ Range(left) \subseteq Range(able)
  BY <1>3 DEF Looked
<1>6. NobodyMatches(left)
  <2> SUFFICES ASSUME NEW i \in DOMAIN left, NEW j \in DOMAIN left, i # j
               PROVE  ~Matches(left[i], left[j])
    BY DEF NobodyMatches
  <2> HIDE DEF left
  <2>1. left[i] \in Range(left) /\ left[j] \in Range(left)
    BY DEF Range
  <2>2. PICK p \in 1..Len(able) : left[i] = able[p]
    BY <1>4, <1>5, <2>1 DEF Range
  <2>3. left[j].user # left[i].user
    BY <1>5 DEF OnePlaceEach
  <2> QED
    BY <1>3, <2>1, <2>2, <2>3 DEF Looked, left
<1>7. Apart(pairs)
  <2>1. ASSUME NEW i \in DOMAIN pairs, NEW u \in Of(pairs[i])
        PROVE  roomOf[u] = NoRoom
    <3>1. PICK e \in Range(able) : e.user = u
      BY <1>3, <2>1 DEF Paired
    <3> QED
      BY <1>2, <3>1 DEF CanPlay, Roomless
  <2> QED
    BY <1>3, <2>1 DEF Paired, Apart
<1>8. Seated(roomOf', pairs, Len(pairs))
  BY <1>1, <1>7, SeatAllSeats
<1>9. ASSUME NEW e \in Range(q), CanPlay(e), e \notin Range(left)
      PROVE  \E f \in Range(q) :
               /\ f.user # e.user
               /\ CanPlay(f)
               /\ \A g \in Range(left) : g.user # f.user
               /\ \/ Refused(roomOf', e.user, f.user)
                  \/ roomOf'[e.user] # NoRoom /\ roomOf'[e.user] = roomOf'[f.user]
  <2>1. e \in Range(able)
    BY <1>2, <1>9
  <2>2. PICK i \in DOMAIN pairs : e.user \in Of(pairs[i])
    BY <1>3, <1>9, <2>1 DEF Paired
  <2>3. PICK v \in Of(pairs[i]) : v # e.user /\ Of(pairs[i]) = {v, e.user}
    BY <1>3, <2>2 DEF Paired, Of
  <2>4. PICK f \in Range(able) : f.user = v
    BY <1>3, <2>3 DEF Paired
  <2>5. f \in Range(q) /\ CanPlay(f)
    BY <1>2, <2>4
  <2>6. \A g \in Range(left) : g.user # v
    BY <1>3, <2>3 DEF Paired
  <2>7. \/ ~MayCreate(roomOf', AddressOf[pairs[i][1]])
        \/ roomOf'[pairs[i][1]] # NoRoom /\ roomOf'[pairs[i][1]] = roomOf'[pairs[i][2]]
    BY <1>4, <1>8 DEF Seated
  <2>8. \/ pairs[i][1] = v /\ pairs[i][2] = e.user
        \/ pairs[i][2] = v /\ pairs[i][1] = e.user
    BY <2>2, <2>3 DEF Of
  <2> QED
    BY <2>3, <2>4, <2>5, <2>6, <2>7, <2>8 DEF Refused
<1>10. MapTypes(roomOf')
  BY <1>8 DEF Seated
<1>11. Range(left) \subseteq Range(q)
  BY <1>2, <1>5
<1> HIDE DEF left
<1>12. queue' = left
  BY <1>1 DEF left
<1> QED
  BY <1>1, <1>5, <1>6, <1>9, <1>10, <1>11, <1>12

\* The lists a pass may start from: everybody older by a tick, or somebody put
\* last, with a new entry for the old one.
Aged == [i \in DOMAIN queue |-> Older(queue[i])]
Joined(u, chip) == Append(WithoutUsers(queue, {u}), Entry(u, chip))

LEMMA OlderProperties ==
  ASSUME NEW e \in Entries
  PROVE  Older(e) \in Entries /\ Older(e).user = e.user /\ Older(e).socket = e.socket
<1> DEFINE ages == {e.age + 1, WindowOpen}
           m    == Min(ages)
<1>1. e.age \in Nat /\ WindowOpen \in Nat /\ e.age + 1 \in Nat
  BY MatchmakingAssumption DEF Entries
<1>2. ages \subseteq Nat /\ ages # {} /\ WindowOpen \in ages
  BY <1>1
<1> HIDE DEF ages
<1>3. \E x \in ages : \A y \in ages : x =< y
  BY <1>2, LeastNatural
<1>4. m \in ages /\ \A y \in ages : m =< y
  BY <1>3 DEF Min
<1>5. Older(e) = e \/ Older(e) = [e EXCEPT !.age = m]
  BY DEF Older, ages
<1> HIDE DEF m
<1>6. m \in 0..WindowOpen
  <2>1. m \in Nat /\ m =< WindowOpen
    BY <1>2, <1>4
  <2> QED
    BY <1>1, <2>1
<1> QED
  BY <1>5, <1>6 DEF Entries

LEMMA AgedProperties ==
  ASSUME LobbyTypes, OnePlaceEach(queue), PlacesAreLive(queue)
  PROVE  /\ Aged \in Seq(Entries)
         /\ OnePlaceEach(Aged)
         /\ PlacesAreLive(Aged)
         /\ \A e \in Range(queue) : \E f \in Range(Aged) : f.user = e.user
         /\ \A f \in Range(Aged) : \E e \in Range(queue) : f.user = e.user
<1>1. queue \in Seq(Entries) /\ DOMAIN queue = 1..Len(queue) /\ Len(queue) \in Nat
  BY DEF LobbyTypes
<1>2. \A i \in 1..Len(queue) :
        /\ Older(queue[i]) \in Entries
        /\ Older(queue[i]).user = queue[i].user
        /\ Older(queue[i]).socket = queue[i].socket
  BY <1>1, OlderProperties
<1>3. Aged \in [1..Len(queue) -> Entries]
  BY <1>1, <1>2 DEF Aged
<1>4. Aged \in Seq(Entries)
  BY <1>1, <1>3
<1>5. /\ DOMAIN Aged = 1..Len(queue)
      /\ \A i \in 1..Len(queue) : Aged[i].user = queue[i].user /\ Aged[i].socket = queue[i].socket
  BY <1>1, <1>2 DEF Aged
<1> QED
  BY <1>1, <1>4, <1>5 DEF OnePlaceEach, PlacesAreLive, Range

LEMMA JoinedProperties ==
  ASSUME LobbyTypes, OnePlaceEach(queue), PlacesAreLive(queue),
         NEW u \in Users, NEW chip \in Chips, sock[u] # None
  PROVE  /\ Joined(u, chip) \in Seq(Entries)
         /\ OnePlaceEach(Joined(u, chip))
         /\ PlacesAreLive(Joined(u, chip))
         /\ \A e \in Range(queue) : \E f \in Range(Joined(u, chip)) : f.user = e.user
         /\ \A f \in Range(Joined(u, chip)) : f.user = u \/ \E e \in Range(queue) : f.user = e.user
<1> DEFINE rest == WithoutUsers(queue, {u})
           new  == Entry(u, chip)
           q    == Joined(u, chip)
           n    == Len(rest)
<1>1. /\ rest \in Seq(Entries)
      /\ Range(rest) = {e \in Range(queue) : e.user \notin {u}}
      /\ OnePlaceEach(rest)
  BY WithoutUsersProperties DEF LobbyTypes
<1>2. new \in Entries /\ new.user = u /\ new.socket = sock[u]
  BY MatchmakingAssumption DEF LobbyTypes, Entry, Entries
<1> HIDE DEF rest, new
<1>3. /\ q \in Seq(Entries)
      /\ n \in Nat /\ DOMAIN rest = 1..n /\ DOMAIN q = 1..(n + 1)
      /\ q[n + 1] = new
      /\ \A i \in 1..n : q[i] = rest[i]
  BY <1>1, <1>2 DEF Joined, rest, new
<1>4. \A i \in 1..(n + 1) : i = n + 1 \/ i \in 1..n
  BY <1>3
<1> HIDE DEF q, n
<1>5. \A i \in 1..n : rest[i] \in Range(queue) /\ rest[i].user # u
  BY <1>1, <1>3 DEF Range
<1>6. OnePlaceEach(q)
  BY <1>1, <1>2, <1>3, <1>4, <1>5 DEF OnePlaceEach
<1>7. PlacesAreLive(q)
  <2>1. \A i \in 1..n : rest[i].socket = sock[rest[i].user]
    BY <1>5 DEF PlacesAreLive, Range
  <2> QED
    BY <1>2, <1>3, <1>4, <2>1 DEF PlacesAreLive
<1>8. ASSUME NEW e \in Range(queue)
      PROVE  \E f \in Range(q) : f.user = e.user
  <2>1. CASE e.user = u
    <3>1. new \in Range(q)
      <4>1. n + 1 \in DOMAIN q
        BY <1>3
      <4> QED
        BY <1>3, <4>1 DEF Range
    <3> QED
      BY <1>2, <2>1, <3>1
  <2>2. CASE e.user # u
    <3>1. PICK i \in 1..n : rest[i] = e
      BY <1>1, <1>3, <2>2 DEF Range
    <3>2. i \in DOMAIN q
      BY <1>3
    <3> QED
      BY <1>3, <3>1, <3>2 DEF Range
  <2> QED
    BY <2>1, <2>2
<1>9. \A f \in Range(q) : f.user = u \/ \E e \in Range(queue) : f.user = e.user
  BY <1>2, <1>3, <1>4, <1>5 DEF Range
<1> QED
  BY <1>3, <1>6, <1>7, <1>8, <1>9 DEF q

LEMMA TickKeepsQueue ==
  ASSUME LobbyTypes, NEW q \in Seq(Entries), OnePlaceEach(q), PlacesAreLive(q), Tick(q)
  PROVE  QueueInv'
<1>1. /\ queue' \in Seq(Entries)
      /\ OnePlaceEach(queue')
      /\ Range(queue') \subseteq Range(q)
      /\ NobodyMatches(queue')
      /\ MapTypes(roomOf')
      /\ sock' = sock
  BY TickResult DEF LobbyTypes
<1>2. \A i \in DOMAIN queue' : queue'[i].socket = sock[queue'[i].user]
  <2> SUFFICES ASSUME NEW i \in DOMAIN queue' PROVE queue'[i].socket = sock[queue'[i].user]
    OBVIOUS
  <2>1. queue'[i] \in Range(q)
    BY <1>1 DEF Range
  <2> QED
    BY <2>1 DEF PlacesAreLive, Range
<1>3. LobbyTypes'
  BY <1>1 DEF LobbyTypes, MapTypes
<1>4. OnePlaceEach(queue)' /\ NobodyMatches(queue)'
  BY <1>1 DEF OnePlaceEach, NobodyMatches, Matches, Compatible, Gap
<1>5. PlacesAreLive(queue)'
  BY <1>1, <1>2 DEF PlacesAreLive
<1> QED
  BY <1>3, <1>4, <1>5 DEF QueueInv

\* A queue that loses entries while the connections of the others stay.
LEMMA RemovalKeepsQueue ==
  ASSUME QueueInv, NEW I \in SUBSET DOMAIN queue, queue' = Picked(queue, I),
         sock' \in [Users -> SocketIds \cup {None}], MapTypes(roomOf'),
         \A i \in I : sock'[queue[i].user] = sock[queue[i].user]
  PROVE  QueueInv'
<1>1. /\ queue' \in Seq(Entries)
      /\ \A e \in Range(queue') : \E i \in I : e = queue[i]
      /\ OnePlaceEach(queue')
      /\ NobodyMatches(queue')
  BY PartOfQueue DEF QueueInv, LobbyTypes
<1>2. \A i \in DOMAIN queue' : queue'[i].socket = sock'[queue'[i].user]
  <2> SUFFICES ASSUME NEW k \in DOMAIN queue' PROVE queue'[k].socket = sock'[queue'[k].user]
    OBVIOUS
  <2>1. PICK i \in I : queue'[k] = queue[i]
    BY <1>1 DEF Range
  <2>2. queue[i].socket = sock[queue[i].user]
    BY DEF QueueInv, PlacesAreLive
  <2> QED
    BY <2>1, <2>2
<1>3. LobbyTypes'
  BY <1>1 DEF LobbyTypes, MapTypes
<1>4. OnePlaceEach(queue)' /\ NobodyMatches(queue)'
  BY <1>1 DEF OnePlaceEach, NobodyMatches, Matches, Compatible, Gap
<1>5. PlacesAreLive(queue)'
  BY <1>2 DEF PlacesAreLive
<1> QED
  BY <1>3, <1>4, <1>5 DEF QueueInv

\* There is a socket for a user who connects again: nothing in the queue holds
\* on to another one than the one before it.
LEMMA NewSocketIsNew ==
  ASSUME QueueInv, NEW u \in Users
  PROVE  NewSocket(u) \in SocketIds /\ NewSocket(u) # sock[u]
<1> DEFINE free == {s \in SocketIds \ {sock[u]} :
                      \A i \in DOMAIN queue : queue[i].user = u => queue[i].socket # s}
<1>1. free = SocketIds \ {sock[u]}
  BY DEF QueueInv, PlacesAreLive
<1>2. free # {}
  <2> SUFFICES ASSUME SocketIds \subseteq {sock[u]} PROVE FALSE
    BY <1>1
  <2>1. SocketIds = {} \/ SocketIds = {sock[u]}
    OBVIOUS
  <2>2. Cardinality(SocketIds) \in {0, 1}
    BY <2>1, FS_EmptySet, FS_Singleton
  <2> QED
    BY <2>2, PairRoomsAssumption
<1>3. free \subseteq Nat
  BY PairRoomsAssumption
<1>4. NewSocket(u) = Min(free)
  BY DEF NewSocket
<1> HIDE DEF free
<1>5. \E m \in free : \A n \in free : m =< n
  BY <1>2, <1>3, LeastNatural
<1>6. Min(free) \in free
  BY <1>5 DEF Min
<1> QED
  BY <1>1, <1>4, <1>6

LEMMA NextKeepsQueue == QueueInv /\ OfferInv /\ [Next]_vars => QueueInv'
<1> SUFFICES ASSUME QueueInv, OfferInv, [Next]_vars PROVE QueueInv'
  OBVIOUS
<1> USE DEF QueueInv
<1>1. CASE UNCHANGED <<lobbyVars, queueVars>>
  BY <1>1 DEF lobbyVars, queueVars, LobbyTypes, MapTypes, OnePlaceEach, PlacesAreLive,
              NobodyMatches, Matches, Compatible, Gap
<1>2. CASE Ticker
  <2>1. Tick(Aged)
    BY <1>2 DEF Ticker, Aged
  <2> QED
    BY <2>1, AgedProperties, TickKeepsQueue
<1>3. ASSUME NEW u \in Users, LeaveQueue(u)
      PROVE  QueueInv'
  <2> DEFINE I == {i \in DOMAIN queue : queue[i].user \notin {u}}
  <2>1. queue' = Picked(queue, I) /\ UNCHANGED <<sock, roomOf>>
    BY <1>3 DEF LeaveQueue, WithoutUsers, lobbyVars
  <2>2. I \in SUBSET DOMAIN queue
    OBVIOUS
  <2> HIDE DEF I
  <2> QED
    BY <2>1, <2>2, RemovalKeepsQueue DEF LobbyTypes
<1>4. ASSUME NEW u \in Users, NEW chip \in Chips, JoinQueue(u, chip)
      PROVE  QueueInv'
  <2>1. sock[u] # None /\ Tick(Joined(u, chip))
    BY <1>4 DEF JoinQueue, Joined
  <2> QED
    BY <2>1, JoinedProperties, TickKeepsQueue
<1>5. CASE OfferStep /\ UNCHANGED queueVars
  <2>1. queue' = queue /\ sock' = sock
    BY <1>5 DEF OfferStep, Send, Accept, Close, Expire, lobbyVars, queueVars
  <2>2. MapTypes(roomOf')
    <3>1. ASSUME NEW c \in offers, Accept(c)
          PROVE  MapTypes(roomOf')
      <4> DEFINE r == NewRoom(roomOf, AddressOf[c.to])
      <4>1. roomOf' = [v \in Users |-> IF v \in {c.from, c.to} THEN r ELSE roomOf[v]]
        BY <3>1 DEF Accept, SeatPair
      <4>2. AddressOf[c.to] \in Addresses
        BY PairRoomsAssumption DEF OfferInv, OffersAreToUsers
      <4>3. r \in RoomIds
        BY <3>1, <4>2, NewRoomHasANumber DEF Accept, Seatable, MayCreate
      <4> QED
        BY <4>1, <4>3 DEF LobbyTypes, MapTypes
    <3>2. CASE roomOf' = roomOf
      BY <3>2 DEF LobbyTypes, MapTypes
    <3> QED
      BY <1>5, <3>1, <3>2 DEF OfferStep, Send, Close, Expire, lobbyVars
  <2> QED
    BY <2>1, <2>2 DEF LobbyTypes, OnePlaceEach, PlacesAreLive, NobodyMatches, Matches, Compatible, Gap
<1>6. CASE RoomStep /\ UNCHANGED queueVars
  <2>1. queue' = queue /\ sock' = sock
    BY <1>6 DEF RoomStep, CreateRoom, JoinRoom, LeaveRoom, queueVars
  <2>2. PICK u \in Users, r \in RoomIds \cup {NoRoom} : roomOf' = [roomOf EXCEPT ![u] = r]
    <3>1. ASSUME NEW u \in Users, CreateRoom(u)
          PROVE  NewRoom(roomOf, AddressOf[u]) \in RoomIds
      BY <3>1, NewRoomHasANumber, PairRoomsAssumption DEF CreateRoom
    <3>2. LiveRooms(roomOf) \subseteq RoomIds
      BY DEF LiveRooms, LobbyTypes, MapTypes
    <3> QED
      BY <1>6, <3>1, <3>2 DEF RoomStep, CreateRoom, JoinRoom, LeaveRoom
  <2>3. MapTypes(roomOf')
    BY <2>2 DEF LobbyTypes, MapTypes
  <2> QED
    BY <2>1, <2>3 DEF LobbyTypes, OnePlaceEach, PlacesAreLive, NobodyMatches, Matches, Compatible, Gap
<1>7. ASSUME NEW u \in Users, Connect(u) \/ Disconnect(u)
      PROVE  QueueInv'
  <2> DEFINE I == {i \in DOMAIN queue : ~(queue[i].user = u /\ queue[i].socket = sock[u])}
  <2>1. queue' = Picked(queue, I) /\ roomOf' = roomOf
    BY <1>7 DEF Connect, Disconnect, DropEntry
  <2>2. PICK s \in SocketIds \cup {None} : sock' = [sock EXCEPT ![u] = s]
    BY <1>7, NewSocketIsNew DEF Connect, Disconnect
  <2>3. sock' \in [Users -> SocketIds \cup {None}] /\ MapTypes(roomOf')
    BY <2>1, <2>2 DEF LobbyTypes
  <2>4. I \in SUBSET DOMAIN queue
    OBVIOUS
  <2>5. \A i \in I : sock'[queue[i].user] = sock[queue[i].user]
    <3> SUFFICES ASSUME NEW i \in I PROVE sock'[queue[i].user] = sock[queue[i].user]
      OBVIOUS
    <3>1. queue[i].user # u
      BY DEF PlacesAreLive
    <3>2. queue[i].user \in Users
      <4>1. i \in DOMAIN queue /\ queue \in Seq(Entries)
        BY DEF LobbyTypes
      <4>2. queue[i] \in Entries
        BY <4>1
      <4> QED
        BY <4>2 DEF Entries
    <3> QED
      BY <2>2, <3>1, <3>2 DEF LobbyTypes
  <2> HIDE DEF I
  <2> QED
    BY <2>1, <2>3, <2>4, <2>5, RemovalKeepsQueue
<1> QED
  BY <1>1, <1>2, <1>3, <1>4, <1>5, <1>6, <1>7 DEF Next, QueueStep, vars

THEOREM QueueInvariance == Spec => []QueueInv
<1>1. Init => QueueInv
  BY DEF Init, QueueInv, LobbyTypes, MapTypes, OnePlaceEach, PlacesAreLive, NobodyMatches
<1> QED
  BY <1>1, NextKeepsQueue, OfferInvariance, PTL DEF Spec

\* Whoever arrives, leaves, is vetoed or is seated: after any number of passes
\* over a queue of any length nobody is left waiting beside somebody their
\* rating window covers.
THEOREM NobodyWaitsCorrect == Spec => []NobodyWaitsBesideAMatch
<1>1. QueueInv => NobodyWaitsBesideAMatch
  <2> SUFFICES ASSUME QueueInv, NEW i \in DOMAIN queue, NEW j \in DOMAIN queue, i < j
               PROVE  ~Matches(queue[i], queue[j])
    BY DEF NobodyWaitsBesideAMatch
  <2>1. i # j
    <3>1. i \in Nat
      BY DEF QueueInv, LobbyTypes
    <3> QED
      BY <3>1
  <2> QED
    BY <2>1 DEF QueueInv, NobodyMatches
<1> QED
  BY <1>1, QueueInvariance, PTL

(***************************************************************************)
(* What a place in the queue is lost for.                                  *)
(***************************************************************************)
LostForARoom(u) ==
  \/ ~Roomless(u)
  \/ roomOf'[u] # NoRoom /\ \E v \in Users \ {u} : roomOf'[v] = roomOf'[u]
  \/ \E v \in Users \ {u} :
       /\ ~Queued(v)' /\ Roomless(v) /\ (Queued(v) \/ \E chip \in Chips : JoinQueue(v, chip))
       /\ Refused(roomOf', u, v)

\* A pass over a list with the user on it.
LEMMA TickLosses ==
  ASSUME LobbyTypes, NEW q \in Seq(Entries), OnePlaceEach(q), PlacesAreLive(q), Tick(q),
         \A f \in Range(q) :
           \/ \E e \in Range(queue) : f.user = e.user
           \/ \E chip \in Chips : JoinQueue(f.user, chip),
         NEW e \in Range(q), Dropped(e.user)
  PROVE  LostForARoom(e.user)
<1>1. \A f \in Range(q) : f \in Entries /\ f.user \in Users /\ f.socket = sock[f.user]
  <2> SUFFICES ASSUME NEW i \in DOMAIN q
               PROVE  q[i] \in Entries /\ q[i].user \in Users /\ q[i].socket = sock[q[i].user]
    BY DEF Range
  <2>1. q[i] \in Entries
    OBVIOUS
  <2> QED
    BY <2>1 DEF PlacesAreLive, Entries
<1>2. e \notin Range(queue')
  BY DEF Dropped, Queued, Range
<1>3. CASE ~CanPlay(e)
  BY <1>1, <1>3 DEF CanPlay, LostForARoom
<1>4. CASE CanPlay(e)
  <2>1. PICK f \in Range(q) :
          /\ f.user # e.user
          /\ CanPlay(f)
          /\ \A g \in Range(queue') : g.user # f.user
          /\ \/ Refused(roomOf', e.user, f.user)
             \/ roomOf'[e.user] # NoRoom /\ roomOf'[e.user] = roomOf'[f.user]
    BY <1>2, <1>4, TickResult DEF LobbyTypes
  <2>2. ~Queued(f.user)'
    BY <2>1 DEF Queued, Range
  <2>3. Queued(f.user) \/ \E chip \in Chips : JoinQueue(f.user, chip)
    BY DEF Queued, Range
  <2> QED
    BY <1>1, <2>1, <2>2, <2>3 DEF LostForARoom, CanPlay
<1> QED
  BY <1>3, <1>4

LEMMA StepLosses ==
  ASSUME QueueInv, [Next]_vars, NEW u \in Users, Dropped(u)
  PROVE  LostForARoom(u) \/ sock'[u] # sock[u] \/ LeaveQueue(u)
<1> USE DEF QueueInv
<1>1. CASE queue' = queue
  BY <1>1 DEF Dropped, Queued
<1>2. PICK e \in Range(queue) : e.user = u
  BY DEF Dropped, Queued, Range
<1>3. CASE Ticker
  <2>1. Tick(Aged)
    BY <1>3 DEF Ticker, Aged
  <2>2. /\ Aged \in Seq(Entries) /\ OnePlaceEach(Aged) /\ PlacesAreLive(Aged)
        /\ \A d \in Range(queue) : \E f \in Range(Aged) : f.user = d.user
        /\ \A f \in Range(Aged) : \E d \in Range(queue) : f.user = d.user
    BY AgedProperties
  <2>3. PICK f \in Range(Aged) : f.user = u
    BY <1>2, <2>2
  <2>4. LostForARoom(f.user)
    BY <2>1, <2>2, <2>3, TickLosses
  <2> QED
    BY <2>3, <2>4
<1>4. ASSUME NEW v \in Users, LeaveQueue(v)
      PROVE  LeaveQueue(u)
  <2>1. CASE u = v
    BY <1>4, <2>1
  <2>2. CASE u # v
    <3>1. queue' = WithoutUsers(queue, {v})
      BY <1>4 DEF LeaveQueue
    <3>2. e \in Range(queue')
      BY <1>2, <2>2, <3>1, WithoutUsersProperties DEF LobbyTypes
    <3> QED
      BY <1>2, <3>2 DEF Dropped, Queued, Range
  <2> QED
    BY <2>1, <2>2
<1>5. ASSUME NEW v \in Users, NEW chip \in Chips, JoinQueue(v, chip)
      PROVE  LostForARoom(u)
  <2>1. sock[v] # None /\ Tick(Joined(v, chip))
    BY <1>5 DEF JoinQueue, Joined
  <2> DEFINE q == Joined(v, chip)
  <2>2. /\ q \in Seq(Entries) /\ OnePlaceEach(q) /\ PlacesAreLive(q)
        /\ \A d \in Range(queue) : \E f \in Range(q) : f.user = d.user
        /\ \A f \in Range(q) : f.user = v \/ \E d \in Range(queue) : f.user = d.user
    BY <2>1, JoinedProperties
  <2> HIDE DEF q
  <2>3. PICK f \in Range(q) : f.user = u
    BY <1>2, <2>2
  <2>4. \A g \in Range(q) :
          \/ \E d \in Range(queue) : g.user = d.user
          \/ \E c \in Chips : JoinQueue(g.user, c)
    BY <1>5, <2>2
  <2>5. Tick(q)
    BY <2>1 DEF q
  <2>6. LostForARoom(f.user)
    BY <2>2, <2>3, <2>4, <2>5, TickLosses
  <2> QED
    BY <2>3, <2>6
<1>6. ASSUME NEW v \in Users, Connect(v) \/ Disconnect(v)
      PROVE  sock'[u] # sock[u]
  <2> DEFINE I == {i \in DOMAIN queue : ~(queue[i].user = v /\ queue[i].socket = sock[v])}
  <2>1. queue' = Picked(queue, I)
    BY <1>6 DEF Connect, Disconnect, DropEntry
  <2>2. CASE u = v
    BY <1>6, <2>2, NewSocketIsNew DEF Connect, Disconnect, LobbyTypes
  <2>3. CASE u # v
    <3>1. PICK i \in DOMAIN queue : queue[i] = e
      BY DEF Range
    <3>2. i \in I /\ I \in SUBSET DOMAIN queue
      BY <1>2, <2>3, <3>1
    <3> HIDE DEF I
    <3>3. e \in Range(queue')
      BY <2>1, <3>1, <3>2, PartOfQueue DEF LobbyTypes
    <3> QED
      BY <1>2, <3>3 DEF Dropped, Queued, Range
  <2> QED
    BY <2>2, <2>3
<1> QED
  BY <1>1, <1>3, <1>4, <1>5, <1>6 DEF Next, QueueStep, RoomStep, vars, queueVars

\* Whatever the queue, the rooms, the limits and the order of the pairs in a
\* pass: a place is lost for a room, or because createRoom refuses one to two
\* who were both free.
THEOREM LossesCorrect == Spec => PlacesAreLostForARoom
<1>1. QueueInv /\ [Next]_vars =>
        [\A u \in Users : Dropped(u) =>
           \/ ~Roomless(u)
           \/ roomOf'[u] # NoRoom /\ \E v \in Users \ {u} : roomOf'[v] = roomOf'[u]
           \/ \E v \in Users \ {u} :
                /\ ~Queued(v)' /\ Roomless(v) /\ (Queued(v) \/ \E chip \in Chips : JoinQueue(v, chip))
                /\ \E w \in {u, v} : ~MayCreate(roomOf', AddressOf[w])
           \/ sock'[u] # sock[u]
           \/ LeaveQueue(u)]_vars
  BY StepLosses DEF LostForARoom, Refused
<1> QED
  BY <1>1, QueueInvariance, PTL DEF Spec, PlacesAreLostForARoom

=============================================================================
