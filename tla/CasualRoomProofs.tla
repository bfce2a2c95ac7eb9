-------------------------- MODULE CasualRoomProofs --------------------------
(***************************************************************************)
(* Proofs about CasualRoom, for any users and rooms: the books that the    *)
(* handlers and timers share agree (BooksAgree), and the clock of a room   *)
(* follows its state as long as no grace timer fires for a user who is in  *)
(* another room by then (GracesExpireAtHome).  Then what the reaper leaves *)
(* of a room, and the join order, which every way out of a room filters    *)
(* and every way in extends.                                               *)
(***************************************************************************)
EXTENDS CasualRoom, SubsequenceProofs, TLAPS

\* The types of what the books say; the join order and the host stay out.
BookTypes ==
  /\ roomOf \in [Users -> Rooms \cup {None}]
  /\ slot \in [Users -> {0} \cup Seats]
  /\ ready \in [Users -> BOOLEAN]
  /\ presence \in [Users -> {"active", "disconnected"}]
  /\ online \in [Users -> BOOLEAN]
  /\ emptyGrace \in [Users -> Rooms \cup {None}]
  /\ specGrace \in [Users -> Rooms \cup {None}]
  /\ discGrace \in [Users -> Rooms \cup {None}]
  /\ life \in [Rooms -> {"unused", "live", "closed"}]
  /\ state \in [Rooms -> {"idle", "playing", "interrupted"}]
  /\ game \in [Rooms -> SUBSET Users]
  /\ misses \in [Rooms -> Nat]
  /\ seatCheck \in [Rooms -> SUBSET Users]
  /\ clock \in [Rooms -> {"none", "running", "stopped"}]

\* A room nobody is in has no game.
DeadRoomsAreIdle == \A r \in Rooms : life[r] # "live" => state[r] = "idle"

ReadyAreSeated == \A u \in Users : ready[u] => slot[u] # 0

MarkedAreGone ==
  \A u \in Users : presence[u] = "disconnected" => roomOf[u] # None /\ ~online[u]

\* Whoever has a seat and passes for present without a socket has never come:
\* the seat check is pending, and no game has started.
StrangersAreAwaited ==
  \A u \in Users : slot[u] # 0 /\ ~online[u] /\ presence[u] = "active" =>
    u \in seatCheck[roomOf[u]] /\ state[roomOf[u]] = "idle" /\ ~ready[u]

MarkedAreTimed ==
  \A u \in Users : slot[u] # 0 /\ presence[u] = "disconnected" =>
    emptyGrace[u] # None \/ specGrace[u] # None \/ discGrace[u] # None

BookInv ==
  /\ BookTypes
  /\ SeatsAreSound
  /\ DeadRoomsAreIdle
  /\ StateMatchesGame
  /\ MissesBelongToPair
  /\ ReadyAreSeated
  /\ MarkedAreGone
  /\ StrangersAreAwaited
  /\ MarkedAreTimed
  /\ GraceTargetsItsRoom

LEMMA BookInitInv == Init => BookInv
BY NoneAssumption
   DEF Init, BookInv, BookTypes, SeatsAreSound, DeadRoomsAreIdle, StateMatchesGame,
       MissesBelongToPair, ReadyAreSeated, MarkedAreGone, StrangersAreAwaited,
       MarkedAreTimed, GraceTargetsItsRoom, Members, Seated, Seats

LEMMA BookInvImplies == BookInv => BooksAgree
BY DEF BookInv, BookTypes, BooksAgree, SeatsAreSound, StrangersAreAwaited, MarkedAreGone,
       MarkedAreTimed, PresenceMatchesSocket, AbsentSeatIsTimed, Awaited

(***************************************************************************)
(* Whoever leaves, for whatever reason, leaves the books in order, if the  *)
(* timers and seat checks of those who stay are left alone.                *)
(***************************************************************************)
LEMMA DepartKeeps ==
  ASSUME BookInv,
         NEW over \in SUBSET Rooms, NEW leavers \in SUBSET Users,
         NEW unclocked, NEW unwatched,
         Depart(over, leavers, unclocked, unwatched),
         UNCHANGED online,
         emptyGrace' \in [Users -> Rooms \cup {None}],
         specGrace' \in [Users -> Rooms \cup {None}],
         discGrace' \in [Users -> Rooms \cup {None}],
         seatCheck' \in [Rooms -> SUBSET Users],
         \A u \in Users : emptyGrace'[u] \in {emptyGrace[u], None},
         \A u \in Users : specGrace'[u] \in {specGrace[u], None},
         \A u \in Users \ leavers : roomOf[u] # None =>
           /\ emptyGrace'[u] = emptyGrace[u] /\ specGrace'[u] = specGrace[u]
           /\ discGrace'[u] = discGrace[u],
         \A u \in Users \ leavers :
           slot[u] # 0 /\ ~online[u] /\ presence[u] = "active" => u \in seatCheck'[roomOf[u]]
  PROVE  BookInv'
<1> DEFINE broken == PairsBroken(leavers)
           ended == over \cup Emptied(leavers)
<1>1. /\ roomOf' = [u \in Users |-> IF u \in leavers THEN None ELSE roomOf[u]]
      /\ slot' = [u \in Users |-> IF u \in leavers THEN 0 ELSE slot[u]]
      /\ presence' = [u \in Users |-> IF u \in leavers THEN "active" ELSE presence[u]]
  BY DEF Depart, Assign, BookInv, BookTypes
<1>2. ready' = [u \in Users |-> IF u \in leavers \/ roomOf[u] \in over \cup broken
                                THEN FALSE ELSE ready[u]]
  BY DEF Depart, Assign, BookInv, BookTypes
<1>3. life' = [r \in Rooms |-> IF r \in Emptied(leavers) THEN "closed" ELSE life[r]]
  BY DEF Depart, Assign, BookInv, BookTypes
<1>4. /\ state' = [r \in Rooms |-> IF r \in ended THEN "idle" ELSE state[r]]
      /\ game' = [r \in Rooms |-> IF r \in ended THEN {} ELSE game[r]]
      /\ clock' = [r \in Rooms |-> IF r \in over \cup unclocked THEN "none" ELSE clock[r]]
  BY DEF Depart, SettleGames, Assign, BookInv, BookTypes
<1>5. misses' = [r \in Rooms |-> IF r \in over \cup broken THEN 0 ELSE misses[r]]
  BY DEF Depart, Assign, BookInv, BookTypes
<1>6. BookTypes'
  BY <1>1, <1>2, <1>3, <1>4, <1>5 DEF BookInv, BookTypes
<1>7. \A r \in Rooms : Members(r)' = Members(r) \ leavers
  BY <1>1, NoneAssumption DEF Members, BookInv, BookTypes
<1>8. SeatsAreSound'
  <2>1. ASSUME NEW r \in Rooms
        PROVE  life'[r] = "live" <=> Members(r)' # {}
    <3>1. life[r] = "live" <=> Members(r) # {}
      BY DEF BookInv, SeatsAreSound
    <3> QED
      BY <1>3, <1>7, <3>1 DEF Emptied
  <2>2. \A u \in Users : slot'[u] # 0 => roomOf'[u] # None
    BY <1>1 DEF BookInv, SeatsAreSound
  <2>3. \A r \in Rooms : Seated(r)' \subseteq Seated(r)
    BY <1>1, <1>7 DEF Seated, Members
  <2>4. \A r \in Rooms : \A u, v \in Seated(r)' : slot'[u] = slot'[v] => u = v
    BY <1>1, <2>3 DEF BookInv, SeatsAreSound, Seated, Members
  <2> QED
    BY <2>1, <2>2, <2>4 DEF SeatsAreSound
<1>9. DeadRoomsAreIdle'
  BY <1>3, <1>4 DEF BookInv, DeadRoomsAreIdle
<1>10. StateMatchesGame'
  BY <1>4 DEF BookInv, StateMatchesGame
<1>11. MissesBelongToPair'
  <2> SUFFICES ASSUME NEW r \in Rooms, misses'[r] > 0
               PROVE  BothSeated(r)'
    BY DEF MissesBelongToPair
  <2>1. misses[r] > 0 /\ r \notin broken
    BY <1>5
  <2>2. \A v \in Members(r) : slot[v] # 0 => v \notin leavers
    BY <2>1 DEF PairsBroken, Members
  <2>3. ASSUME NEW s \in Seats
        PROVE  \E v \in Members(r)' : slot'[v] = s
    <3>1. PICK v \in Members(r) : slot[v] = s
      BY <2>1 DEF BookInv, MissesBelongToPair, BothSeated
    <3>2. v \notin leavers
      BY <2>2, <3>1 DEF Seats
    <3> QED
      BY <1>1, <1>7, <3>1, <3>2 DEF Members
  <2> QED
    BY <2>3 DEF BothSeated
<1>12. ReadyAreSeated'
  BY <1>1, <1>2 DEF BookInv, ReadyAreSeated
<1>13. MarkedAreGone'
  BY <1>1 DEF BookInv, MarkedAreGone
<1>14. StrangersAreAwaited'
  <2> SUFFICES ASSUME NEW u \in Users, slot'[u] # 0, ~online[u], presence'[u] = "active"
               PROVE  u \in seatCheck'[roomOf'[u]] /\ state'[roomOf'[u]] = "idle" /\ ~ready'[u]
    BY DEF StrangersAreAwaited
  <2>1. u \notin leavers /\ slot[u] # 0 /\ presence[u] = "active" /\ roomOf'[u] = roomOf[u]
    BY <1>1
  <2>2. roomOf[u] \in Rooms
    BY <2>1 DEF BookInv, BookTypes, SeatsAreSound
  <2> QED
    BY <1>2, <1>4, <2>1, <2>2 DEF BookInv, StrangersAreAwaited
<1>15. MarkedAreTimed'
  BY <1>1 DEF BookInv, MarkedAreTimed, MarkedAreGone
<1>16. GraceTargetsItsRoom'
  BY <1>1 DEF BookInv, GraceTargetsItsRoom
<1> QED
  BY <1>6, <1>8, <1>9, <1>10, <1>11, <1>12, <1>13, <1>14, <1>15, <1>16 DEF BookInv

\* What the departing actions leave alone.
LEMMA QuietDepartKeeps ==
  ASSUME BookInv,
         NEW over \in SUBSET Rooms, NEW leavers \in SUBSET Users,
         NEW unclocked, NEW unwatched,
         Depart(over, leavers, unclocked, unwatched),
         UNCHANGED <<online, graces, seatCheck>>
  PROVE  BookInv'
BY DepartKeeps DEF BookInv, BookTypes, graces, StrangersAreAwaited

LEMMA LeaveRoomKeeps ==
  ASSUME BookInv, NEW u \in Users, LeaveRoom(u)
  PROVE  BookInv'
<1>1. roomOf[u] \in Rooms
  BY DEF LeaveRoom, InRoom, BookInv, BookTypes
<1>2. (IF u \in game[roomOf[u]] THEN {roomOf[u]} ELSE {}) \in SUBSET Rooms
  BY <1>1
<1> QED
  BY <1>2, QuietDepartKeeps DEF LeaveRoom

LEMMA KickKeeps ==
  ASSUME BookInv, NEW u \in Users, NEW v \in Users, Kick(u, v)
  PROVE  BookInv'
<1>1. {} \in SUBSET Rooms /\ {v} \in SUBSET Users
  OBVIOUS
<1> QED
  BY <1>1, QuietDepartKeeps DEF Kick

LEMMA IdleSweepKeeps ==
  ASSUME BookInv, NEW r \in Rooms, IdleSweep(r)
  PROVE  BookInv'
<1>1. {} \in SUBSET Rooms /\ Members(r) \in SUBSET Users
  BY DEF Members
<1> QED
  BY <1>1, QuietDepartKeeps DEF IdleSweep

LEMMA SeatCheckKeeps ==
  ASSUME BookInv, NEW r \in Rooms, SeatCheck(r)
  PROVE  BookInv'
<1>1. {} \in SUBSET Rooms /\ NeverCame(r) \in SUBSET Users
  BY DEF NeverCame, BookInv, BookTypes
<1>2. /\ UNCHANGED <<online, graces>>
      /\ seatCheck' = [seatCheck EXCEPT ![r] = {}]
      /\ Depart({}, NeverCame(r), {}, {})
  BY DEF SeatCheck
<1>3. seatCheck' \in [Rooms -> SUBSET Users]
  BY <1>2 DEF BookInv, BookTypes
<1>4. ASSUME NEW u \in Users \ NeverCame(r),
             slot[u] # 0, ~online[u], presence[u] = "active"
      PROVE  u \in seatCheck'[roomOf[u]]
  <2>1. /\ u \in seatCheck[roomOf[u]] /\ state[roomOf[u]] = "idle"
        /\ roomOf[u] \in Rooms
    BY <1>4 DEF BookInv, BookTypes, StrangersAreAwaited, SeatsAreSound
  <2>2. life[roomOf[u]] = "live"
    BY <2>1 DEF BookInv, SeatsAreSound, Members
  <2>3. roomOf[u] # r
    BY <1>4, <2>1, <2>2 DEF NeverCame
  <2> QED
    BY <1>2, <2>1, <2>3 DEF BookInv, BookTypes
<1> QED
  BY <1>1, <1>2, <1>3, <1>4, DepartKeeps DEF graces, BookInv, BookTypes

\* A grace period that expires takes its user out of the room they are in.
LEMMA GraceExpiresKeeps ==
  ASSUME BookInv, NEW u \in Users, EmptyGraceExpires(u) \/ SpecGraceExpires(u)
  PROVE  BookInv'
<1> PICK r \in Rooms : ExpireGrace(u, r)
  BY DEF EmptyGraceExpires, SpecGraceExpires, BookInv, BookTypes
<1>1. {} \in SUBSET Rooms /\ LeaversWith(u, r) \in SUBSET Users
  BY DEF LeaversWith, Members
<1>2. roomOf[u] # None => u \in LeaversWith(u, r)
  BY DEF LeaversWith
<1>3. /\ emptyGrace' = [emptyGrace EXCEPT ![u] = None] \/ UNCHANGED emptyGrace
      /\ specGrace' = [specGrace EXCEPT ![u] = None] \/ UNCHANGED specGrace
      /\ UNCHANGED <<online, discGrace, seatCheck>>
  BY DEF EmptyGraceExpires, SpecGraceExpires, ExpireGrace
<1>4. /\ emptyGrace' \in [Users -> Rooms \cup {None}]
      /\ specGrace' \in [Users -> Rooms \cup {None}]
      /\ discGrace' \in [Users -> Rooms \cup {None}]
      /\ seatCheck' \in [Rooms -> SUBSET Users]
      /\ \A v \in Users : emptyGrace'[v] \in {emptyGrace[v], None}
      /\ \A v \in Users : specGrace'[v] \in {specGrace[v], None}
      /\ \A v \in Users \ {u} : emptyGrace'[v] = emptyGrace[v] /\ specGrace'[v] = specGrace[v]
  BY <1>3 DEF BookInv, BookTypes
<1>5. \A v \in Users \ LeaversWith(u, r) :
        slot[v] # 0 /\ ~online[v] /\ presence[v] = "active" => v \in seatCheck'[roomOf[v]]
  BY <1>3 DEF BookInv, StrangersAreAwaited
<1>6. \A v \in Users \ LeaversWith(u, r) : roomOf[v] # None =>
        /\ emptyGrace'[v] = emptyGrace[v] /\ specGrace'[v] = specGrace[v]
        /\ discGrace'[v] = discGrace[v]
  BY <1>2, <1>3, <1>4
<1>7. PICK gone, unwatched : Depart({}, LeaversWith(u, r), gone, unwatched)
  BY DEF ExpireGrace
<1> QED
  BY <1>1, <1>3, <1>4, <1>5, <1>6, <1>7, DepartKeeps

LEMMA DiscGraceExpiresKeeps ==
  ASSUME BookInv, NEW u \in Users, DiscGraceExpires(u)
  PROVE  BookInv'
<1> DEFINE r == discGrace[u]
           over == IF game[r] # {} THEN {r} ELSE {}
           leavers == IF roomOf[u] = None THEN {} ELSE {u}
<1>1. r \in Rooms
  BY DEF DiscGraceExpires, BookInv, BookTypes
<1>2. over \in SUBSET Rooms /\ leavers \in SUBSET Users
  BY <1>1
<1>3. /\ discGrace' = [discGrace EXCEPT ![u] = None]
      /\ UNCHANGED <<online, emptyGrace, specGrace, seatCheck>>
  BY DEF DiscGraceExpires
<1>4. discGrace' \in [Users -> Rooms \cup {None}]
  BY <1>3 DEF BookInv, BookTypes
<1>5. \A v \in Users \ leavers : roomOf[v] # None => discGrace'[v] = discGrace[v]
  BY <1>3 DEF BookInv, BookTypes
<1>6. PICK unclocked, unwatched : Depart(over, leavers, unclocked, unwatched)
  BY DEF DiscGraceExpires
<1>7. \A v \in Users \ leavers :
        slot[v] # 0 /\ ~online[v] /\ presence[v] = "active" => v \in seatCheck'[roomOf[v]]
  BY <1>3 DEF BookInv, StrangersAreAwaited
<1> HIDE DEF over, leavers
<1> QED
  BY <1>2, <1>3, <1>4, <1>5, <1>6, <1>7, DepartKeeps DEF BookInv, BookTypes

(***************************************************************************)
(* Coming in.                                                              *)
(***************************************************************************)

\* A user who is in no room comes into r, which exists or is new.
LEMMA EnterKeeps ==
  ASSUME BookInv, NEW u \in Users, NEW r \in Rooms,
         roomOf[u] = None, online[u], Enter(u, r), UNCHANGED seatCheck,
         life' = [life EXCEPT ![r] = "live"]
  PROVE  BookInv'
<1>1. roomOf' = [roomOf EXCEPT ![u] = r]
  BY DEF Enter
<1>2. UNCHANGED <<slot, ready, presence, online, emptyGrace, specGrace, discGrace,
                  state, game, clock, misses, seatCheck>>
  BY DEF Enter, graces, play, window
<1>3. slot[u] = 0 /\ presence[u] = "active"
  BY DEF BookInv, BookTypes, SeatsAreSound, MarkedAreGone
<1>4. /\ \A v \in Users \ {u} : roomOf'[v] = roomOf[v]
      /\ roomOf'[u] = r
  BY <1>1 DEF BookInv, BookTypes
<1>5. \A q \in Rooms : /\ Members(q) \subseteq Members(q)'
                       /\ Seated(q)' = Seated(q)
                       /\ q # r => Members(q)' = Members(q)
  BY <1>2, <1>3, <1>4, NoneAssumption DEF Members, Seated
<1>6. BookTypes'
  BY <1>1, <1>2 DEF BookInv, BookTypes
<1>7. SeatsAreSound'
  <2>1. \A q \in Rooms : life'[q] = "live" <=> Members(q)' # {}
    BY <1>4, <1>5 DEF BookInv, BookTypes, SeatsAreSound, Members
  <2>2. \A v \in Users : slot'[v] # 0 => roomOf'[v] # None
    BY <1>2, <1>3, <1>4 DEF BookInv, SeatsAreSound
  <2> QED
    BY <1>2, <1>5, <2>1, <2>2 DEF BookInv, SeatsAreSound
<1>8. DeadRoomsAreIdle'
  BY <1>2 DEF BookInv, BookTypes, DeadRoomsAreIdle
<1>9. StateMatchesGame' /\ ReadyAreSeated'
  BY <1>2 DEF BookInv, StateMatchesGame, ReadyAreSeated
<1>10. MissesBelongToPair'
  BY <1>2, <1>5 DEF BookInv, MissesBelongToPair, BothSeated
<1>11. MarkedAreGone'
  BY <1>2, <1>3, <1>4 DEF BookInv, MarkedAreGone
<1>12. StrangersAreAwaited' /\ MarkedAreTimed'
  BY <1>2, <1>3, <1>4 DEF BookInv, StrangersAreAwaited, MarkedAreTimed
<1>13. GraceTargetsItsRoom'
  BY <1>2, <1>4 DEF BookInv, GraceTargetsItsRoom
<1> QED
  BY <1>6, <1>7, <1>8, <1>9, <1>10, <1>11, <1>12, <1>13 DEF BookInv

LEMMA CreateOrJoinKeeps ==
  ASSUME BookInv, NEW u \in Users, NEW r \in Rooms, CreateRoom(u, r) \/ JoinRoom(u, r)
  PROVE  BookInv'
<1>1. CASE CreateRoom(u, r)
  BY <1>1, EnterKeeps DEF CreateRoom
<1>2. CASE JoinRoom(u, r)
  <2>1. life' = [life EXCEPT ![r] = "live"]
    BY <1>2 DEF JoinRoom, BookInv, BookTypes
  <2> QED
    BY <1>2, <2>1, EnterKeeps DEF JoinRoom
<1> QED
  BY <1>1, <1>2

LEMMA AcceptChallengeKeeps ==
  ASSUME BookInv, NEW u \in Users, NEW v \in Users, NEW r \in Rooms, AcceptChallenge(u, v, r)
  PROVE  BookInv'
<1>1. /\ u # v /\ roomOf[u] = None /\ roomOf[v] = None /\ life[r] = "unused"
      /\ life' = [life EXCEPT ![r] = "live"]
      /\ seatCheck' = [seatCheck EXCEPT ![r] = {u, v}]
      /\ slot' = [slot EXCEPT ![u] = 1, ![v] = 2]
  BY DEF AcceptChallenge
<1>2. UNCHANGED <<ready, presence, online, emptyGrace, specGrace, discGrace,
                  state, game, clock, misses>>
  BY DEF AcceptChallenge, graces, play, window
<1>3. roomOf' = [w \in Users |-> IF w \in {u, v} THEN r ELSE roomOf[w]]
  BY DEF AcceptChallenge, Assign, BookInv, BookTypes
<1>4. /\ slot'[u] = 1 /\ slot'[v] = 2
      /\ \A w \in Users \ {u, v} : slot'[w] = slot[w] /\ roomOf'[w] = roomOf[w]
      /\ roomOf'[u] = r /\ roomOf'[v] = r
  BY <1>1, <1>3 DEF BookInv, BookTypes
<1>5. Members(r) = {} /\ state[r] = "idle"
  BY <1>1 DEF BookInv, SeatsAreSound, DeadRoomsAreIdle
<1>6. /\ Members(r)' = {u, v}
      /\ \A q \in Rooms \ {r} : Members(q)' = Members(q)
      /\ \A q \in Rooms : u \notin Members(q) /\ v \notin Members(q)
  BY <1>1, <1>4, <1>5, NoneAssumption DEF Members
<1>7. BookTypes'
  BY <1>1, <1>2, <1>3 DEF BookInv, BookTypes, Seats
<1>8. SeatsAreSound'
  <2>1. \A q \in Rooms : life'[q] = "live" <=> Members(q)' # {}
    BY <1>1, <1>6 DEF BookInv, BookTypes, SeatsAreSound
  <2>2. \A w \in Users : slot'[w] # 0 => roomOf'[w] # None
    BY <1>4, NoneAssumption DEF BookInv, SeatsAreSound
  <2>3. ASSUME NEW q \in Rooms, NEW w \in Seated(q)', NEW x \in Seated(q)', slot'[w] = slot'[x]
        PROVE  w = x
    <3>1. CASE q = r
      BY <1>4, <1>6, <2>3, <3>1 DEF Seated
    <3>2. CASE q # r
      <4>1. w \in Seated(q) /\ x \in Seated(q) /\ slot[w] = slot[x]
        BY <1>4, <1>6, <2>3, <3>2 DEF Seated, Members
      <4> QED
        BY <4>1 DEF BookInv, SeatsAreSound
    <3> QED
      BY <3>1, <3>2
  <2> QED
    BY <2>1, <2>2, <2>3 DEF SeatsAreSound
<1>9. DeadRoomsAreIdle'
  BY <1>1, <1>2 DEF BookInv, BookTypes, DeadRoomsAreIdle
<1>10. StateMatchesGame' /\ ReadyAreSeated'
  BY <1>1, <1>2, <1>4 DEF BookInv, StateMatchesGame, ReadyAreSeated, SeatsAreSound
<1>11. MissesBelongToPair'
  <2> SUFFICES ASSUME NEW q \in Rooms, misses'[q] > 0, NEW s \in Seats
               PROVE  \E w \in Members(q)' : slot'[w] = s
    BY DEF MissesBelongToPair, BothSeated
  <2>1. PICK w \in Members(q) : slot[w] = s
    BY <1>2 DEF BookInv, MissesBelongToPair, BothSeated
  <2> QED
    BY <1>4, <1>5, <1>6, <2>1 DEF Members
<1>12. MarkedAreGone'
  BY <1>1, <1>2, <1>4 DEF BookInv, MarkedAreGone
<1>13. StrangersAreAwaited'
  <2> SUFFICES ASSUME NEW w \in Users, slot'[w] # 0, ~online[w], presence[w] = "active"
               PROVE  w \in seatCheck'[roomOf'[w]] /\ state[roomOf'[w]] = "idle" /\ ~ready[w]
    BY <1>2 DEF StrangersAreAwaited
  <2>1. CASE w \in {u, v}
    <3>1. slot[w] = 0
      BY <1>1, <2>1 DEF BookInv, SeatsAreSound
    <3> QED
      BY <1>1, <1>4, <1>5, <2>1, <3>1 DEF BookInv, BookTypes, ReadyAreSeated
  <2>2. CASE w \notin {u, v}
    <3>1. w \in seatCheck[roomOf[w]] /\ state[roomOf[w]] = "idle" /\ ~ready[w]
      BY <1>4, <2>2 DEF BookInv, StrangersAreAwaited
    <3>2. roomOf[w] \in Rooms \ {r}
      BY <1>4, <1>5, <2>2 DEF BookInv, BookTypes, SeatsAreSound, Members
    <3> QED
      BY <1>1, <1>4, <2>2, <3>1, <3>2 DEF BookInv, BookTypes
  <2> QED
    BY <2>1, <2>2
<1>14. MarkedAreTimed'
  BY <1>1, <1>2, <1>4 DEF BookInv, MarkedAreTimed, MarkedAreGone
<1>15. GraceTargetsItsRoom'
  <2> SUFFICES ASSUME NEW w \in Users, NEW g \in {emptyGrace[w], specGrace[w]}, g # None
               PROVE  ~online[w] /\ (roomOf'[w] \in {g, None} \/ presence[w] = "active")
    BY <1>2 DEF GraceTargetsItsRoom
  <2>1. ~online[w] /\ (roomOf[w] \in {g, None} \/ presence[w] = "active")
    BY DEF BookInv, GraceTargetsItsRoom
  <2>2. CASE w \in {u, v}
    BY <1>1, <2>1, <2>2 DEF BookInv, BookTypes, MarkedAreGone
  <2>3. CASE w \notin {u, v}
    BY <1>4, <2>1, <2>3
  <2> QED
    BY <2>2, <2>3
<1> QED
  BY <1>7, <1>8, <1>9, <1>10, <1>11, <1>12, <1>13, <1>14, <1>15 DEF BookInv

(***************************************************************************)
(* Seats and the ready window.                                             *)
(***************************************************************************)

\* A step that only moves seats, clicks and misses.
LEMMA SeatingKeeps ==
  ASSUME BookInv,
         UNCHANGED <<roomOf, presence, online, graces, life, play, seatCheck>>,
         slot' \in [Users -> {0} \cup Seats],
         ready' \in [Users -> BOOLEAN],
         misses' \in [Rooms -> Nat],
         \A v \in Users : slot'[v] # 0 => slot[v] # 0 \/ (online[v] /\ roomOf[v] # None),
         \A v \in Users : ready'[v] => slot'[v] # 0 /\ (ready[v] \/ online[v]),
         \A r \in Rooms : \A v, w \in Members(r) :
           slot'[v] # 0 /\ slot'[v] = slot'[w] => v = w,
         \A r \in Rooms : misses'[r] > 0 =>
           \A s \in Seats : \E v \in Members(r) : slot'[v] = s
  PROVE  BookInv'
<1>1. \A r \in Rooms : Members(r)' = Members(r)
  BY DEF Members
<1>2. BookTypes'
  BY DEF BookInv, BookTypes, graces, play
<1>3. SeatsAreSound'
  BY <1>1 DEF BookInv, SeatsAreSound, Seated, Members
<1>4. DeadRoomsAreIdle' /\ StateMatchesGame' /\ MarkedAreGone' /\ GraceTargetsItsRoom'
  BY DEF BookInv, DeadRoomsAreIdle, StateMatchesGame, MarkedAreGone, GraceTargetsItsRoom,
         graces, play
<1>5. MissesBelongToPair'
  BY <1>1 DEF MissesBelongToPair, BothSeated
<1>6. ReadyAreSeated'
  BY DEF ReadyAreSeated
<1>7. StrangersAreAwaited'
  BY DEF BookInv, StrangersAreAwaited, play
<1>8. MarkedAreTimed'
  BY DEF BookInv, MarkedAreTimed, MarkedAreGone, graces
<1> QED
  BY <1>2, <1>3, <1>4, <1>5, <1>6, <1>7, <1>8 DEF BookInv

LEMMA SitKeeps ==
  ASSUME BookInv, NEW u \in Users, NEW s \in Seats, Sit(u, s)
  PROVE  BookInv'
<1> DEFINE r == roomOf[u]
<1>1. r \in Rooms /\ online[u]
  BY DEF Sit, InRoom, BookInv, BookTypes
<1>2. /\ slot' = [slot EXCEPT ![u] = s]
      /\ misses' = [misses EXCEPT ![r] = 0]
      /\ UNCHANGED <<roomOf, presence, online, graces, life, play, seatCheck>>
  BY DEF Sit, ResetPair, residence
<1>3. ready' = [v \in Users |-> IF v \in Members(r) THEN FALSE ELSE ready[v]]
  BY DEF Sit, ResetPair, Assign, BookInv, BookTypes
<1>4. /\ slot' \in [Users -> {0} \cup Seats] /\ ready' \in [Users -> BOOLEAN]
      /\ misses' \in [Rooms -> Nat]
      /\ slot'[u] = s /\ \A v \in Users \ {u} : slot'[v] = slot[v]
  BY <1>2, <1>3 DEF BookInv, BookTypes
<1>5. ASSUME NEW v \in Users, slot'[v] # 0
      PROVE  slot[v] # 0 \/ (online[v] /\ roomOf[v] # None)
  <2>1. CASE v = u
    BY <1>1, <2>1, NoneAssumption
  <2>2. CASE v # u
    BY <1>4, <1>5, <2>2
  <2> QED
    BY <2>1, <2>2
<1>6. \A v \in Users : ready'[v] => slot'[v] # 0 /\ (ready[v] \/ online[v])
  BY <1>3, <1>4 DEF BookInv, ReadyAreSeated, Members
<1>7. ASSUME NEW q \in Rooms, NEW v \in Members(q), NEW w \in Members(q),
             slot'[v] # 0, slot'[v] = slot'[w]
      PROVE  v = w
  <2>1. SeatFree(r, s) /\ s # 0
    BY DEF Sit, Seats
  <2>2. CASE v = u \/ w = u
    BY <1>4, <1>7, <2>1, <2>2 DEF SeatFree, Members
  <2>3. CASE v # u /\ w # u
    BY <1>4, <1>7, <2>3 DEF BookInv, SeatsAreSound, Seated, Members
  <2> QED
    BY <2>2, <2>3
<1>8. ASSUME NEW q \in Rooms, misses'[q] > 0, NEW t \in Seats
      PROVE  \E v \in Members(q) : slot'[v] = t
  <2>1. q # r /\ misses[q] > 0
    BY <1>1, <1>2, <1>8 DEF BookInv, BookTypes
  <2>2. PICK v \in Members(q) : slot[v] = t
    BY <2>1 DEF BookInv, MissesBelongToPair, BothSeated
  <2> QED
    BY <1>4, <2>1, <2>2 DEF Members
<1> QED
  BY <1>2, <1>4, <1>5, <1>6, <1>7, <1>8, SeatingKeeps

LEMMA StandKeeps ==
  ASSUME BookInv, NEW u \in Users, Stand(u)
  PROVE  BookInv'
<1> DEFINE r == roomOf[u]
<1>1. r \in Rooms
  BY DEF Stand, InRoom, BookInv, BookTypes
<1>2. /\ slot' = [slot EXCEPT ![u] = 0]
      /\ misses' = [misses EXCEPT ![r] = 0]
      /\ UNCHANGED <<roomOf, presence, online, graces, life, play, seatCheck>>
  BY DEF Stand, ResetPair, residence
<1>3. ready' = [v \in Users |-> IF v \in Members(r) THEN FALSE ELSE ready[v]]
  BY DEF Stand, ResetPair, Assign, BookInv, BookTypes
<1>4. /\ slot' \in [Users -> {0} \cup Seats] /\ ready' \in [Users -> BOOLEAN]
      /\ misses' \in [Rooms -> Nat]
      /\ slot'[u] = 0 /\ \A v \in Users \ {u} : slot'[v] = slot[v]
  BY <1>2, <1>3 DEF BookInv, BookTypes
<1>5. \A v \in Users : ready'[v] => slot'[v] # 0 /\ (ready[v] \/ online[v])
  BY <1>3, <1>4 DEF BookInv, ReadyAreSeated, Members
<1>6. \A q \in Rooms : \A v, w \in Members(q) : slot'[v] # 0 /\ slot'[v] = slot'[w] => v = w
  BY <1>4 DEF BookInv, SeatsAreSound, Seated, Members
<1>7. ASSUME NEW q \in Rooms, misses'[q] > 0, NEW t \in Seats
      PROVE  \E v \in Members(q) : slot'[v] = t
  <2>1. q # r /\ misses[q] > 0
    BY <1>1, <1>2, <1>7 DEF BookInv, BookTypes
  <2>2. PICK v \in Members(q) : slot[v] = t
    BY <2>1 DEF BookInv, MissesBelongToPair, BothSeated
  <2> QED
    BY <1>4, <2>1, <2>2 DEF Members
<1>8. \A v \in Users : slot'[v] # 0 => slot[v] # 0
  BY <1>4
<1> QED
  BY <1>2, <1>4, <1>5, <1>6, <1>7, <1>8, SeatingKeeps

\* Clicks and settings move no seat and count no miss.
LEMMA ClicksKeep ==
  ASSUME BookInv, NEW u \in Users,
         \/ SitAgain(u) \/ UpdateSettings(u) \/ OpenWindow(u)
         \/ BothReady(u) /\ UNCHANGED play
  PROVE  BookInv'
<1>1. UNCHANGED <<slot, roomOf, presence, online, graces, life, play, seatCheck>>
  BY DEF SitAgain, UpdateSettings, OpenWindow, BothReady, residence, entries
<1>2. misses' = misses \/ misses' = [misses EXCEPT ![roomOf[u]] = 0]
  BY DEF SitAgain, UpdateSettings, OpenWindow, BothReady
<1>3. /\ ready' \in [Users -> BOOLEAN]
      /\ \A v \in Users : ready'[v] => ready[v] \/ (v = u /\ online[u] /\ slot[u] # 0)
  <2>1. CASE SitAgain(u)
    <3>1. ready' = ready
      BY <2>1 DEF SitAgain, entries
    <3> QED
      BY <3>1 DEF BookInv, BookTypes
  <2>2. CASE UpdateSettings(u)
    <3>1. ready' = [v \in Users |-> IF v \in Seated(roomOf[u]) THEN FALSE ELSE ready[v]]
      BY <2>2 DEF UpdateSettings, Assign, BookInv, BookTypes
    <3> QED
      BY <3>1 DEF BookInv, BookTypes
  <2>3. CASE OpenWindow(u)
    BY <2>3 DEF OpenWindow, ClickReady, InRoom, BookInv, BookTypes
  <2>4. CASE BothReady(u)
    <3>1. \/ ready' = Assign(ready, Members(roomOf[u]), FALSE)
          \/ ready' = [ready EXCEPT ![u] = TRUE]
      BY <2>4 DEF BothReady, StartGame
    <3>2. online[u] /\ slot[u] # 0
      BY <2>4 DEF BothReady, ClickReady, InRoom
    <3> QED
      BY <3>1, <3>2 DEF Assign, BookInv, BookTypes
  <2> QED
    BY <2>1, <2>2, <2>3, <2>4
<1>4. slot' \in [Users -> {0} \cup Seats] /\ misses' \in [Rooms -> Nat]
  BY <1>1, <1>2 DEF BookInv, BookTypes
<1>5. \A v \in Users : ready'[v] => slot'[v] # 0 /\ (ready[v] \/ online[v])
  BY <1>1, <1>3 DEF BookInv, ReadyAreSeated
<1>6. \A r \in Rooms : \A v, w \in Members(r) : slot'[v] # 0 /\ slot'[v] = slot'[w] => v = w
  BY <1>1 DEF BookInv, SeatsAreSound, Seated
<1>7. \A r \in Rooms : misses'[r] > 0 => misses[r] > 0
  BY <1>2 DEF BookInv, BookTypes
<1>8. \A r \in Rooms : misses'[r] > 0 => \A s \in Seats : \E v \in Members(r) : slot'[v] = s
  BY <1>1, <1>7 DEF BookInv, MissesBelongToPair, BothSeated
<1>9. \A v \in Users : slot'[v] # 0 => slot[v] # 0
  BY <1>1
<1> QED
  BY <1>1, <1>3, <1>4, <1>5, <1>6, <1>8, <1>9, SeatingKeeps

LEMMA ReadyTimeoutKeeps ==
  ASSUME BookInv, NEW r \in Rooms, ReadyTimeout(r)
  PROVE  BookInv'
<1>1. UNCHANGED <<roomOf, presence, online, graces, life, play, seatCheck>>
  BY DEF ReadyTimeout, residence
<1>2. CASE UNCHANGED <<slot, ready, misses>>
  BY <1>1, <1>2, SeatingKeeps
     DEF BookInv, BookTypes, ReadyAreSeated, SeatsAreSound, Seated, MissesBelongToPair, BothSeated
<1>3. CASE /\ BothSeated(r)
           /\ \E kicked \in {{}, MissedBy(r)} :
                /\ slot' = Assign(slot, kicked, 0)
                /\ ready' = Assign(ready, Seated(r), FALSE)
                /\ misses' = [misses EXCEPT ![r] = IF kicked # {} THEN 0 ELSE @ + 1]
  <2> PICK kicked \in {{}, MissedBy(r)} :
        /\ slot' = Assign(slot, kicked, 0)
        /\ ready' = Assign(ready, Seated(r), FALSE)
        /\ misses' = [misses EXCEPT ![r] = IF kicked # {} THEN 0 ELSE @ + 1]
    BY <1>3
  <2>1. kicked \subseteq Seated(r)
    BY DEF MissedBy
  <2>2. /\ slot' = [v \in Users |-> IF v \in kicked THEN 0 ELSE slot[v]]
        /\ ready' = [v \in Users |-> IF v \in Seated(r) THEN FALSE ELSE ready[v]]
    BY DEF Assign, BookInv, BookTypes
  <2>3. slot' \in [Users -> {0} \cup Seats] /\ ready' \in [Users -> BOOLEAN]
    BY <2>2 DEF BookInv, BookTypes
  <2>8. misses' \in [Rooms -> Nat]
    <3>1. misses \in [Rooms -> Nat] /\ misses[r] + 1 \in Nat
      BY DEF BookInv, BookTypes
    <3> QED
      BY <3>1
  <2>4. \A v \in Users : slot'[v] # 0 => slot[v] # 0
    BY <2>2
  <2>5. \A v \in Users : ready'[v] => slot'[v] # 0 /\ ready[v]
    BY <2>1, <2>2 DEF BookInv, ReadyAreSeated
  <2>6. \A q \in Rooms : \A v, w \in Members(q) : slot'[v] # 0 /\ slot'[v] = slot'[w] => v = w
    BY <2>2 DEF BookInv, SeatsAreSound, Seated, Members
  <2>7. ASSUME NEW q \in Rooms, misses'[q] > 0, NEW s \in Seats
        PROVE  \E v \in Members(q) : slot'[v] = s
    <3>1. BothSeated(q) /\ (q = r => kicked = {})
      BY <1>3, <2>7 DEF BookInv, BookTypes, MissesBelongToPair
    <3>2. PICK v \in Members(q) : slot[v] = s
      BY <3>1 DEF BothSeated
    <3>3. v \notin kicked
      BY <2>1, <3>1, <3>2 DEF Seated, Members
    <3> QED
      BY <2>2, <3>2, <3>3 DEF Members
  <2> QED
    BY <1>1, <2>3, <2>4, <2>5, <2>6, <2>7, <2>8, SeatingKeeps
<1> QED
  BY <1>2, <1>3 DEF ReadyTimeout

(***************************************************************************)
(* Games begin and end, connections drop and return.                       *)
(***************************************************************************)

\* A game begins only among players who have come.
LEMMA GameStartsKeeps ==
  ASSUME BookInv, NEW u \in Users, BothReady(u), StartGame(roomOf[u])
  PROVE  BookInv'
<1> DEFINE r == roomOf[u]
<1>1. /\ r \in Rooms /\ online[u] /\ slot[u] # 0 /\ u \in Members(r)
      /\ \A v \in Seated(r) \ {u} : ready[v]
  BY DEF BothReady, ClickReady, InRoom, BookInv, BookTypes, Members
<1>2. /\ game' = [game EXCEPT ![r] = Seated(r)]
      /\ state' = [state EXCEPT ![r] = "playing"]
      /\ clock' = [clock EXCEPT ![r] = "running"]
      /\ misses' = [misses EXCEPT ![r] = 0]
      /\ UNCHANGED <<roomOf, slot, presence, online, graces, life, seatCheck>>
  BY DEF BothReady, StartGame, residence
<1>3. ready' = [v \in Users |-> IF v \in Members(r) THEN FALSE ELSE ready[v]]
  BY DEF StartGame, Assign, BookInv, BookTypes
<1>4. \A q \in Rooms : Members(q)' = Members(q) /\ Seated(q)' = Seated(q)
  BY <1>2 DEF Members, Seated
<1>5. BookTypes'
  BY <1>1, <1>2, <1>3 DEF BookInv, BookTypes, graces, Seated, Members
<1>6. SeatsAreSound'
  BY <1>2, <1>4 DEF BookInv, SeatsAreSound
<1>7. life[r] = "live"
  BY <1>1 DEF BookInv, SeatsAreSound
<1>8. DeadRoomsAreIdle'
  BY <1>1, <1>2, <1>7 DEF BookInv, BookTypes, DeadRoomsAreIdle
<1>9. StateMatchesGame'
  <2>1. Seated(r) # {}
    BY <1>1 DEF Seated
  <2> QED
    BY <1>1, <1>2, <2>1 DEF BookInv, BookTypes, StateMatchesGame
<1>10. MissesBelongToPair'
  BY <1>1, <1>2, <1>4 DEF BookInv, BookTypes, MissesBelongToPair, BothSeated
<1>11. ReadyAreSeated' /\ MarkedAreGone' /\ MarkedAreTimed' /\ GraceTargetsItsRoom'
  BY <1>2, <1>3 DEF BookInv, ReadyAreSeated, MarkedAreGone, MarkedAreTimed,
                    GraceTargetsItsRoom, graces
<1>12. StrangersAreAwaited'
  <2> SUFFICES ASSUME NEW v \in Users, slot[v] # 0, ~online[v], presence[v] = "active"
               PROVE  v \in seatCheck[roomOf[v]] /\ state'[roomOf[v]] = "idle" /\ ~ready'[v]
    BY <1>2 DEF StrangersAreAwaited
  <2>1. v \in seatCheck[roomOf[v]] /\ state[roomOf[v]] = "idle" /\ ~ready[v]
    BY DEF BookInv, StrangersAreAwaited
  <2>2. v # u /\ v \notin Seated(r)
    BY <1>1, <2>1
  <2>3. roomOf[v] \in Rooms \ {r}
    BY <2>2 DEF BookInv, BookTypes, SeatsAreSound, Seated, Members
  <2> QED
    BY <1>2, <1>3, <2>1, <2>3 DEF BookInv, BookTypes
<1> QED
  BY <1>5, <1>6, <1>8, <1>9, <1>10, <1>11, <1>12 DEF BookInv

LEMMA GameEndsKeeps ==
  ASSUME BookInv, NEW r \in Rooms, GameEnds(r), UNCHANGED <<online, graces, seatCheck>>
  PROVE  BookInv'
<1>1. /\ state' = [state EXCEPT ![r] = "idle"]
      /\ game' = [game EXCEPT ![r] = {}]
      /\ clock' = [clock EXCEPT ![r] = "none"]
      /\ ready' = [v \in Users |-> IF v \in Members(r) THEN FALSE ELSE ready[v]]
  BY DEF GameEnds, SettleGames, Assign, BookInv, BookTypes
<1>2. /\ misses' = [misses EXCEPT ![r] = 0]
      /\ UNCHANGED <<roomOf, slot, presence, online, graces, life, seatCheck>>
  BY DEF GameEnds, residence
<1>3. \A q \in Rooms : Members(q)' = Members(q) /\ Seated(q)' = Seated(q)
  BY <1>2 DEF Members, Seated
<1>4. BookTypes'
  BY <1>1, <1>2 DEF BookInv, BookTypes, graces
<1>5. SeatsAreSound'
  BY <1>2, <1>3 DEF BookInv, SeatsAreSound
<1>6. DeadRoomsAreIdle' /\ StateMatchesGame'
  BY <1>1, <1>2 DEF BookInv, BookTypes, DeadRoomsAreIdle, StateMatchesGame
<1>7. MissesBelongToPair'
  BY <1>2, <1>3 DEF BookInv, BookTypes, MissesBelongToPair, BothSeated
<1>8. ReadyAreSeated' /\ MarkedAreGone' /\ MarkedAreTimed' /\ GraceTargetsItsRoom'
  BY <1>1, <1>2 DEF BookInv, ReadyAreSeated, MarkedAreGone, MarkedAreTimed,
                    GraceTargetsItsRoom, graces
<1>9. StrangersAreAwaited'
  BY <1>1, <1>2 DEF BookInv, BookTypes, StrangersAreAwaited, SeatsAreSound
<1> QED
  BY <1>4, <1>5, <1>6, <1>7, <1>8, <1>9 DEF BookInv

\* A room that has a game is busy, and exists.
LEMMA GamesAreBusy ==
  ASSUME BookInv, NEW r \in Rooms, game[r] # {}
  PROVE  state[r] # "idle" /\ life[r] = "live"
BY DEF BookInv, BookTypes, StateMatchesGame, DeadRoomsAreIdle

LEMMA DisconnectKeeps ==
  ASSUME BookInv, NEW u \in Users, Disconnect(u)
  PROVE  BookInv'
<1>1. /\ online[u] /\ online' = [online EXCEPT ![u] = FALSE]
      /\ UNCHANGED <<roomOf, slot, ready, life, seatCheck, misses>>
  BY DEF Disconnect, residence, window
<1>2. \A q \in Rooms : Members(q)' = Members(q) /\ Seated(q)' = Seated(q)
  BY <1>1 DEF Members, Seated
<1>3. SeatsAreSound' /\ ReadyAreSeated' /\ MissesBelongToPair'
  BY <1>1, <1>2 DEF BookInv, SeatsAreSound, ReadyAreSeated, MissesBelongToPair, BothSeated
<1>4. ~online'[u] /\ \A v \in Users \ {u} : online'[v] = online[v]
  BY <1>1 DEF BookInv, BookTypes
<1>5. CASE roomOf[u] = None
  <2>1. UNCHANGED <<presence, graces, play>>
    BY <1>5 DEF Disconnect
  <2>2. BookTypes'
    BY <1>1, <2>1 DEF BookInv, BookTypes, graces, play
  <2>3. DeadRoomsAreIdle' /\ StateMatchesGame' /\ MarkedAreTimed'
    BY <1>1, <2>1 DEF BookInv, DeadRoomsAreIdle, StateMatchesGame, MarkedAreTimed, graces, play
  <2>4. MarkedAreGone' /\ GraceTargetsItsRoom'
    BY <1>1, <1>4, <2>1 DEF BookInv, MarkedAreGone, GraceTargetsItsRoom, graces
  <2>5. StrangersAreAwaited'
    BY <1>1, <1>4, <1>5, <2>1 DEF BookInv, StrangersAreAwaited, SeatsAreSound, play
  <2> QED
    BY <1>3, <2>2, <2>3, <2>4, <2>5 DEF BookInv
<1>6. CASE roomOf[u] # None
  <2> DEFINE r == roomOf[u]
  <2>1. r \in Rooms /\ presence' = [presence EXCEPT ![u] = "disconnected"]
    BY <1>6 DEF Disconnect, BookInv, BookTypes
  <2>2. /\ presence'[u] = "disconnected"
        /\ \A v \in Users \ {u} : presence'[v] = presence[v]
    BY <2>1 DEF BookInv, BookTypes
  <2>3. /\ game' = game
        /\ \/ state' = state
           \/ state' = [state EXCEPT ![r] = "interrupted"] /\ game[r] # {}
        /\ clock' = clock \/ PauseClock(r)
    BY <1>6 DEF Disconnect, DropFromGame, DropAlone, DropWithCompany, play
  <2>4. /\ emptyGrace' = emptyGrace \/ emptyGrace' = [emptyGrace EXCEPT ![u] = r]
        /\ specGrace' = specGrace \/ specGrace' = [specGrace EXCEPT ![u] = r]
        /\ discGrace' = discGrace \/ discGrace' = [discGrace EXCEPT ![u] = r]
    BY <1>6 DEF Disconnect, DropFromGame, DropAlone, DropWithCompany
  <2>5. slot[u] # 0 => \/ emptyGrace' = [emptyGrace EXCEPT ![u] = r]
                       \/ specGrace' = [specGrace EXCEPT ![u] = r]
                       \/ discGrace' = [discGrace EXCEPT ![u] = r]
    BY <1>6 DEF Disconnect, DropFromGame, DropAlone, DropWithCompany, IsViewer
  <2>6. game[r] # {} => state[r] # "idle" /\ life[r] = "live"
    BY <2>1, GamesAreBusy
  <2>7. BookTypes'
    BY <1>1, <2>1, <2>3, <2>4 DEF BookInv, BookTypes, PauseClock
  <2>8. DeadRoomsAreIdle' /\ StateMatchesGame'
    BY <1>1, <2>1, <2>3, <2>6 DEF BookInv, BookTypes, DeadRoomsAreIdle, StateMatchesGame
  <2>9. MarkedAreGone'
    BY <1>1, <1>4, <1>6, <2>2 DEF BookInv, MarkedAreGone
  <2>10. MarkedAreTimed'
    <3> SUFFICES ASSUME NEW v \in Users, slot[v] # 0, presence'[v] = "disconnected"
                 PROVE  emptyGrace'[v] # None \/ specGrace'[v] # None \/ discGrace'[v] # None
      BY <1>1 DEF MarkedAreTimed
    <3>1. CASE v = u
      BY <1>6, <2>5, <3>1 DEF BookInv, BookTypes
    <3>2. CASE v # u
      BY <2>2, <2>4, <3>2 DEF BookInv, BookTypes, MarkedAreTimed
    <3> QED
      BY <3>1, <3>2
  <2>11. StrangersAreAwaited'
    <3> SUFFICES ASSUME NEW v \in Users, slot[v] # 0, ~online'[v], presence'[v] = "active"
                 PROVE  v \in seatCheck[roomOf[v]] /\ state'[roomOf[v]] = "idle" /\ ~ready[v]
      BY <1>1 DEF StrangersAreAwaited
    <3>1. v # u /\ ~online[v] /\ presence[v] = "active"
      BY <1>4, <2>2
    <3>2. v \in seatCheck[roomOf[v]] /\ state[roomOf[v]] = "idle" /\ ~ready[v]
      BY <3>1 DEF BookInv, StrangersAreAwaited
    <3> QED
      BY <2>1, <2>3, <2>6, <3>2 DEF BookInv, BookTypes, SeatsAreSound
  <2>12. GraceTargetsItsRoom'
    <3> SUFFICES ASSUME NEW v \in Users, NEW g \in {emptyGrace'[v], specGrace'[v]}, g # None
                 PROVE  ~online'[v] /\ (roomOf[v] \in {g, None} \/ presence'[v] = "active")
      BY <1>1 DEF GraceTargetsItsRoom
    <3>1. CASE v = u
      <4>1. emptyGrace[u] = None /\ specGrace[u] = None
        BY <1>1 DEF BookInv, GraceTargetsItsRoom
      <4>2. g = r
        BY <2>4, <3>1, <4>1 DEF BookInv, BookTypes
      <4> QED
        BY <1>4, <3>1, <4>2
    <3>2. CASE v # u
      <4>1. g \in {emptyGrace[v], specGrace[v]}
        BY <2>4, <3>2 DEF BookInv, BookTypes
      <4> QED
        BY <1>4, <2>2, <3>2, <4>1 DEF BookInv, GraceTargetsItsRoom
    <3> QED
      BY <3>1, <3>2
  <2> QED
    BY <1>3, <2>7, <2>8, <2>9, <2>10, <2>11, <2>12 DEF BookInv
<1> QED
  BY <1>5, <1>6

LEMMA ConnectKeeps ==
  ASSUME BookInv, NEW u \in Users, Connect(u)
  PROVE  BookInv'
<1>1. /\ online' = [online EXCEPT ![u] = TRUE]
      /\ emptyGrace' = [emptyGrace EXCEPT ![u] = None]
      /\ specGrace' = [specGrace EXCEPT ![u] = None]
      /\ UNCHANGED <<roomOf, slot, ready, life, game, seatCheck, misses>>
  BY DEF Connect, CancelGraces, residence, window
<1>2. \A q \in Rooms : Members(q)' = Members(q) /\ Seated(q)' = Seated(q)
  BY <1>1 DEF Members, Seated
<1>3. SeatsAreSound' /\ ReadyAreSeated' /\ MissesBelongToPair'
  BY <1>1, <1>2 DEF BookInv, SeatsAreSound, ReadyAreSeated, MissesBelongToPair, BothSeated
<1>4. /\ presence' = [presence EXCEPT ![u] = "active"]
      /\ discGrace' = discGrace \/ discGrace' = [discGrace EXCEPT ![u] = None]
  BY DEF Connect, Resume, Rejoin, MarkBack
<1>5. /\ online'[u] /\ presence'[u] = "active"
      /\ \A v \in Users \ {u} :
           /\ online'[v] = online[v] /\ presence'[v] = presence[v]
           /\ emptyGrace'[v] = emptyGrace[v] /\ specGrace'[v] = specGrace[v]
           /\ discGrace'[v] = discGrace[v]
  BY <1>1, <1>4 DEF BookInv, BookTypes
<1>6. \/ state' = state /\ clock' = clock
      \/ \E r \in Rooms : /\ game[r] # {}
                          /\ state' = [state EXCEPT ![r] = "playing"]
                          /\ RestartClock(r)
  BY DEF Connect, Resume, Rejoin, CanResume, BookInv, BookTypes
<1>7. BookTypes'
  BY <1>1, <1>4, <1>6 DEF BookInv, BookTypes, RestartClock
<1>8. DeadRoomsAreIdle' /\ StateMatchesGame'
  <2>1. CASE state' = state
    BY <1>1, <2>1 DEF BookInv, DeadRoomsAreIdle, StateMatchesGame
  <2>2. ASSUME NEW r \in Rooms, game[r] # {}, state' = [state EXCEPT ![r] = "playing"]
        PROVE  DeadRoomsAreIdle' /\ StateMatchesGame'
    BY <1>1, <2>2, GamesAreBusy DEF BookInv, BookTypes, DeadRoomsAreIdle, StateMatchesGame
  <2> QED
    BY <1>6, <2>1, <2>2
<1>9. MarkedAreGone' /\ MarkedAreTimed'
  BY <1>1, <1>5 DEF BookInv, MarkedAreGone, MarkedAreTimed
<1>10. StrangersAreAwaited'
  <2> SUFFICES ASSUME NEW v \in Users, slot[v] # 0, ~online'[v], presence'[v] = "active"
               PROVE  v \in seatCheck[roomOf[v]] /\ state'[roomOf[v]] = "idle" /\ ~ready[v]
    BY <1>1 DEF StrangersAreAwaited
  <2>1. v \in seatCheck[roomOf[v]] /\ state[roomOf[v]] = "idle" /\ ~ready[v]
    BY <1>5 DEF BookInv, StrangersAreAwaited
  <2>2. \A r \in Rooms : game[r] # {} => r # roomOf[v]
    BY <2>1, GamesAreBusy
  <2> QED
    BY <1>6, <2>1, <2>2 DEF BookInv, BookTypes, SeatsAreSound
<1>11. GraceTargetsItsRoom'
  <2> SUFFICES ASSUME NEW v \in Users, NEW g \in {emptyGrace'[v], specGrace'[v]}, g # None
               PROVE  ~online'[v] /\ (roomOf[v] \in {g, None} \/ presence'[v] = "active")
    BY <1>1 DEF GraceTargetsItsRoom
  <2>1. v # u
    BY <1>1 DEF BookInv, BookTypes
  <2> QED
    BY <1>5, <2>1 DEF BookInv, GraceTargetsItsRoom
<1> QED
  BY <1>3, <1>7, <1>8, <1>9, <1>10, <1>11 DEF BookInv

LEMMA OrphanSweepKeeps ==
  ASSUME BookInv, OrphanSweep
  PROVE  BookInv'
<1>1. /\ clock' = [r \in Rooms |-> IF life[r] # "live" THEN "none" ELSE clock[r]]
      /\ UNCHANGED <<entries, online, graces, residence, state, game, seatCheck, window>>
  BY DEF OrphanSweep, Assign, BookInv, BookTypes
<1>2. BookTypes'
  BY <1>1 DEF BookInv, BookTypes, entries, graces, residence, window
<1> QED
  BY <1>1, <1>2
     DEF BookInv, SeatsAreSound, DeadRoomsAreIdle, StateMatchesGame, MissesBelongToPair,
         ReadyAreSeated, MarkedAreGone, StrangersAreAwaited, MarkedAreTimed,
         GraceTargetsItsRoom, BothSeated, Seated, Members, entries, graces, residence, window

(***************************************************************************)
(* The theorem about the books.                                            *)
(***************************************************************************)

LEMMA BookStep == BookInv /\ [Next]_vars => BookInv'
<1> SUFFICES ASSUME BookInv, [Next]_vars PROVE BookInv'
  OBVIOUS
<1>1. CASE UNCHANGED vars
  BY <1>1 DEF vars, entries, graces, residence, play, window, BookInv, BookTypes,
              SeatsAreSound, DeadRoomsAreIdle, StateMatchesGame, MissesBelongToPair,
              ReadyAreSeated, MarkedAreGone, StrangersAreAwaited, MarkedAreTimed,
              GraceTargetsItsRoom, BothSeated, Seated, Members
<1>2. ASSUME NEW u \in Users, NEW r \in Rooms, CreateRoom(u, r) \/ JoinRoom(u, r)
      PROVE  BookInv'
  BY <1>2, CreateOrJoinKeeps
<1>3. ASSUME NEW u \in Users, NEW s \in Seats, Sit(u, s)
      PROVE  BookInv'
  BY <1>3, SitKeeps
<1>4. ASSUME NEW u \in Users, NEW v \in Users, Kick(u, v) \/ \E r \in Rooms : AcceptChallenge(u, v, r)
      PROVE  BookInv'
  BY <1>4, KickKeeps, AcceptChallengeKeeps
<1>5. ASSUME NEW u \in Users, UpdateSettings(u) \/ SitAgain(u) \/ OpenWindow(u)
      PROVE  BookInv'
  BY <1>5, ClicksKeep
<1>6. ASSUME NEW u \in Users, Stand(u)
      PROVE  BookInv'
  BY <1>6, StandKeeps
<1>7. ASSUME NEW u \in Users, BookInv, BothReady(u)
      PROVE  BookInv'
  <2>1. StartGame(roomOf[u]) \/ UNCHANGED play
    BY <1>7 DEF BothReady
  <2> QED
    BY <1>7, <2>1, GameStartsKeeps, ClicksKeep
<1>8. ASSUME NEW u \in Users, LeaveRoom(u)
      PROVE  BookInv'
  BY <1>8, LeaveRoomKeeps
<1>9. ASSUME NEW u \in Users, PlayEnds(u)
      PROVE  BookInv'
  <2>1. roomOf[u] \in Rooms
    BY <1>9 DEF PlayEnds, InRoom, BookInv, BookTypes
  <2> QED
    BY <1>9, <2>1, GameEndsKeeps DEF PlayEnds
<1>10. ASSUME NEW u \in Users, Disconnect(u) \/ Connect(u)
       PROVE  BookInv'
  BY <1>10, DisconnectKeeps, ConnectKeeps
<1>11. ASSUME NEW u \in Users, EmptyGraceExpires(u) \/ SpecGraceExpires(u) \/ DiscGraceExpires(u)
       PROVE  BookInv'
  BY <1>11, GraceExpiresKeeps, DiscGraceExpiresKeeps
<1>12. ASSUME NEW r \in Rooms, SeatCheck(r) \/ ReadyTimeout(r) \/ IdleSweep(r)
       PROVE  BookInv'
  BY <1>12, SeatCheckKeeps, ReadyTimeoutKeeps, IdleSweepKeeps
<1>13. ASSUME NEW r \in Rooms, ClockTimeout(r)
       PROVE  BookInv'
  BY <1>13, GameEndsKeeps DEF ClockTimeout
<1>14. CASE OrphanSweep
  BY <1>14, OrphanSweepKeeps
<1> QED
  BY <1>1, <1>2, <1>3, <1>4, <1>5, <1>6, <1>7, <1>8, <1>9, <1>10, <1>11, <1>12, <1>13, <1>14
     DEF Next

\* The inductive invariant of the rooms, in every reachable state.
THEOREM BookInvariance == Spec => []BookInv
<1>1. Init => BookInv
  BY BookInitInv
<1>2. BookInv /\ [Next]_vars => BookInv'
  BY BookStep
<1> QED
  BY <1>1, <1>2, PTL DEF Spec

\* Whatever users, rooms and timers there are: rooms and members agree, no seat
\* holds two, the presence marks follow the sockets, a game makes its room busy,
\* every absent seat has a timer, no grace timer finds its user at home in
\* another room and misses are the pair's own.  The handlers and timers of
\* RoomManager.js, DisconnectHandler.js and ChallengeService.js all write these.
THEOREM BooksAlwaysAgree == Spec => []BooksAgree
<1>1. BookInv => BooksAgree
  BY BookInvImplies
<1> QED
  BY <1>1, BookInvariance, PTL

(***************************************************************************)
(* The clock of a room.                                                    *)
(***************************************************************************)

\* Nobody's empty-room or spectator grace period expires while they are in
\* another room than the one it was started for.  They can be, if they were
\* kicked while away and a challenge has put them in a new room since; should
\* that room be destroyed by their leaving, finalizeNormalLeave drops the
\* clock of the first one, whatever is played there by now.
GracesExpireAtHome ==
  \A u \in Users :
    /\ EmptyGraceExpires(u) => roomOf[u] \in {emptyGrace[u], None}
    /\ SpecGraceExpires(u) => roomOf[u] \in {specGrace[u], None}

ClockInv ==
  /\ ClockFollowsState
  /\ \A r \in Rooms : life[r] = "unused" => clock[r] = "none"

LEMMA ClockInitInv == Init => ClockInv
BY DEF Init, ClockInv, ClockFollowsState

\* Leaving takes a clock away only with its game or its room.
LEMMA DepartKeepsClock ==
  ASSUME BookInv, ClockInv,
         NEW over, NEW leavers, NEW unclocked, NEW unwatched,
         Depart(over, leavers, unclocked, unwatched),
         \A r \in unclocked : r \in over \cup Emptied(leavers) \/ state[r] = "idle"
  PROVE  ClockInv'
<1>1. life' = [r \in Rooms |-> IF r \in Emptied(leavers) THEN "closed" ELSE life[r]]
  BY DEF Depart, Assign, BookInv, BookTypes
<1>2. /\ state' = [r \in Rooms |-> IF r \in over \cup Emptied(leavers) THEN "idle" ELSE state[r]]
      /\ clock' = [r \in Rooms |-> IF r \in over \cup unclocked THEN "none" ELSE clock[r]]
  BY DEF Depart, SettleGames, Assign, BookInv, BookTypes
<1>3. ASSUME NEW r \in Rooms, life'[r] = "live"
      PROVE  clock'[r] = CASE state'[r] = "idle" -> "none"
                           [] state'[r] = "playing" -> "running"
                           [] state'[r] = "interrupted" -> "stopped"
  <2>1. r \notin Emptied(leavers) /\ life[r] = "live"
    BY <1>1, <1>3
  <2>2. CASE r \in over
    BY <1>2, <2>2
  <2>3. CASE r \notin over /\ r \in unclocked
    BY <1>2, <2>1, <2>3
  <2>4. CASE r \notin over \cup unclocked
    BY <1>2, <2>1, <2>4 DEF ClockInv, ClockFollowsState
  <2> QED
    BY <2>2, <2>3, <2>4
<1>4. ASSUME NEW r \in Rooms, life'[r] = "unused"
      PROVE  clock'[r] = "none"
  BY <1>1, <1>2, <1>4 DEF ClockInv
<1> QED
  BY <1>3, <1>4 DEF ClockInv, ClockFollowsState

LEMMA GraceKeepsClock ==
  ASSUME BookInv, ClockInv, NEW u \in Users, NEW r \in Rooms,
         roomOf[u] \in {r, None}, ExpireGrace(u, r)
  PROVE  ClockInv'
<1>1. LeaversWith(u, r) \subseteq Members(r)
  BY NoneAssumption DEF LeaversWith, Members
<1>2. Emptied(LeaversWith(u, r)) \subseteq {r}
  BY <1>1 DEF Emptied, Members
<1>3. PICK gone, unwatched :
        /\ Depart({}, LeaversWith(u, r), gone, unwatched)
        /\ gone = IF Emptied(LeaversWith(u, r)) # {} THEN {r} ELSE {}
  BY DEF ExpireGrace
<1>4. \A q \in gone : q \in {} \cup Emptied(LeaversWith(u, r)) \/ state[q] = "idle"
  BY <1>2, <1>3
<1> QED
  BY <1>3, <1>4, DepartKeepsClock

LEMMA DeparturesKeepClock ==
  ASSUME BookInv, ClockInv, NEW u \in Users,
         \/ LeaveRoom(u)
         \/ \E v \in Users : Kick(u, v)
         \/ DiscGraceExpires(u)
         \/ \E r \in Rooms : SeatCheck(r) \/ IdleSweep(r)
  PROVE  ClockInv'
<1>1. CASE LeaveRoom(u)
  <2> DEFINE r == roomOf[u]
             over == IF u \in game[r] THEN {r} ELSE {}
             unclocked == IF Members(r) = {u} THEN {r} ELSE {}
  <2>1. r \in Rooms /\ Depart(over, {u}, unclocked, {r})
    BY <1>1 DEF LeaveRoom, InRoom, BookInv, BookTypes
  <2>2. \A q \in unclocked : q \in Emptied({u})
    BY <2>1 DEF Emptied
  <2> HIDE DEF over, unclocked
  <2> QED
    BY <2>1, <2>2, DepartKeepsClock
<1>2. ASSUME NEW over, NEW leavers, NEW unwatched, Depart(over, leavers, {}, unwatched)
      PROVE  ClockInv'
  BY <1>2, DepartKeepsClock
<1>3. CASE DiscGraceExpires(u)
  <2> DEFINE r == discGrace[u]
             over == IF game[r] # {} THEN {r} ELSE {}
  <2>1. r \in Rooms
    BY <1>3 DEF DiscGraceExpires, BookInv, BookTypes
  <2>2. PICK leavers, unclocked :
          Depart(over, leavers, unclocked, {}) /\ unclocked \in {{r}, {}}
    BY <1>3 DEF DiscGraceExpires
  <2>3. r \in over \/ state[r] = "idle"
    BY <2>1 DEF BookInv, StateMatchesGame
  <2> HIDE DEF over
  <2> QED
    BY <2>2, <2>3, DepartKeepsClock
<1> QED
  BY <1>1, <1>2, <1>3 DEF Kick, SeatCheck, IdleSweep

LEMMA ArrivalsKeepClock ==
  ASSUME BookInv, ClockInv, NEW u \in Users, NEW r \in Rooms,
         \/ CreateRoom(u, r) \/ JoinRoom(u, r)
         \/ \E v \in Users : AcceptChallenge(u, v, r)
  PROVE  ClockInv'
<1>1. UNCHANGED <<state, clock>>
  BY DEF CreateRoom, JoinRoom, AcceptChallenge, Enter, play
<1>2. \/ life' = life
      \/ life[r] = "unused" /\ life' = [life EXCEPT ![r] = "live"]
  BY DEF CreateRoom, JoinRoom, AcceptChallenge
<1>3. life[r] = "unused" => state[r] = "idle" /\ clock[r] = "none"
  BY DEF BookInv, DeadRoomsAreIdle, ClockInv
<1> QED
  BY <1>1, <1>2, <1>3 DEF BookInv, BookTypes, ClockInv, ClockFollowsState

LEMMA GamesKeepClock ==
  ASSUME BookInv, ClockInv, NEW r \in Rooms,
         \/ GameEnds(r)
         \/ StartGame(r) /\ UNCHANGED life /\ life[r] # "unused"
  PROVE  ClockInv'
<1>1. CASE GameEnds(r)
  <2>1. /\ state' = [state EXCEPT ![r] = "idle"]
        /\ clock' = [clock EXCEPT ![r] = "none"]
        /\ life' = life
    BY <1>1 DEF GameEnds, SettleGames, Assign, residence, BookInv, BookTypes
  <2> QED
    BY <2>1 DEF BookInv, BookTypes, ClockInv, ClockFollowsState
<1>2. CASE StartGame(r) /\ UNCHANGED life /\ life[r] # "unused"
  BY <1>2 DEF StartGame, BookInv, BookTypes, ClockInv, ClockFollowsState
<1> QED
  BY <1>1, <1>2

LEMMA ConnectionsKeepClock ==
  ASSUME BookInv, ClockInv, NEW u \in Users, Disconnect(u) \/ Connect(u)
  PROVE  ClockInv'
<1>1. life' = life
  BY DEF Disconnect, Connect, residence
<1>2. \A r \in Rooms : game[r] # {} => life[r] = "live" /\ clock[r] # "none"
  <2> SUFFICES ASSUME NEW r \in Rooms, game[r] # {}
               PROVE  life[r] = "live" /\ clock[r] # "none"
    OBVIOUS
  <2>1. state[r] # "idle" /\ life[r] = "live"
    BY GamesAreBusy
  <2>2. state[r] \in {"playing", "interrupted"}
    BY <2>1 DEF BookInv, BookTypes
  <2> QED
    BY <2>1, <2>2 DEF ClockInv, ClockFollowsState
<1>3. \/ UNCHANGED <<state, clock>>
      \/ \E r \in Rooms : /\ game[r] # {}
                          /\ state' = [state EXCEPT ![r] = "interrupted"]
                          /\ PauseClock(r)
      \/ \E r \in Rooms : /\ game[r] # {}
                          /\ state' = [state EXCEPT ![r] = "playing"]
                          /\ RestartClock(r)
  <2>1. CASE Disconnect(u)
    BY <2>1 DEF Disconnect, DropFromGame, DropAlone, DropWithCompany, play, BookInv, BookTypes
  <2>2. CASE Connect(u)
    BY <2>2 DEF Connect, Resume, Rejoin, CanResume, BookInv, BookTypes
  <2> QED
    BY <2>1, <2>2
<1>4. CASE UNCHANGED <<state, clock>>
  BY <1>1, <1>4 DEF ClockInv, ClockFollowsState
<1>5. ASSUME NEW r \in Rooms, game[r] # {},
             \/ state' = [state EXCEPT ![r] = "interrupted"] /\ PauseClock(r)
             \/ state' = [state EXCEPT ![r] = "playing"] /\ RestartClock(r)
      PROVE  ClockInv'
  BY <1>1, <1>2, <1>5
     DEF PauseClock, RestartClock, BookInv, BookTypes, ClockInv, ClockFollowsState
<1> QED
  BY <1>3, <1>4, <1>5

LEMMA QuietStepsKeepClock ==
  ASSUME ClockInv, UNCHANGED <<life, play>>
  PROVE  ClockInv'
BY DEF play, ClockInv, ClockFollowsState

LEMMA ClockStep ==
  ASSUME BookInv, ClockInv, [Next]_vars, [GracesExpireAtHome]_vars
  PROVE  ClockInv'
<1>1. CASE UNCHANGED vars
  BY <1>1, QuietStepsKeepClock DEF vars, residence
<1> SUFFICES ASSUME Next, GracesExpireAtHome
             PROVE  ClockInv'
  BY <1>1
<1>2. ASSUME NEW u \in Users, NEW r \in Rooms,
             \/ CreateRoom(u, r) \/ JoinRoom(u, r)
             \/ \E v \in Users : AcceptChallenge(u, v, r)
      PROVE  ClockInv'
  BY <1>2, ArrivalsKeepClock
<1>3. ASSUME NEW u \in Users,
             \/ \E s \in Seats : Sit(u, s)
             \/ UpdateSettings(u) \/ SitAgain(u) \/ Stand(u) \/ OpenWindow(u)
      PROVE  ClockInv'
  BY <1>3, QuietStepsKeepClock
     DEF Sit, UpdateSettings, SitAgain, Stand, OpenWindow, residence
<1>4. ASSUME NEW u \in Users, NEW v \in Users, Kick(u, v)
      PROVE  ClockInv'
  BY <1>4, DeparturesKeepClock
<1>5. ASSUME NEW u \in Users, BothReady(u)
      PROVE  ClockInv'
  <2>1. roomOf[u] \in Rooms /\ UNCHANGED life
    BY <1>5 DEF BothReady, ClickReady, InRoom, residence, BookInv, BookTypes
  <2>2. StartGame(roomOf[u]) \/ UNCHANGED play
    BY <1>5 DEF BothReady
  <2>3. life[roomOf[u]] # "unused"
    BY <2>1 DEF BookInv, SeatsAreSound, Members
  <2> QED
    BY <2>1, <2>2, <2>3, GamesKeepClock, QuietStepsKeepClock
<1>6. ASSUME NEW u \in Users, LeaveRoom(u) \/ DiscGraceExpires(u)
      PROVE  ClockInv'
  BY <1>6, DeparturesKeepClock
<1>7. ASSUME NEW u \in Users, PlayEnds(u)
      PROVE  ClockInv'
  <2>1. roomOf[u] \in Rooms
    BY <1>7 DEF PlayEnds, InRoom, BookInv, BookTypes
  <2> QED
    BY <1>7, <2>1, GamesKeepClock DEF PlayEnds
<1>8. ASSUME NEW u \in Users, Disconnect(u) \/ Connect(u)
      PROVE  ClockInv'
  BY <1>8, ConnectionsKeepClock
<1>9. ASSUME NEW u \in Users, EmptyGraceExpires(u)
      PROVE  ClockInv'
  <2>1. emptyGrace[u] \in Rooms /\ roomOf[u] \in {emptyGrace[u], None}
    BY <1>9 DEF EmptyGraceExpires, GracesExpireAtHome, BookInv, BookTypes
  <2> QED
    BY <1>9, <2>1, GraceKeepsClock DEF EmptyGraceExpires
<1>10. ASSUME NEW u \in Users, SpecGraceExpires(u)
       PROVE  ClockInv'
  <2>1. specGrace[u] \in Rooms /\ roomOf[u] \in {specGrace[u], None}
    BY <1>10 DEF SpecGraceExpires, GracesExpireAtHome, BookInv, BookTypes
  <2> QED
    BY <1>10, <2>1, GraceKeepsClock DEF SpecGraceExpires
<1>11. ASSUME NEW r \in Rooms, SeatCheck(r) \/ IdleSweep(r)
       PROVE  ClockInv'
  BY <1>11, DepartKeepsClock DEF SeatCheck, IdleSweep
<1>12. ASSUME NEW r \in Rooms, ReadyTimeout(r)
       PROVE  ClockInv'
  BY <1>12, QuietStepsKeepClock DEF ReadyTimeout, residence
<1>13. ASSUME NEW r \in Rooms, ClockTimeout(r)
       PROVE  ClockInv'
  BY <1>13, GamesKeepClock DEF ClockTimeout
<1>14. CASE OrphanSweep
  BY <1>14 DEF OrphanSweep, Assign, residence, BookInv, BookTypes, ClockInv, ClockFollowsState
<1> QED
  BY <1>2, <1>3, <1>4, <1>5, <1>6, <1>7, <1>8, <1>9, <1>10, <1>11, <1>12, <1>13, <1>14 DEF Next

\* While no grace period finds its user in another room, the clock of a room
\* runs exactly while a game is played there and stands still while it is
\* interrupted: startDisconnectGrace, cancelDisconnectGrace, handleGameEnd and
\* the clean-up of destroyed rooms never miss one another.
THEOREM ClockFollows == Spec /\ [][GracesExpireAtHome]_vars => []ClockFollowsState
<1>1. Init => BookInv /\ ClockInv
  BY BookInitInv, ClockInitInv
<1>2. BookInv /\ ClockInv /\ [Next]_vars /\ [GracesExpireAtHome]_vars => BookInv' /\ ClockInv'
  BY BookStep, ClockStep
<1>3. BookInv /\ ClockInv => ClockFollowsState
  BY DEF ClockInv
<1> QED
  BY <1>1, <1>2, <1>3, PTL DEF Spec

(***************************************************************************)
(* What a grace period that expires leaves behind.                         *)
(***************************************************************************)

\* With u go all the ghosts of r or, if somebody else counts there, u alone.
LEMMA ExpiryLeavesNoGhosts ==
  ASSUME BookInv, NEW u \in Users, NEW r \in Rooms, roomOf[u] = r, ExpireGrace(u, r),
         \/ emptyGrace' = [emptyGrace EXCEPT ![u] = None] /\ UNCHANGED specGrace
         \/ specGrace' = [specGrace EXCEPT ![u] = None] /\ UNCHANGED emptyGrace
  PROVE  ~Ghosts(r)'
<1> DEFINE leavers == LeaversWith(u, r)
<1>1. PICK gone, unwatched : Depart({}, leavers, gone, unwatched)
  BY DEF ExpireGrace
<1>2. /\ roomOf' = [v \in Users |-> IF v \in leavers THEN None ELSE roomOf[v]]
      /\ presence' = [v \in Users |-> IF v \in leavers THEN "active" ELSE presence[v]]
      /\ life' = [q \in Rooms |-> IF q \in Emptied(leavers) THEN "closed" ELSE life[q]]
      /\ game' = [q \in Rooms |-> IF q \in {} \cup Emptied(leavers) THEN {} ELSE game[q]]
  BY <1>1 DEF Depart, SettleGames, Assign, BookInv, BookTypes
<1>3. u \in Members(r) /\ u \in leavers /\ roomOf[u] # None
  BY NoneAssumption DEF Members, LeaversWith
<1>4. CASE Members(r) \subseteq leavers
  <2>1. r \in Emptied(leavers)
    BY <1>3, <1>4 DEF Emptied
  <2> QED
    BY <1>2, <2>1 DEF Ghosts
<1>5. CASE ~(Members(r) \subseteq leavers)
  <2>1. leavers = {u} /\ ~LastIn(u) /\ ~OnlyGhostsBut(u, r)
    BY <1>3, <1>5 DEF LeaversWith, LastIn
  <2>2. r \notin Emptied(leavers)
    BY <1>5 DEF Emptied
  <2>3. CASE game[r] # {}
    BY <1>2, <2>2, <2>3 DEF Ghosts
  <2>4. ASSUME NEW v \in Members(r) \ {u},
               ~(presence[v] = "disconnected" /\ emptyGrace[v] = None
                 /\ specGrace[v] = None /\ discGrace[v] = None)
        PROVE  ~Ghosts(r)'
    <3>1. v \in Users /\ v # u /\ v \in Members(r)'
      BY <1>2, <2>1, <2>4 DEF Members
    <3>2. /\ presence'[v] = presence[v] /\ emptyGrace'[v] = emptyGrace[v]
          /\ specGrace'[v] = specGrace[v] /\ discGrace'[v] = discGrace[v]
      BY <1>2, <2>1, <3>1 DEF ExpireGrace, BookInv, BookTypes
    <3> QED
      BY <2>4, <3>1, <3>2 DEF Ghosts
  <2> QED
    BY <2>1, <2>3, <2>4 DEF OnlyGhostsBut
<1> QED
  BY <1>4, <1>5

\* Among any users and rooms, an empty-room or spectator grace period that
\* expires leaves no room behind in which everybody is gone and nothing is left
\* to take them out: evictSpectator and reapGhostRoom see the same ghosts.
THEOREM GraceReapsGhosts == Spec => GraceLeavesNoGhosts
<1> DEFINE Reaped ==
      \A u \in Users : \A r \in Rooms :
        /\ \/ EmptyGraceExpires(u) /\ emptyGrace[u] = r
           \/ SpecGraceExpires(u) /\ specGrace[u] = r
        /\ roomOf[u] = r
        => ~Ghosts(r)'
<1>1. BookInv => Reaped
  BY ExpiryLeavesNoGhosts DEF EmptyGraceExpires, SpecGraceExpires
<1>2. BookInv /\ [Next]_vars => [Reaped]_vars
  BY <1>1
<1>3. Spec => [][Reaped]_vars
  BY <1>2, BookInvariance, PTL DEF Spec
<1> QED
  BY <1>3 DEF GraceLeavesNoGhosts

(***************************************************************************)
(* Members, join order and host of a room, and the types of everything.    *)
(* The misses stay below the limit because the seat that missed is found:  *)
(* while the countdown runs, one of the two has not clicked.               *)
(***************************************************************************)
OrderTypes ==
  /\ joinOrder \in [Rooms -> Seq(Users)]
  /\ host \in [Rooms -> Users \cup {None}]
  /\ misses \in [Rooms -> 0..2]
  /\ readyTimer \in [Rooms -> BOOLEAN]

Listed(order, members) ==
  /\ {order[i] : i \in 1..Len(order)} = members
  /\ \A i, j \in 1..Len(order) : order[i] = order[j] => i = j

MembersAreListed == \A r \in Rooms : Listed(joinOrder[r], Members(r))

HostsAreMembers == \A r \in Rooms : life[r] = "live" => host[r] \in Members(r)

WindowAwaitsAClick ==
  \A r \in Rooms : readyTimer[r] /\ BothSeated(r) => \E v \in Seated(r) : ~ready[v]

ResidenceInv == OrderTypes /\ MembersAreListed /\ HostsAreMembers /\ WindowAwaitsAClick

LEMMA ResidenceInitInv == Init => ResidenceInv
<1> SUFFICES ASSUME Init PROVE ResidenceInv
  OBVIOUS
<1>1. OrderTypes
  BY DEF Init, OrderTypes
<1>2. \A r \in Rooms : joinOrder[r] = << >> /\ Members(r) = {}
  BY NoneAssumption DEF Init, Members
<1>3. Len(<< >>) = 0 /\ 1..0 = {}
  OBVIOUS
<1>4. \A r \in Rooms : Listed(joinOrder[r], Members(r))
  BY <1>2, <1>3 DEF Listed
<1> QED
  BY <1>1, <1>4 DEF Init, ResidenceInv, MembersAreListed, HostsAreMembers, WindowAwaitsAClick

\* A list of the members counts them.
LEMMA ListedCounts ==
  ASSUME NEW order \in Seq(Users), NEW members, Listed(order, members)
  PROVE  Len(order) = Cardinality(members)
<1>1. Len(order) \in Nat /\ order \in [1..Len(order) -> members]
  <2>1. Len(order) \in Nat /\ DOMAIN order = 1..Len(order)
    OBVIOUS
  <2>2. order = [i \in 1..Len(order) |-> order[i]]
    OBVIOUS
  <2>3. \A i \in 1..Len(order) : order[i] \in members
    BY DEF Listed
  <2> QED
    BY <2>1, <2>2, <2>3
<1>2. order \in Injection(1..Len(order), members)
  BY <1>1 DEF Listed, Injection, IsInjective
<1>3. order \in Surjection(1..Len(order), members)
  BY <1>1 DEF Listed, Surjection
<1>4. ExistsBijection(1..Len(order), members)
  BY <1>2, <1>3 DEF ExistsBijection, Bijection
<1> QED
  BY <1>1, <1>4, FS_CountingElements

LEMMA ResidenceImplies == BookInv /\ ResidenceInv => RoomsWellFormed
<1> SUFFICES ASSUME BookInv, ResidenceInv PROVE RoomsWellFormed
  OBVIOUS
<1>1. TypeOK
  BY DEF TypeOK, BookInv, BookTypes, ResidenceInv, OrderTypes
<1>2. \A r \in Rooms : Len(joinOrder[r]) = Cardinality(Members(r))
  BY ListedCounts DEF ResidenceInv, OrderTypes, MembersAreListed
<1> QED
  BY <1>1, <1>2 DEF RoomsWellFormed, ResidenceInv, MembersAreListed, HostsAreMembers, Listed

\* Without those who leave, a list of the members lists who stays.
LEMMA ListedWithout ==
  ASSUME NEW order \in Seq(Users), NEW members, Listed(order, members), NEW leavers
  PROVE  /\ Without(order, leavers) \in Seq(Users)
         /\ Listed(Without(order, leavers), members \ leavers)
<1> DEFINE rest == Without(order, leavers)
<1>1. rest \in Seq(Users)
  BY WithoutEmbeds
<1>2. PICK at : /\ Embeds(at, rest, order)
                /\ \A k \in 1..Len(rest) : order[at[k]] \notin leavers
                /\ \A i \in 1..Len(order) : order[i] \notin leavers =>
                     \E k \in 1..Len(rest) : at[k] = i
  BY WithoutEmbeds
<1> HIDE DEF rest
<1>3. /\ \A k \in 1..Len(rest) : at[k] \in 1..Len(order) /\ rest[k] = order[at[k]]
      /\ \A k, l \in 1..Len(rest) : k < l => at[k] < at[l]
  BY <1>2 DEF Embeds
<1>4. {rest[k] : k \in 1..Len(rest)} = members \ leavers
  <2>1. ASSUME NEW k \in 1..Len(rest)
        PROVE  rest[k] \in members \ leavers
    BY <1>2, <1>3 DEF Listed
  <2>2. ASSUME NEW v \in members \ leavers
        PROVE  \E k \in 1..Len(rest) : rest[k] = v
    <3>1. PICK i \in 1..Len(order) : order[i] = v
      BY DEF Listed
    <3> QED
      BY <1>2, <1>3, <3>1
  <2> QED
    BY <2>1, <2>2
<1>5. \A k, l \in 1..Len(rest) : rest[k] = rest[l] => k = l
  <2> SUFFICES ASSUME NEW k \in 1..Len(rest), NEW l \in 1..Len(rest), rest[k] = rest[l], k # l
               PROVE  FALSE
    OBVIOUS
  <2>1. at[k] = at[l] /\ at[k] \in Nat /\ at[l] \in Nat
    BY <1>3 DEF Listed
  <2>2. k < l \/ l < k
    BY <1>1
  <2>3. at[k] < at[l] \/ at[l] < at[k]
    BY <1>3, <2>2
  <2> QED
    BY <2>1, <2>3
<1> QED
  BY <1>1, <1>4, <1>5 DEF Listed, rest

\* Whoever leaves, for whatever reason, is off the list, and the first of those
\* who stay takes over from a host who leaves.
LEMMA DepartKeepsResidence ==
  ASSUME BookInv, BookInv', ResidenceInv,
         NEW over, NEW leavers \in SUBSET Users, NEW unclocked, NEW unwatched,
         Depart(over, leavers, unclocked, unwatched)
  PROVE  ResidenceInv'
<1> DEFINE broken == PairsBroken(leavers)
<1>1. /\ roomOf' = [u \in Users |-> IF u \in leavers THEN None ELSE roomOf[u]]
      /\ slot' = [u \in Users |-> IF u \in leavers THEN 0 ELSE slot[u]]
      /\ ready' = [u \in Users |-> IF u \in leavers \/ roomOf[u] \in over \cup broken
                                   THEN FALSE ELSE ready[u]]
      /\ life' = [r \in Rooms |-> IF r \in Emptied(leavers) THEN "closed" ELSE life[r]]
  BY DEF Depart, Assign, BookInv, BookTypes
<1>2. /\ joinOrder' = [r \in Rooms |-> Without(joinOrder[r], leavers)]
      /\ host' = [r \in Rooms |-> NextHost(r, leavers)]
  BY DEF Depart, Staying
<1>3. /\ misses' = [r \in Rooms |-> IF r \in over \cup broken THEN 0 ELSE misses[r]]
      /\ readyTimer' = [r \in Rooms |-> IF r \in over \cup unwatched THEN FALSE ELSE readyTimer[r]]
  BY DEF Depart, Assign, ResidenceInv, OrderTypes
<1>4. \A r \in Rooms : Members(r)' = Members(r) \ leavers
  BY <1>1, NoneAssumption DEF Members
<1>5. ASSUME NEW r \in Rooms
      PROVE  /\ joinOrder'[r] \in Seq(Users)
             /\ Listed(joinOrder'[r], Members(r)')
             /\ joinOrder'[r] # << >> => Head(joinOrder'[r]) \in Members(r)'
  <2>1. joinOrder[r] \in Seq(Users) /\ Listed(joinOrder[r], Members(r))
    BY DEF ResidenceInv, OrderTypes, MembersAreListed
  <2>2. joinOrder'[r] = Without(joinOrder[r], leavers)
    BY <1>2
  <2>3. joinOrder'[r] \in Seq(Users) /\ Listed(joinOrder'[r], Members(r) \ leavers)
    BY <2>1, <2>2, ListedWithout
  <2>4. ASSUME joinOrder'[r] # << >>
        PROVE  Head(joinOrder'[r]) \in Members(r) \ leavers
    <3>1. Head(joinOrder'[r]) = joinOrder'[r][1] /\ 1 \in 1..Len(joinOrder'[r])
      BY <2>3, <2>4
    <3> QED
      BY <2>3, <3>1 DEF Listed
  <2> QED
    BY <1>4, <2>3, <2>4
<1>6. ASSUME NEW r \in Rooms
      PROVE  /\ host'[r] \in Users \cup {None}
             /\ life'[r] = "live" => host'[r] \in Members(r)'
  <2>1. host'[r] = IF joinOrder'[r] = << >> THEN None
                   ELSE IF host[r] \in leavers THEN Head(joinOrder'[r]) ELSE host[r]
    BY <1>2 DEF NextHost, Staying
  <2>2. host[r] \in Users \cup {None} /\ Members(r)' \subseteq Users
    BY <1>4 DEF ResidenceInv, OrderTypes, Members
  <2>3. host'[r] \in Users \cup {None}
    BY <1>5, <2>1, <2>2
  <2>4. ASSUME life'[r] = "live"
        PROVE  host'[r] \in Members(r)'
    <3>1. life[r] = "live" /\ r \notin Emptied(leavers)
      BY <1>1, <2>4
    <3>2. Members(r)' # {}
      BY <1>4, <3>1 DEF Emptied, BookInv, SeatsAreSound
    <3>3. joinOrder'[r] # << >>
      <4>1. Len(<< >>) = 0 /\ 1..0 = {}
        OBVIOUS
      <4> QED
        BY <1>5, <3>2, <4>1 DEF Listed
    <3>4. host[r] \in Members(r)
      BY <3>1 DEF ResidenceInv, HostsAreMembers
    <3> QED
      BY <1>4, <1>5, <2>1, <3>3, <3>4
  <2> QED
    BY <2>3, <2>4
<1>7. OrderTypes'
  <2>1. joinOrder' \in [Rooms -> Seq(Users)] /\ host' \in [Rooms -> Users \cup {None}]
    BY <1>2, <1>5, <1>6
  <2>2. misses' \in [Rooms -> 0..2]
    <3>1. \A r \in Rooms : misses'[r] \in 0..2
      BY <1>3 DEF ResidenceInv, OrderTypes
    <3> QED
      BY <1>3, <3>1
  <2>3. readyTimer' \in [Rooms -> BOOLEAN]
    <3>1. \A r \in Rooms : readyTimer'[r] \in BOOLEAN
      BY <1>3 DEF ResidenceInv, OrderTypes
    <3> QED
      BY <1>3, <3>1
  <2> QED
    BY <2>1, <2>2, <2>3 DEF OrderTypes
<1>8. WindowAwaitsAClick'
  <2> SUFFICES ASSUME NEW r \in Rooms, readyTimer'[r], BothSeated(r)'
               PROVE  \E v \in Seated(r)' : ~ready'[v]
    BY DEF WindowAwaitsAClick
  <2>1. readyTimer[r]
    BY <1>3
  <2>2. \A s \in Seats : \E v \in Members(r) : v \notin leavers /\ slot[v] = s
    BY <1>1, <1>4 DEF BothSeated, Members
  <2>3. PICK v \in Seated(r) : ~ready[v]
    BY <2>1, <2>2 DEF BothSeated, ResidenceInv, WindowAwaitsAClick
  <2>4. v \in Users /\ v \in Members(r) /\ slot[v] \in Seats
    BY <2>3 DEF Seated, Members, BookInv, BookTypes
  <2>5. v \notin leavers
    <3>1. PICK w \in Members(r) : w \notin leavers /\ slot[w] = slot[v]
      BY <2>2, <2>4
    <3>2. w \in Seated(r)
      BY <2>3, <3>1 DEF Seated
    <3>3. v = w
      BY <2>3, <3>1, <3>2 DEF BookInv, SeatsAreSound
    <3> QED
      BY <3>1, <3>3
  <2>6. v \in Seated(r)'
    BY <1>1, <1>4, <2>3, <2>4, <2>5 DEF Seated
  <2> QED
    BY <1>1, <2>3, <2>4, <2>6
<1> QED
  BY <1>5, <1>6, <1>7, <1>8 DEF ResidenceInv, MembersAreListed, HostsAreMembers

\* What leaves members, order and host alone, and the countdown of a room
\* running only if it was and somebody there has still to click.
LEMMA SettledResidence ==
  ASSUME ResidenceInv, UNCHANGED <<roomOf, life, joinOrder, host>>,
         misses' \in [Rooms -> 0..2], readyTimer' \in [Rooms -> BOOLEAN],
         \A r \in Rooms : readyTimer'[r] =>
           \/ \E v \in Seated(r)' : ~ready'[v]
           \/ ~BothSeated(r)'
           \/ /\ readyTimer[r]
              /\ \A v \in Members(r) : slot'[v] = slot[v] /\ (ready'[v] => ready[v])
  PROVE  ResidenceInv'
<1>1. \A r \in Rooms : Members(r)' = Members(r)
  BY DEF Members
<1>2. ASSUME NEW r \in Rooms, readyTimer'[r], BothSeated(r)'
      PROVE  \E v \in Seated(r)' : ~ready'[v]
  <2>1. CASE readyTimer[r] /\ \A v \in Members(r) : slot'[v] = slot[v] /\ (ready'[v] => ready[v])
    <3>1. BothSeated(r) /\ Seated(r)' = Seated(r) /\ Seated(r) \subseteq Members(r)
      BY <1>1, <1>2, <2>1 DEF BothSeated, Seated
    <3> QED
      BY <2>1, <3>1 DEF ResidenceInv, WindowAwaitsAClick
  <2> QED
    BY <1>2, <2>1
<1> QED
  BY <1>1, <1>2
     DEF ResidenceInv, OrderTypes, MembersAreListed, HostsAreMembers, WindowAwaitsAClick

LEMMA DeparturesKeepResidence ==
  ASSUME BookInv, BookInv', ResidenceInv, NEW u \in Users,
         \/ LeaveRoom(u) \/ EmptyGraceExpires(u) \/ SpecGraceExpires(u) \/ DiscGraceExpires(u)
         \/ \E v \in Users : Kick(u, v)
         \/ \E r \in Rooms : SeatCheck(r) \/ IdleSweep(r)
  PROVE  ResidenceInv'
<1>1. \A r \in Rooms : NeverCame(r) \in SUBSET Users /\ Members(r) \in SUBSET Users
  BY DEF NeverCame, Members, BookInv, BookTypes
<1>2. \A r : LeaversWith(u, r) \in SUBSET Users
  BY DEF LeaversWith, Members
<1>3. \E over, unclocked, unwatched : \E leavers \in SUBSET Users :
        Depart(over, leavers, unclocked, unwatched)
  <2>1. CASE LeaveRoom(u)
    BY <2>1 DEF LeaveRoom
  <2>2. CASE EmptyGraceExpires(u) \/ SpecGraceExpires(u)
    BY <1>2, <2>2 DEF EmptyGraceExpires, SpecGraceExpires, ExpireGrace
  <2>3. CASE DiscGraceExpires(u)
    <3>1. (IF roomOf[u] = None THEN {} ELSE {u}) \in SUBSET Users
      OBVIOUS
    <3> QED
      BY <2>3, <3>1 DEF DiscGraceExpires
  <2>4. CASE \E v \in Users : Kick(u, v)
    <3>1. \A v \in Users : {v} \in SUBSET Users
      OBVIOUS
    <3> QED
      BY <2>4, <3>1 DEF Kick
  <2>5. CASE \E r \in Rooms : SeatCheck(r) \/ IdleSweep(r)
    BY <1>1, <2>5 DEF SeatCheck, IdleSweep
  <2> QED
    BY <2>1, <2>2, <2>3, <2>4, <2>5
<1> QED
  BY <1>3, DepartKeepsResidence

\* One more name at the end of the list.
LEMMA ListedAppend ==
  ASSUME NEW order \in Seq(Users), NEW members, Listed(order, members),
         NEW u \in Users, u \notin members
  PROVE  /\ Append(order, u) \in Seq(Users)
         /\ Listed(Append(order, u), members \cup {u})
<1> DEFINE longer == Append(order, u)
<1>1. /\ longer \in Seq(Users) /\ Len(order) \in Nat /\ Len(longer) = Len(order) + 1
      /\ \A i \in 1..Len(order) : longer[i] = order[i]
      /\ longer[Len(order) + 1] = u
  OBVIOUS
<1> HIDE DEF longer
<1>2. \A i \in 1..Len(longer) : i \in 1..Len(order) \/ i = Len(order) + 1
  BY <1>1
<1>3. \A i \in 1..Len(order) : i \in 1..Len(longer)
  BY <1>1
<1>4. Len(order) + 1 \in 1..Len(longer)
  BY <1>1
<1>5. {longer[i] : i \in 1..Len(longer)} = members \cup {u}
  <2>1. ASSUME NEW i \in 1..Len(longer)
        PROVE  longer[i] \in members \cup {u}
    BY <1>1, <1>2 DEF Listed
  <2>2. ASSUME NEW v \in members \cup {u}
        PROVE  \E i \in 1..Len(longer) : longer[i] = v
    BY <1>1, <1>3, <1>4 DEF Listed
  <2> QED
    BY <2>1, <2>2
<1>6. \A i, j \in 1..Len(longer) : longer[i] = longer[j] => i = j
  BY <1>1, <1>2 DEF Listed
<1> QED
  BY <1>1, <1>5, <1>6 DEF Listed, longer

LEMMA EnteringKeepsResidence ==
  ASSUME BookInv, ResidenceInv, NEW u \in Users, NEW r \in Rooms,
         CreateRoom(u, r) \/ JoinRoom(u, r)
  PROVE  ResidenceInv'
<1>1. /\ roomOf[u] = None
      /\ roomOf' = [roomOf EXCEPT ![u] = r]
      /\ joinOrder' = [joinOrder EXCEPT ![r] = Append(@, u)]
      /\ UNCHANGED <<slot, ready, misses, readyTimer>>
  BY DEF CreateRoom, JoinRoom, Enter, window
<1>2. u \notin Members(r) /\ slot[u] = 0
  BY <1>1, NoneAssumption DEF Members, BookInv, SeatsAreSound
<1>3. \A q \in Rooms : Members(q)' = IF q = r THEN Members(q) \cup {u} ELSE Members(q)
  BY <1>1, NoneAssumption DEF Members, BookInv, BookTypes
<1>4. \A q \in Rooms : Seated(q)' = Seated(q) /\ (BothSeated(q)' => BothSeated(q))
  BY <1>1, <1>2, <1>3 DEF Seated, BothSeated, Seats
<1>5. ASSUME NEW q \in Rooms
      PROVE  joinOrder'[q] \in Seq(Users) /\ Listed(joinOrder'[q], Members(q)')
  <2>1. joinOrder[q] \in Seq(Users) /\ Listed(joinOrder[q], Members(q))
    BY DEF ResidenceInv, OrderTypes, MembersAreListed
  <2>2. joinOrder'[q] = IF q = r THEN Append(joinOrder[q], u) ELSE joinOrder[q]
    BY <1>1 DEF ResidenceInv, OrderTypes
  <2> QED
    BY <1>2, <1>3, <2>1, <2>2, ListedAppend
<1>6. joinOrder' \in [Rooms -> Seq(Users)]
  BY <1>1, <1>5 DEF ResidenceInv, OrderTypes
<1>7. host' \in [Rooms -> Users \cup {None}] /\ HostsAreMembers'
  <2>1. CASE CreateRoom(u, r)
    <3>1. /\ host' = [host EXCEPT ![r] = u]
          /\ life' = [life EXCEPT ![r] = "live"]
      BY <2>1 DEF CreateRoom
    <3> QED
      BY <1>3, <3>1 DEF ResidenceInv, OrderTypes, HostsAreMembers, BookInv, BookTypes
  <2>2. CASE JoinRoom(u, r)
    <3>1. UNCHANGED <<host, life>>
      BY <2>2 DEF JoinRoom
    <3> QED
      BY <1>3, <3>1 DEF ResidenceInv, OrderTypes, HostsAreMembers
  <2> QED
    BY <2>1, <2>2
<1>8. WindowAwaitsAClick'
  BY <1>1, <1>4 DEF ResidenceInv, WindowAwaitsAClick
<1> QED
  BY <1>1, <1>5, <1>6, <1>7, <1>8 DEF ResidenceInv, OrderTypes, MembersAreListed

LEMMA ChallengeKeepsResidence ==
  ASSUME BookInv, ResidenceInv, NEW u \in Users, NEW v \in Users, NEW r \in Rooms,
         AcceptChallenge(u, v, r)
  PROVE  ResidenceInv'
<1>1. /\ u # v /\ roomOf[u] = None /\ roomOf[v] = None /\ life[r] = "unused"
      /\ roomOf' = [w \in Users |-> IF w \in {u, v} THEN r ELSE roomOf[w]]
      /\ slot' = [slot EXCEPT ![u] = 1, ![v] = 2]
      /\ joinOrder' = [joinOrder EXCEPT ![r] = <<u, v>>]
      /\ life' = [life EXCEPT ![r] = "live"]
      /\ host' = [host EXCEPT ![r] = u]
      /\ UNCHANGED <<ready, misses, readyTimer>>
  BY DEF AcceptChallenge, Assign, window, BookInv, BookTypes
<1>2. Members(r) = {} /\ slot[u] = 0 /\ slot[v] = 0 /\ ~ready[u] /\ ~ready[v]
  BY <1>1 DEF BookInv, SeatsAreSound, ReadyAreSeated
<1>3. \A q \in Rooms : Members(q)' = IF q = r THEN {u, v} ELSE Members(q)
  BY <1>1, <1>2, NoneAssumption DEF Members, BookInv, BookTypes
<1>4. \A q \in Rooms \ {r} : u \notin Members(q) /\ v \notin Members(q)
  BY <1>1, NoneAssumption DEF Members
<1>5. \A q \in Rooms \ {r} : Seated(q)' = Seated(q) /\ (BothSeated(q)' => BothSeated(q))
  BY <1>1, <1>3, <1>4 DEF Seated, BothSeated, Members, BookInv, BookTypes
<1>6. <<u, v>> \in Seq(Users) /\ Listed(<<u, v>>, {u, v})
  <2>1. <<u, v>> \in Seq(Users) /\ Len(<<u, v>>) = 2 /\ 1..2 = {1, 2}
    OBVIOUS
  <2>2. <<u, v>>[1] = u /\ <<u, v>>[2] = v
    OBVIOUS
  <2> HIDE DEF Listed
  <2> QED
    BY <1>1, <2>1, <2>2 DEF Listed
<1>7. \A q \in Rooms : joinOrder'[q] = IF q = r THEN <<u, v>> ELSE joinOrder[q]
  BY <1>1 DEF ResidenceInv, OrderTypes
<1>8. MembersAreListed' /\ \A q \in Rooms : joinOrder'[q] \in Seq(Users)
  BY <1>3, <1>6, <1>7 DEF ResidenceInv, OrderTypes, MembersAreListed
<1>9. joinOrder' \in [Rooms -> Seq(Users)]
  BY <1>1, <1>8 DEF ResidenceInv, OrderTypes
<1>10. HostsAreMembers' /\ host' \in [Rooms -> Users \cup {None}]
  BY <1>1, <1>3 DEF ResidenceInv, OrderTypes, HostsAreMembers, BookInv, BookTypes
<1>11. WindowAwaitsAClick'
  <2>1. u \in Seated(r)'
    BY <1>1, <1>3 DEF Seated, BookInv, BookTypes
  <2> QED
    BY <1>1, <1>2, <1>5, <2>1 DEF ResidenceInv, WindowAwaitsAClick
<1> QED
  BY <1>1, <1>8, <1>9, <1>10, <1>11 DEF ResidenceInv, OrderTypes

\* What happens to the seats and clicks of one room, whose countdown ends.
LEMMA RoomStartsOver ==
  ASSUME BookInv, ResidenceInv, NEW r \in Rooms, UNCHANGED <<roomOf, life, joinOrder, host>>,
         misses' \in [Rooms -> 0..2],
         readyTimer' = [readyTimer EXCEPT ![r] = FALSE],
         \A v \in Users : roomOf[v] # r => slot'[v] = slot[v] /\ ready'[v] = ready[v]
  PROVE  ResidenceInv'
<1>1. \A q \in Rooms : readyTimer'[q] => q # r /\ readyTimer[q]
  BY DEF ResidenceInv, OrderTypes
<1>2. readyTimer' \in [Rooms -> BOOLEAN]
  BY DEF ResidenceInv, OrderTypes
<1>3. \A q \in Rooms \ {r} : \A v \in Members(q) : slot'[v] = slot[v] /\ ready'[v] = ready[v]
  BY DEF Members
<1> QED
  BY <1>1, <1>2, <1>3, SettledResidence

LEMMA SeatsKeepResidence ==
  ASSUME BookInv, ResidenceInv, NEW u \in Users,
         Stand(u) \/ SitAgain(u) \/ UpdateSettings(u) \/ \E s \in Seats : Sit(u, s)
  PROVE  ResidenceInv'
<1> DEFINE r == roomOf[u]
<1>1. r \in Rooms
  BY DEF Stand, SitAgain, UpdateSettings, Sit, InRoom, BookInv, BookTypes
<1>2. UNCHANGED <<roomOf, life, joinOrder, host>>
  BY DEF Stand, SitAgain, UpdateSettings, Sit, residence, entries
<1>3. readyTimer' = [readyTimer EXCEPT ![r] = FALSE]
  BY DEF Stand, SitAgain, UpdateSettings, Sit, ResetPair
<1>4. misses' = misses \/ misses' = [misses EXCEPT ![r] = 0]
  BY DEF Stand, SitAgain, UpdateSettings, Sit, ResetPair
<1>5. misses' \in [Rooms -> 0..2]
  BY <1>1, <1>4 DEF ResidenceInv, OrderTypes
<1>6. \A v \in Users : roomOf[v] # r => slot'[v] = slot[v] /\ ready'[v] = ready[v]
  <2>1. slot' = slot \/ \E s : slot' = [slot EXCEPT ![u] = s]
    BY DEF Stand, SitAgain, UpdateSettings, Sit, entries
  <2>2. \/ ready' = ready
        \/ ready' = Assign(ready, Members(r), FALSE)
        \/ ready' = Assign(ready, Seated(r), FALSE)
    BY DEF Stand, SitAgain, UpdateSettings, Sit, ResetPair, entries
  <2>3. \A v \in Users : roomOf[v] # r => v # u /\ v \notin Members(r) /\ v \notin Seated(r)
    BY DEF Members, Seated
  <2> QED
    BY <2>1, <2>2, <2>3 DEF Assign, BookInv, BookTypes
<1> HIDE DEF r
<1> QED
  BY <1>1, <1>2, <1>3, <1>5, <1>6, RoomStartsOver

LEMMA ClicksKeepResidence ==
  ASSUME BookInv, ResidenceInv, NEW u \in Users, OpenWindow(u) \/ BothReady(u)
  PROVE  ResidenceInv'
<1>1. PICK r \in Rooms : r = roomOf[u]
  BY DEF OpenWindow, BothReady, ClickReady, InRoom, BookInv, BookTypes
<1>2. UNCHANGED <<roomOf, slot, life, joinOrder, host>>
  BY DEF OpenWindow, BothReady, residence
<1>3. CASE OpenWindow(u)
  <2>1. /\ ready' = [ready EXCEPT ![u] = TRUE]
        /\ ~(BothSeated(r) /\ \A v \in Seated(r) : ready'[v])
        /\ misses' = misses
        /\ readyTimer' = [readyTimer EXCEPT ![r] = @ \/ BothSeated(r)]
    BY <1>1, <1>3 DEF OpenWindow
  <2>2. \A q \in Rooms : Members(q)' = Members(q) /\ Seated(q)' = Seated(q)
                         /\ BothSeated(q)' = BothSeated(q)
    BY <1>2 DEF Members, Seated, BothSeated
  <2>3. (\E v \in Seated(r)' : ~ready'[v]) \/ ~BothSeated(r)'
    BY <1>1, <2>1, <2>2
  <2>4. ASSUME NEW q \in Rooms \ {r}, readyTimer'[q]
        PROVE  readyTimer[q] /\ \A v \in Members(q) : slot'[v] = slot[v] /\ (ready'[v] => ready[v])
    BY <1>1, <1>2, <2>1, <2>4 DEF Members, ResidenceInv, OrderTypes, BookInv, BookTypes
  <2>5. misses' \in [Rooms -> 0..2]
    BY <2>1 DEF ResidenceInv, OrderTypes
  <2>6. readyTimer' \in [Rooms -> BOOLEAN]
    <3>1. \A q \in Rooms : readyTimer'[q] \in BOOLEAN
      BY <2>1 DEF ResidenceInv, OrderTypes, BothSeated
    <3> QED
      BY <2>1, <3>1 DEF ResidenceInv, OrderTypes
  <2> QED
    BY <1>2, <2>3, <2>4, <2>5, <2>6, SettledResidence
<1>4. CASE BothReady(u)
  <2>1. /\ misses' = [misses EXCEPT ![r] = 0]
        /\ readyTimer' = [readyTimer EXCEPT ![r] = FALSE]
        /\ ready' = Assign(ready, Members(r), FALSE) \/ ready' = [ready EXCEPT ![u] = TRUE]
    BY <1>1, <1>4 DEF BothReady, StartGame
  <2>2. misses' \in [Rooms -> 0..2]
    BY <1>1, <2>1 DEF ResidenceInv, OrderTypes
  <2>3. \A v \in Users : roomOf[v] # r => slot'[v] = slot[v] /\ ready'[v] = ready[v]
    BY <1>1, <1>2, <2>1 DEF Assign, Members, BookInv, BookTypes
  <2> QED
    BY <1>1, <1>2, <2>1, <2>2, <2>3, RoomStartsOver
<1> QED
  BY <1>3, <1>4

\* The miss that would be the third finds the seat that missed.
LEMMA TimeoutKeepsResidence ==
  ASSUME BookInv, ResidenceInv, NEW r \in Rooms, ReadyTimeout(r)
  PROVE  ResidenceInv'
<1>1. /\ readyTimer[r]
      /\ readyTimer' = [readyTimer EXCEPT ![r] = FALSE]
      /\ UNCHANGED <<roomOf, life, joinOrder, host>>
  BY DEF ReadyTimeout, residence
<1>2. CASE life[r] = "live" /\ state[r] # "playing" /\ BothSeated(r)
  <2> DEFINE kicked == IF misses[r] + 1 >= MissLimit THEN MissedBy(r) ELSE {}
  <2>1. /\ slot' = Assign(slot, kicked, 0)
        /\ ready' = Assign(ready, Seated(r), FALSE)
        /\ misses' = [misses EXCEPT ![r] = IF kicked # {} THEN 0 ELSE @ + 1]
    BY <1>2 DEF ReadyTimeout
  <2>2. \E v \in Seated(r) : ~ready[v]
    BY <1>1, <1>2 DEF ResidenceInv, WindowAwaitsAClick
  <2>3. MissedBy(r) # {}
    <3>1. \A v \in Seated(r) : slot[v] \in {1, 2}
      BY DEF Seated, Members, Seats, BookInv, BookTypes
    <3>2. CASE \E v \in Seated(r) : ~ready[v] /\ slot[v] = 1
      <4>1. PICK v \in Seated(r) : ~ready[v] /\ slot[v] = 1
        BY <3>2
      <4>2. \A w \in Seated(r) : slot[v] <= slot[w]
        BY <3>1, <4>1
      <4> QED
        BY <4>1, <4>2 DEF MissedBy
    <3>3. CASE ~\E v \in Seated(r) : ~ready[v] /\ slot[v] = 1
      <4>1. PICK v \in Seated(r) : ~ready[v]
        BY <2>2
      <4>2. \A w \in Seated(r) : ~ready[w] => slot[v] <= slot[w]
        BY <3>1, <3>3, <4>1
      <4> QED
        BY <4>1, <4>2 DEF MissedBy
    <3> QED
      BY <3>2, <3>3
  <2>4. misses[r] \in 0..2
    BY DEF ResidenceInv, OrderTypes
  <2>5. (IF kicked # {} THEN 0 ELSE misses[r] + 1) \in 0..2
    BY <2>3, <2>4 DEF MissLimit
  <2>6. kicked \subseteq Members(r) /\ Seated(r) \subseteq Members(r)
    BY DEF MissedBy, Seated
  <2> HIDE DEF kicked
  <2>7. misses' \in [Rooms -> 0..2]
    BY <2>1, <2>5 DEF ResidenceInv, OrderTypes
  <2>8. \A v \in Users : roomOf[v] # r => slot'[v] = slot[v] /\ ready'[v] = ready[v]
    BY <2>1, <2>6 DEF Assign, Members, BookInv, BookTypes
  <2> QED
    BY <1>1, <2>7, <2>8, RoomStartsOver
<1>3. CASE ~(life[r] = "live" /\ state[r] # "playing" /\ BothSeated(r))
  <2>1. UNCHANGED <<slot, ready, misses>>
    BY <1>3 DEF ReadyTimeout
  <2>2. misses' \in [Rooms -> 0..2]
    BY <2>1 DEF ResidenceInv, OrderTypes
  <2> QED
    BY <1>1, <2>1, <2>2, RoomStartsOver
<1> QED
  BY <1>2, <1>3

LEMMA EndsKeepResidence ==
  ASSUME BookInv, ResidenceInv, NEW r \in Rooms, GameEnds(r)
  PROVE  ResidenceInv'
<1>1. /\ misses' = [misses EXCEPT ![r] = 0]
      /\ readyTimer' = [readyTimer EXCEPT ![r] = FALSE]
      /\ ready' = Assign(ready, Members(r), FALSE)
      /\ UNCHANGED <<roomOf, slot, life, joinOrder, host>>
  BY DEF GameEnds, residence
<1>2. misses' \in [Rooms -> 0..2]
  BY <1>1 DEF ResidenceInv, OrderTypes
<1>3. \A v \in Users : roomOf[v] # r => slot'[v] = slot[v] /\ ready'[v] = ready[v]
  BY <1>1 DEF Assign, Members, BookInv, BookTypes
<1> QED
  BY <1>1, <1>2, <1>3, RoomStartsOver

LEMMA QuietStepsKeepResidence ==
  ASSUME ResidenceInv, UNCHANGED <<roomOf, slot, ready, residence, window>>
  PROVE  ResidenceInv'
BY DEF residence, window, ResidenceInv, OrderTypes, MembersAreListed, HostsAreMembers,
       WindowAwaitsAClick, BothSeated, Seated, Members

LEMMA ResidenceStep ==
  ASSUME BookInv, BookInv', ResidenceInv, [Next]_vars
  PROVE  ResidenceInv'
<1>1. CASE UNCHANGED vars
  BY <1>1, QuietStepsKeepResidence DEF vars, entries
<1>2. ASSUME NEW u \in Users, NEW r \in Rooms, CreateRoom(u, r) \/ JoinRoom(u, r)
      PROVE  ResidenceInv'
  BY <1>2, EnteringKeepsResidence
<1>3. ASSUME NEW u \in Users, NEW v \in Users, NEW r \in Rooms, AcceptChallenge(u, v, r)
      PROVE  ResidenceInv'
  BY <1>3, ChallengeKeepsResidence
<1>4. ASSUME NEW u \in Users,
             \/ LeaveRoom(u) \/ EmptyGraceExpires(u) \/ SpecGraceExpires(u)
             \/ DiscGraceExpires(u)
             \/ \E v \in Users : Kick(u, v)
      PROVE  ResidenceInv'
  BY <1>4, DeparturesKeepResidence
<1>5. ASSUME NEW r \in Rooms, SeatCheck(r) \/ IdleSweep(r)
      PROVE  ResidenceInv'
  <2>1. NeverCame(r) \in SUBSET Users /\ Members(r) \in SUBSET Users
    BY DEF NeverCame, Members, BookInv, BookTypes
  <2> QED
    BY <1>5, <2>1, DepartKeepsResidence DEF SeatCheck, IdleSweep
<1>6. ASSUME NEW u \in Users,
             Stand(u) \/ SitAgain(u) \/ UpdateSettings(u) \/ \E s \in Seats : Sit(u, s)
      PROVE  ResidenceInv'
  BY <1>6, SeatsKeepResidence
<1>7. ASSUME NEW u \in Users, OpenWindow(u) \/ BothReady(u)
      PROVE  ResidenceInv'
  BY <1>7, ClicksKeepResidence
<1>8. ASSUME NEW r \in Rooms, ReadyTimeout(r)
      PROVE  ResidenceInv'
  BY <1>8, TimeoutKeepsResidence
<1>9. ASSUME NEW u \in Users, PlayEnds(u)
      PROVE  ResidenceInv'
  <2>1. roomOf[u] \in Rooms
    BY <1>9 DEF PlayEnds, InRoom, BookInv, BookTypes
  <2> QED
    BY <1>9, <2>1, EndsKeepResidence DEF PlayEnds
<1>10. ASSUME NEW r \in Rooms, ClockTimeout(r)
       PROVE  ResidenceInv'
  BY <1>10, EndsKeepResidence DEF ClockTimeout
<1>11. ASSUME NEW u \in Users, Disconnect(u) \/ Connect(u)
       PROVE  ResidenceInv'
  BY <1>11, QuietStepsKeepResidence DEF Disconnect, Connect
<1>12. CASE OrphanSweep
  BY <1>12, QuietStepsKeepResidence DEF OrphanSweep, entries
<1> QED
  BY <1>1, <1>2, <1>3, <1>4, <1>5, <1>6, <1>7, <1>8, <1>9, <1>10, <1>11, <1>12 DEF Next

\* Whoever comes, goes, is kicked, evicted, reaped or swept away: the join order
\* of every room lists its members, each once, and a room that exists is hosted
\* by one of them.  RoomManager's joinOrder and host are kept by hand next to
\* room.users on every one of these paths.
THEOREM RoomsStayWellFormed == Spec => []RoomsWellFormed
<1>1. Init => BookInv /\ ResidenceInv
  BY BookInitInv, ResidenceInitInv
<1>2. BookInv /\ ResidenceInv /\ [Next]_vars => BookInv' /\ ResidenceInv'
  BY BookStep, ResidenceStep
<1>3. BookInv /\ ResidenceInv => RoomsWellFormed
  BY ResidenceImplies
<1> QED
  BY <1>1, <1>2, <1>3, PTL DEF Spec

=============================================================================
