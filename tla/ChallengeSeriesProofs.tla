----------------------- MODULE ChallengeSeriesProofs -----------------------
(***************************************************************************)
(* Proofs about ChallengeSeries.  That every rated result is counted once  *)
(* is not inductive: a game waits in its series before it is in a job, and *)
(* a job before it is counted, and each of the places a game can be in     *)
(* excludes the others.  An open series cannot get lost with the room      *)
(* because its host is Ann: only her own leaving would change that, and it *)
(* closes the series.                                                      *)
(*                                                                         *)
(* The handlers are built from a few operators on a room and a queue of    *)
(* jobs; each of these is shown to keep the account, whatever it is called *)
(* from.                                                                   *)
(***************************************************************************)
EXTENDS ChallengeSeries, SubsequenceProofs, TLAPS

\* Results are in the order of their games.
InOrder(rs) ==
  /\ rs \in Seq(Results)
  /\ Len(rs) <= MaxGames
  /\ \A i \in 1..Len(rs) : rs[i].id = i

\* The games that wait in the series of a room.
Waiting(r) == IF r # None /\ r.series # None THEN {x.id : x \in Range(r.series.games)} ELSE {}

\* The users of a room, and the players among them.
Peopled(r) ==
  /\ r.users # <<>> /\ IsInjective(r.users)
  /\ {r.seats[1], r.seats[2]} \subseteq Range(r.users) \cup {None}
  /\ r.seats[1] = r.seats[2] => r.seats[1] = None
  /\ r.game # None => r.game.players \subseteq Range(r.users)

\* An open series has its host, and its rating is what the room was set to.
SeriesStands(r) ==
  r.series # None =>
    /\ r.users[1] = Ann
    /\ r.series.rated = r.ranked
    /\ r.game # None => r.game.ranked = r.ranked

\* Where a game of results rs is: lost, waiting in the series, in one job or
\* counted, and before its end nowhere.
Placed(st, rs, g) ==
  LET uses  == counted[g] + Jobs(st.pending, g)
      waits == g \in Waiting(st.room)
  IN  /\ uses \in {0, 1}
      /\ g \in lost => uses = 0 /\ ~waits
      /\ waits => uses = 0
      /\ g > Len(rs) => uses = 0 /\ ~waits /\ g \notin lost
      /\ g <= Len(rs) =>
           /\ waits => rs[g].rated = st.room.series.rated
           /\ rs[g].rated /\ rs[g].saved /\ g \notin lost /\ ~waits => uses = 1
           /\ ~rs[g].rated => uses = 0

Accounted(st, rs) ==
  /\ st \in [room : Rooms \cup {None}, pending : Seq(Job)]
  /\ st.room # None => Peopled(st.room) /\ SeriesStands(st.room)
  /\ \A g \in GameIds : Placed(st, rs, g)

\* The game that is on is the next to have a result.
GameIsNext == room # None /\ room.game # None => room.game.id = Len(results) + 1

SeriesInv ==
  /\ counted \in [GameIds -> Nat] /\ lost \subseteq GameIds
  /\ InOrder(results)
  /\ Accounted(State, results)
  /\ GameIsNext

-----------------------------------------------------------------------------

LEMMA JobsCount ==
  ASSUME NEW jobs \in Seq(Job), NEW g
  PROVE  /\ Jobs(jobs, g) \in Nat
         /\ Jobs(jobs, g) # 0 <=> \E i \in DOMAIN jobs : g \in jobs[i].games
<1> DEFINE I == {i \in DOMAIN jobs : g \in jobs[i].games}
<1>1. I \in SUBSET (1..Len(jobs)) /\ Len(jobs) \in Nat
  OBVIOUS
<1>2. IsFiniteSet(I)
  BY <1>1, FS_Interval, FS_Subset
<1>3. Cardinality(I) \in Nat /\ (Cardinality(I) = 0 <=> I = {})
  <2> HIDE DEF I
  <2> QED
    BY <1>2, FS_CardinalityType, FS_EmptySet
<1> QED
  BY <1>3 DEF Jobs

LEMMA NoJobs == \A g : Jobs(<<>>, g) = 0
<1> SUFFICES ASSUME NEW g PROVE Jobs(<<>>, g) = 0
  OBVIOUS
<1>1. <<>> \in Seq(Job) /\ DOMAIN <<>> = {}
  OBVIOUS
<1> QED
  BY <1>1, JobsCount

LEMMA JobsAppend ==
  ASSUME NEW jobs \in Seq(Job), NEW job \in Job, NEW g
  PROVE  Jobs(Append(jobs, job), g) = Jobs(jobs, g) + IF g \in job.games THEN 1 ELSE 0
<1> DEFINE n    == Len(jobs)
           more == Append(jobs, job)
           I    == {i \in DOMAIN jobs : g \in jobs[i].games}
           J    == {i \in DOMAIN more : g \in more[i].games}
<1>1. /\ n \in Nat /\ DOMAIN jobs = 1..n /\ DOMAIN more = 1..(n + 1)
      /\ more[n + 1] = job /\ \A i \in 1..n : more[i] = jobs[i]
  OBVIOUS
<1>2. I \in SUBSET (1..n) /\ n + 1 \notin I
  BY <1>1
<1>3. IsFiniteSet(I)
  <2>1. IsFiniteSet(1..n)
    BY <1>1, FS_Interval
  <2> HIDE DEF I, n
  <2> QED
    BY <1>2, <2>1, FS_Subset
<1>4. J = IF g \in job.games THEN I \cup {n + 1} ELSE I
  <2> HIDE DEF more, n
  <2>1. \A i \in 1..(n + 1) : i = n + 1 \/ i \in 1..n
    BY <1>1
  <2>2. n + 1 \in 1..(n + 1) /\ \A i \in 1..n : i \in 1..(n + 1)
    BY <1>1
  <2>3. \A i \in J : i \in I \/ (i = n + 1 /\ g \in job.games)
    BY <1>1, <2>1
  <2>4. \A i \in I : i \in J
    BY <1>1, <2>2
  <2>5. g \in job.games => n + 1 \in J
    BY <1>1, <2>2
  <2> HIDE DEF I, J
  <2> QED
    BY <2>3, <2>4, <2>5
<1> HIDE DEF I, J
<1>5. Cardinality(I \cup {n + 1}) = Cardinality(I) + 1
  BY <1>2, <1>3, FS_AddElement
<1>6. Cardinality(I) \in Nat
  BY <1>3, FS_CardinalityType
<1>7. Jobs(more, g) = Cardinality(J) /\ Jobs(jobs, g) = Cardinality(I)
  BY DEF Jobs, I, J
<1> QED
  BY <1>4, <1>5, <1>6, <1>7

\* Whoever goes, the others stay in their order.
LEMMA RestProperties ==
  ASSUME NEW us \in Seq(Users), IsInjective(us), NEW S
  PROVE  /\ Without(us, S) \in Seq(Users)
         /\ IsInjective(Without(us, S))
         /\ Range(Without(us, S)) = Range(us) \ S
         /\ us # <<>> /\ us[1] \notin S => Without(us, S) # <<>> /\ Without(us, S)[1] = us[1]
<1> DEFINE r == Without(us, S)
<1>1. /\ r \in Seq(Users)
      /\ \E at : /\ Embeds(at, r, us)
                 /\ \A k \in 1..Len(r) : us[at[k]] \notin S
                 /\ \A i \in 1..Len(us) : us[i] \notin S => \E k \in 1..Len(r) : at[k] = i
  BY WithoutEmbeds
<1> HIDE DEF r
<1>2. PICK at : /\ Embeds(at, r, us)
                /\ \A k \in 1..Len(r) : us[at[k]] \notin S
                /\ \A i \in 1..Len(us) : us[i] \notin S => \E k \in 1..Len(r) : at[k] = i
  BY <1>1
<1>3. /\ DOMAIN r = 1..Len(r) /\ Len(r) \in Nat /\ DOMAIN us = 1..Len(us) /\ Len(us) \in Nat
      /\ at \in [1..Len(r) -> 1..Len(us)]
      /\ \A k \in 1..Len(r) : r[k] = us[at[k]]
      /\ \A k, l \in 1..Len(r) : k < l => at[k] < at[l]
  BY <1>1, <1>2 DEF Embeds
<1>4. IsInjective(r)
  <2> SUFFICES ASSUME NEW k \in 1..Len(r), NEW l \in 1..Len(r), r[k] = r[l]
               PROVE  k = l
    BY <1>3 DEF IsInjective
  <2>1. at[k] = at[l]
    BY <1>3 DEF IsInjective
  <2>2. ~(k < l) /\ ~(l < k)
    BY <1>3, <2>1
  <2> QED
    BY <1>3, <2>2
<1>5. Range(r) = Range(us) \ S
  <2>1. \A x \in Range(r) : x \in Range(us) \ S
    BY <1>2, <1>3 DEF Range
  <2>2. \A x \in Range(us) \ S : x \in Range(r)
    BY <1>2, <1>3 DEF Range
  <2> QED
    BY <2>1, <2>2
<1>6. ASSUME us # <<>>, us[1] \notin S
      PROVE  r # <<>> /\ r[1] = us[1]
  <2>1. 1 \in 1..Len(us)
    BY <1>3, <1>6
  <2>2. PICK k \in 1..Len(r) : at[k] = 1
    BY <1>2, <1>6, <2>1
  <2>3. k = 1
    <3> SUFFICES ASSUME k # 1 PROVE FALSE
      OBVIOUS
    <3>1. 1 \in 1..Len(r) /\ 1 < k
      BY <1>3
    <3>2. at[1] \in 1..Len(us) /\ at[1] < at[k]
      BY <1>3, <3>1
    <3> QED
      BY <2>2, <3>2
  <2> QED
    BY <1>3, <2>2, <2>3
<1> QED
  BY <1>1, <1>4, <1>5, <1>6 DEF r

-----------------------------------------------------------------------------

LEMMA GameIdsAreNumbers == GameIds \subseteq Nat /\ MaxGames \in Nat
BY ChallengeSeriesAssumption DEF GameIds

LEMMA InOneJob ==
  ASSUME NEW st, NEW rs, NEW g, counted[g] + Jobs(st.pending, g) = 1,
         g \notin Waiting(st.room), g \notin lost,
         g \in Nat, Len(rs) \in Nat, g <= Len(rs), rs[g].rated
  PROVE  Placed(st, rs, g)
<1>1. ~(g > Len(rs))
  OBVIOUS
<1> QED
  BY <1>1 DEF Placed

\* A series that closes takes its games to a job, or none of them is rated.
LEMMA FinishKeeps ==
  ASSUME NEW st, NEW rs, Accounted(st, rs), st.room # None,
         counted \in [GameIds -> Nat], Len(rs) \in Nat
  PROVE  /\ Accounted(FinishSeries(st), rs)
         /\ FinishSeries(st).room = [st.room EXCEPT !.series = None]
         /\ FinishSeries(st).room # None
<1> DEFINE r    == st.room
           s    == r.series
           bare == [r EXCEPT !.series = None]
           job  == RatingJob(s)
           next == FinishSeries(st)
           queues == s # None /\ s.rated /\ s.games # <<>>
<1>1. /\ r \in Rooms /\ st.pending \in Seq(Job) /\ s \in Series \cup {None}
      /\ Peopled(r) /\ SeriesStands(r)
  BY DEF Accounted, Rooms
<1>2. next = [room |-> bare, pending |-> IF queues THEN Append(st.pending, job) ELSE st.pending]
  BY DEF FinishSeries
<1>3. bare \in Rooms /\ bare # None
  <2>1. bare \in Rooms
    BY <1>1 DEF Rooms
  <2> QED
    BY <2>1, ChallengeSeriesAssumption
<1>4. Peopled(bare) /\ SeriesStands(bare) /\ Waiting(bare) = {}
  <2>1. /\ bare.users = r.users /\ bare.seats = r.seats /\ bare.game = r.game
        /\ bare.series = None
    BY <1>1 DEF Rooms
  <2> HIDE DEF bare
  <2> QED
    BY <1>1, <2>1 DEF Peopled, SeriesStands, Waiting
<1>5. s # None => job \in Job /\ job.games = Waiting(r)
  <2> SUFFICES ASSUME s # None PROVE job \in Job /\ job.games = Waiting(r)
    OBVIOUS
  <2>1. s \in Series /\ s.games \in Seq([id : GameIds, winner : Winners])
    BY <1>1 DEF Series
  <2>2. \A x \in Range(s.games) : x.id \in GameIds
    <3> SUFFICES ASSUME NEW i \in DOMAIN s.games PROVE s.games[i].id \in GameIds
      BY DEF Range
    <3> DEFINE T == [id : GameIds, winner : Winners]
    <3>1. s.games \in Seq(T)
      BY <2>1
    <3>2. s.games[i] \in T
      <4> HIDE DEF s, T
      <4> QED
        BY <3>1
    <3> QED
      BY <3>2
  <2>3. job = [games |-> {x.id : x \in Range(s.games)},
               staked |-> s.stake = "swap" /\ Wins(s, Ann) # Wins(s, Bob)]
    BY DEF RatingJob
  <2> QED
    BY <2>2, <2>3 DEF Job, Waiting
<1> HIDE DEF bare, job
<1>6. next \in [room : Rooms \cup {None}, pending : Seq(Job)]
  BY <1>1, <1>2, <1>3, <1>5
<1>7. ASSUME NEW g \in GameIds
      PROVE  Placed(next, rs, g)
  <2>1. Placed(st, rs, g) /\ g \in Nat /\ counted[g] \in Nat
    BY GameIdsAreNumbers DEF Accounted
  <2>2. Jobs(st.pending, g) \in Nat
    BY <1>1, JobsCount
  <2> HIDE DEF next
  <2>6. next.room = bare /\ g \notin Waiting(next.room)
    BY <1>2, <1>4
  <2>3. CASE queues /\ g \in Waiting(r)
    <3>1. next.pending = Append(st.pending, job) /\ g \in job.games /\ job \in Job
      BY <1>2, <1>5, <2>3
    <3>2. Jobs(next.pending, g) = Jobs(st.pending, g) + 1
      BY <1>1, <3>1, JobsAppend
    <3>3. counted[g] + Jobs(st.pending, g) = 0 /\ g \notin lost /\ g <= Len(rs) /\ rs[g].rated
      <4>1. counted[g] + Jobs(st.pending, g) = 0 /\ g \notin lost
        BY <2>1, <2>3 DEF Placed
      <4>2. g <= Len(rs)
        BY <2>1, <2>3 DEF Placed
      <4>3. rs[g].rated = s.rated
        BY <2>1, <2>3, <4>2 DEF Placed
      <4> QED
        BY <2>3, <4>1, <4>2, <4>3
    <3>4. counted[g] + Jobs(next.pending, g) = 1
      BY <2>1, <2>2, <3>2, <3>3
    <3> QED
      BY <2>1, <2>6, <3>3, <3>4, InOneJob
  <2>4. CASE queues /\ g \notin Waiting(r)
    <3>1. next.pending = Append(st.pending, job) /\ g \notin job.games /\ job \in Job
      BY <1>2, <1>5, <2>4
    <3>2. Jobs(next.pending, g) = Jobs(st.pending, g)
      BY <1>1, <2>2, <3>1, JobsAppend
    <3> QED
      BY <2>1, <2>2, <2>4, <2>6, <3>2 DEF Placed
  <2>5. CASE ~queues
    <3>1. next.pending = st.pending /\ next.room = bare
      BY <1>2, <2>5
    <3>2. g \in Waiting(r) => ~s.rated
      BY <2>5 DEF Waiting, Range
    <3> QED
      BY <1>4, <2>1, <2>2, <3>1, <3>2 DEF Placed
  <2> QED
    BY <2>3, <2>4, <2>5
<1> HIDE DEF next
<1>8. next.room = bare
  BY <1>2
<1>9. Accounted(next, rs)
  BY <1>3, <1>4, <1>6, <1>7, <1>8 DEF Accounted
<1> QED
  BY <1>3, <1>8, <1>9 DEF next, bare

\* Whoever goes takes no games along: Ann's going has closed the series, and
\* while it is open she is there.
LEMMA DepartKeeps ==
  ASSUME NEW st, NEW rs, Accounted(st, rs), st.room # None, NEW u \in Users,
         u = Ann => st.room.series = None,
         st.room.game # None => u \notin st.room.game.players
  PROVE  /\ Accounted(Departed(st, u), rs)
         /\ Departed(st, u).room # None => Departed(st, u).room.game = st.room.game
<1> DEFINE r    == st.room
           rest == Without(r.users, {u})
           next == Departed(st, u)
           left == [r EXCEPT !.users = rest,
                             !.seats = [i \in 1..2 |-> IF r.seats[i] = u THEN None ELSE r.seats[i]]]
<1>1. /\ st \in [room : Rooms \cup {None}, pending : Seq(Job)]
      /\ r \in Rooms /\ Peopled(r) /\ SeriesStands(r)
      /\ \A g \in GameIds : Placed(st, rs, g)
  BY DEF Accounted
<1>2. /\ r.users \in Seq(Users) /\ r.seats \in [1..2 -> Users \cup {None}]
      /\ r.users # <<>> /\ IsInjective(r.users)
  BY <1>1 DEF Rooms, Peopled
<1>3. /\ rest \in Seq(Users) /\ IsInjective(rest) /\ Range(rest) = Range(r.users) \ {u}
      /\ r.users[1] \notin {u} => rest # <<>> /\ rest[1] = r.users[1]
  BY <1>2, RestProperties
<1> HIDE DEF rest
<1>4. next = IF rest = <<>> THEN [room |-> None, pending |-> st.pending]
             ELSE [room |-> left, pending |-> st.pending]
  <2>1. next = [st EXCEPT !.room = IF rest = <<>> THEN None ELSE left]
    BY Zenon DEF Departed, rest
  <2> HIDE DEF next, left
  <2> QED
    BY <1>1, <2>1
<1>5. CASE rest = <<>>
  <2>1. next.room = None /\ next.pending = st.pending
        /\ next \in [room : Rooms \cup {None}, pending : Seq(Job)]
    BY <1>1, <1>4, <1>5
  <2>2. r.series = None
    <3> SUFFICES ASSUME r.series # None PROVE FALSE
      OBVIOUS
    <3>1. r.users[1] = Ann /\ u # Ann
      BY <1>1 DEF SeriesStands
    <3> QED
      BY <1>3, <1>5, <3>1
  <2>3. Waiting(r) = {} /\ Waiting(next.room) = {}
    BY <2>1, <2>2 DEF Waiting
  <2> HIDE DEF next
  <2>4. \A g \in GameIds : Placed(next, rs, g)
    BY <1>1, <2>1, <2>3 DEF Placed
  <2>5. Accounted(next, rs)
    BY <2>1, <2>4 DEF Accounted
  <2> QED
    BY <2>1, <2>5 DEF next
<1>6. CASE rest # <<>>
  <2>1. next.room = left /\ next.pending = st.pending
    BY <1>4, <1>6
  <2>2. /\ left.users = rest /\ left.game = r.game /\ left.series = r.series /\ left.ranked = r.ranked
        /\ left.seats = [i \in 1..2 |-> IF r.seats[i] = u THEN None ELSE r.seats[i]]
    BY <1>1 DEF Rooms
  <2>3. left \in Rooms
    BY <1>1, <1>2, <1>3 DEF Rooms
  <2>4. left # None /\ next \in [room : Rooms \cup {None}, pending : Seq(Job)]
    BY <1>1, <1>4, <1>6, <2>3, ChallengeSeriesAssumption
  <2> HIDE DEF left, next
  <2>5. \A i \in 1..2 : left.seats[i] = None \/ (left.seats[i] = r.seats[i] /\ r.seats[i] # u)
    BY <2>2
  <2>6. Peopled(left)
    <3>1. left.users # <<>> /\ IsInjective(left.users)
      BY <1>3, <1>6, <2>2
    <3>2. {left.seats[1], left.seats[2]} \subseteq Range(left.users) \cup {None}
      BY <1>1, <1>3, <2>2, <2>5 DEF Peopled
    <3>3. left.seats[1] = left.seats[2] => left.seats[1] = None
      BY <1>1, <2>5 DEF Peopled
    <3>4. left.game # None => left.game.players \subseteq Range(left.users)
      BY <1>1, <1>3, <2>2 DEF Peopled
    <3> QED
      BY <3>1, <3>2, <3>3, <3>4 DEF Peopled
  <2>7. SeriesStands(left)
    BY <1>1, <1>3, <2>2 DEF SeriesStands
  <2>8. Waiting(left) = Waiting(r)
    BY <1>1, <2>2, <2>4 DEF Waiting
  <2>9. \A g \in GameIds : Placed(next, rs, g)
    BY <1>1, <2>1, <2>2, <2>8 DEF Placed
  <2>10. Accounted(next, rs)
    BY <2>1, <2>4, <2>6, <2>7, <2>9 DEF Accounted
  <2> QED
    BY <2>1, <2>2, <2>10 DEF next
<1> QED
  BY <1>5, <1>6

LEMMA LeaveKeeps ==
  ASSUME NEW st, NEW rs, Accounted(st, rs), st.room # None, NEW u \in Users,
         counted \in [GameIds -> Nat], Len(rs) \in Nat,
         st.room.game # None => u \notin st.room.game.players
  PROVE  /\ Accounted(LeaveRoom(st, u), rs)
         /\ LeaveRoom(st, u).room # None => LeaveRoom(st, u).room.game = st.room.game
<1>1. CASE u \in Pair
  <2> DEFINE closed == FinishSeries(st)
  <2>1. /\ Accounted(closed, rs)
        /\ closed.room = [st.room EXCEPT !.series = None]
        /\ closed.room # None
    BY FinishKeeps
  <2>2. closed.room.series = None /\ closed.room.game = st.room.game
    <3>1. st.room \in Rooms
      BY DEF Accounted
    <3> HIDE DEF closed
    <3> QED
      BY <2>1, <3>1 DEF Rooms
  <2>3. LeaveRoom(st, u) = Departed(closed, u)
    BY <1>1 DEF LeaveRoom
  <2> HIDE DEF closed
  <2>4. closed.room.game # None => u \notin closed.room.game.players
    BY <2>2
  <2>5. /\ Accounted(Departed(closed, u), rs)
        /\ Departed(closed, u).room # None => Departed(closed, u).room.game = closed.room.game
    BY <2>1, <2>2, <2>4, DepartKeeps
  <2> QED
    BY <2>2, <2>3, <2>5
<1>2. CASE u \notin Pair
  <2>1. LeaveRoom(st, u) = Departed(st, u)
    BY <1>2 DEF LeaveRoom
  <2> QED
    BY <1>2, <2>1, DepartKeeps DEF Pair
<1> QED
  BY <1>1, <1>2

\* A room that is idle again, its series closed if it is decided.
LEMMA GameOverKeeps ==
  ASSUME NEW st, NEW rs, Accounted(st, rs), st.room # None,
         counted \in [GameIds -> Nat], Len(rs) \in Nat
  PROVE  /\ Accounted(GameOver(st), rs)
         /\ GameOver(st).room # None
         /\ GameOver(st).room.game = None
<1> DEFINE r    == st.room
           bare == [r EXCEPT !.game = None]
           idle == [st EXCEPT !.room.game = None]
<1>1. /\ st \in [room : Rooms \cup {None}, pending : Seq(Job)]
      /\ r \in Rooms /\ Peopled(r) /\ SeriesStands(r)
      /\ \A g \in GameIds : Placed(st, rs, g)
  BY DEF Accounted
<1>2. idle = [room |-> bare, pending |-> st.pending]
  BY <1>1
<1>3. bare \in Rooms /\ bare # None
  <2>1. bare \in Rooms
    BY <1>1 DEF Rooms
  <2> QED
    BY <2>1, ChallengeSeriesAssumption
<1>4. /\ bare.users = r.users /\ bare.seats = r.seats /\ bare.series = r.series
      /\ bare.ranked = r.ranked /\ bare.game = None
  BY <1>1 DEF Rooms
<1> HIDE DEF bare
<1>5. idle \in [room : Rooms \cup {None}, pending : Seq(Job)] /\ idle.room = bare /\ idle.pending = st.pending
  BY <1>1, <1>2, <1>3
<1>6. GameOver(st) = idle \/ GameOver(st) = FinishSeries(idle)
  BY DEF GameOver
<1> HIDE DEF idle
<1>7. Peopled(bare) /\ SeriesStands(bare) /\ Waiting(bare) = Waiting(r)
  BY <1>1, <1>3, <1>4 DEF Peopled, SeriesStands, Waiting
<1>8. \A g \in GameIds : Placed(idle, rs, g)
  BY <1>1, <1>4, <1>5, <1>7 DEF Placed
<1>9. Accounted(idle, rs)
  BY <1>5, <1>7, <1>8 DEF Accounted
<1>10. /\ Accounted(FinishSeries(idle), rs)
       /\ FinishSeries(idle).room = [bare EXCEPT !.series = None]
       /\ FinishSeries(idle).room # None
  BY <1>3, <1>5, <1>9, FinishKeeps
<1>11. [bare EXCEPT !.series = None].game = None
  BY <1>3, <1>4 DEF Rooms
<1> QED
  BY <1>3, <1>4, <1>5, <1>6, <1>9, <1>10, <1>11

\* A job and the games of a series that were there before the result of game n
\* keep their places, if the account of n itself is right.
LEMMA ResultAdded ==
  ASSUME NEW rs, InOrder(rs), NEW res \in Results, res.id = Len(rs) + 1, Len(rs) < MaxGames
  PROVE  /\ InOrder(Append(rs, res))
         /\ Len(Append(rs, res)) = Len(rs) + 1
         /\ Append(rs, res)[Len(rs) + 1] = res
         /\ \A i \in 1..Len(rs) : Append(rs, res)[i] = rs[i]
<1> DEFINE n == Len(rs)
           more == Append(rs, res)
<1>1. /\ n \in Nat /\ more \in Seq(Results) /\ Len(more) = n + 1
      /\ more[n + 1] = res /\ \A i \in 1..n : more[i] = rs[i]
  BY DEF InOrder
<1>2. \A i \in 1..(n + 1) : i = n + 1 \/ i \in 1..n
  BY <1>1
<1>3. InOrder(more)
  BY <1>1, <1>2, GameIdsAreNumbers DEF InOrder
<1> QED
  BY <1>1, <1>3

\* The result of the game that is on goes to the series of its room, or closes
\* it and goes to the rating queue by itself.
LEMMA RecordedKeeps ==
  ASSUME NEW st, NEW rs, InOrder(rs), Accounted(st, rs), st.room # None,
         counted \in [GameIds -> Nat],
         st.room.game # None, st.room.game.id = Len(rs) + 1,
         NEW winner \in Winners, NEW saved \in BOOLEAN, NEW res,
         res = [id |-> st.room.game.id, rated |-> st.room.game.ranked, saved |-> saved]
  PROVE  /\ Accounted(Recorded(st, winner, saved), Append(rs, res))
         /\ Recorded(st, winner, saved).room # None
         /\ InOrder(Append(rs, res))
<1> DEFINE r    == st.room
           g    == r.game
           n    == Len(rs)
           more == Append(rs, res)
           next == Recorded(st, winner, saved)
<1>1. /\ st \in [room : Rooms \cup {None}, pending : Seq(Job)]
      /\ r \in Rooms /\ Peopled(r) /\ SeriesStands(r)
      /\ \A k \in GameIds : Placed(st, rs, k)
  BY DEF Accounted
<1>2. g \in Games /\ g.id \in GameIds /\ g.ranked \in BOOLEAN
  BY <1>1 DEF Rooms, Games
<1>3. n \in Nat /\ n + 1 = g.id /\ n < MaxGames /\ res \in Results
  BY <1>2, GameIdsAreNumbers DEF InOrder, GameIds, Results
<1>4. /\ InOrder(more)
      /\ Len(more) = n + 1
      /\ more[n + 1] = res
      /\ \A i \in 1..n : more[i] = rs[i]
  BY <1>3, ResultAdded
<1> HIDE DEF more, n
<1>5. \A k \in GameIds : k = n + 1 \/ k \in 1..n \/ k > n + 1
  BY <1>3, GameIdsAreNumbers DEF GameIds
<1>6. CASE InSeries(r)
  <2> DEFINE x == [id |-> g.id, winner |-> winner]
             s == [r.series EXCEPT !.games = Append(r.series.games, x)]
             room2 == [r EXCEPT !.series = s]
  <2>1. r.series \in Series /\ r.series # None
    BY <1>1, <1>6 DEF InSeries, Rooms
  <2>2. next = [room |-> room2, pending |-> st.pending]
    BY <1>1, <1>6, <2>1 DEF Recorded, Rooms, Series
  <2>3. /\ r.series.games \in Seq([id : GameIds, winner : Winners])
        /\ x \in [id : GameIds, winner : Winners]
    BY <1>2, <2>1 DEF Series
  <2>4. /\ s \in Series /\ s.games = Append(r.series.games, x) /\ s.rated = r.series.rated
    <3> DEFINE T == [id : GameIds, winner : Winners]
               more2 == Append(r.series.games, x)
    <3>1. more2 \in Seq(T)
      <4> HIDE DEF T, x
      <4> QED
        BY <2>3 DEF T
    <3>2. s = [r.series EXCEPT !.games = more2]
      OBVIOUS
    <3> HIDE DEF more2, s
    <3>3. s \in Series /\ s.games = more2 /\ s.rated = r.series.rated
      BY <2>1, <3>1, <3>2 DEF Series
    <3> QED
      BY <3>3 DEF more2
  <2>5. Range(s.games) = Range(r.series.games) \cup {x}
    <3> DEFINE old == r.series.games
    <3>1. /\ Len(old) \in Nat /\ DOMAIN old = 1..Len(old) /\ DOMAIN s.games = 1..(Len(old) + 1)
          /\ s.games[Len(old) + 1] = x /\ \A i \in 1..Len(old) : s.games[i] = old[i]
      BY <2>3, <2>4
    <3> HIDE DEF old, s, x
    <3>2. \A i \in 1..(Len(old) + 1) : i = Len(old) + 1 \/ i \in 1..Len(old)
      BY <3>1
    <3>3. Len(old) + 1 \in 1..(Len(old) + 1) /\ \A i \in 1..Len(old) : i \in 1..(Len(old) + 1)
      BY <3>1
    <3>4. \A y \in Range(s.games) : y \in Range(old) \cup {x}
      BY <3>1, <3>2 DEF Range
    <3>5. \A y \in Range(old) \cup {x} : y \in Range(s.games)
      BY <3>1, <3>3 DEF Range
    <3> QED
      BY <3>4, <3>5 DEF old
  <2> HIDE DEF s
  <2>6. /\ room2 \in Rooms
        /\ room2.users = r.users /\ room2.seats = r.seats /\ room2.game = g
        /\ room2.ranked = r.ranked /\ room2.series = s
    BY <1>1, <2>4 DEF Rooms
  <2>7. room2 # None /\ s # None
    BY <2>4, <2>6, ChallengeSeriesAssumption
  <2> HIDE DEF room2
  <2>8. Peopled(room2) /\ SeriesStands(room2)
    BY <1>1, <2>1, <2>4, <2>6 DEF Peopled, SeriesStands
  <2>9. Waiting(room2) = Waiting(r) \cup {n + 1}
    <3>1. Waiting(room2) = {y.id : y \in Range(r.series.games) \cup {x}}
      BY <2>5, <2>6, <2>7 DEF Waiting
    <3>2. Waiting(r) = {y.id : y \in Range(r.series.games)}
      BY <1>1, <2>1, ChallengeSeriesAssumption DEF Waiting
    <3>3. x.id = n + 1
      BY <1>3
    <3> HIDE DEF x
    <3> QED
      BY <3>1, <3>2, <3>3
  <2>10. r.series.rated = g.ranked
    BY <1>1, <2>1 DEF SeriesStands
  <2>11. next.room = room2 /\ next.pending = st.pending
         /\ next \in [room : Rooms \cup {None}, pending : Seq(Job)]
    BY <1>1, <2>2, <2>6
  <2> HIDE DEF next
  <2>12. ASSUME NEW k \in GameIds
         PROVE  Placed(next, more, k)
    <3>1. Placed(st, rs, k) /\ counted[k] \in Nat /\ Jobs(st.pending, k) \in Nat /\ k \in Nat
      BY <1>1, JobsCount, GameIdsAreNumbers
    <3>2. CASE k = n + 1
      <4>1. counted[k] + Jobs(st.pending, k) = 0 /\ k \notin lost
        BY <1>3, <3>1, <3>2 DEF Placed, n
      <4>2. more[k].rated = s.rated
        BY <1>4, <2>4, <2>10, <3>2
      <4> QED
        BY <1>3, <1>4, <2>6, <2>9, <2>11, <3>1, <3>2, <4>1, <4>2 DEF Placed
    <3>3. CASE k \in 1..n
      <4>1. more[k] = rs[k] /\ k <= n /\ k <= n + 1 /\ ~(k > n + 1) /\ k # n + 1
        BY <1>3, <1>4, <3>3
      <4> QED
        BY <1>4, <2>4, <2>6, <2>9, <2>11, <3>1, <4>1 DEF Placed, n
    <3>4. CASE k > n + 1
      <4>1. k > n /\ ~(k <= n + 1) /\ k # n + 1
        BY <1>3, <3>1, <3>4
      <4> QED
        BY <1>4, <2>9, <2>11, <3>1, <3>4, <4>1 DEF Placed, n
    <3> QED
      BY <1>5, <3>2, <3>3, <3>4
  <2>13. Accounted(next, more)
    BY <2>8, <2>11, <2>12 DEF Accounted
  <2> QED
    BY <1>4, <2>7, <2>11, <2>13 DEF next, more
<1>7. CASE ~InSeries(r)
  <2> DEFINE before == FinishSeries(st)
             alone  == [games |-> {g.id}, staked |-> FALSE]
  <2>1. /\ Accounted(before, rs)
        /\ before.room = [r EXCEPT !.series = None]
        /\ before.room # None
    BY <1>3, FinishKeeps DEF n
  <2>2. next = IF g.ranked /\ saved THEN [before EXCEPT !.pending = Append(before.pending, alone)] ELSE before
    BY <1>7 DEF Recorded
  <2> HIDE DEF before
  <2>3. /\ before \in [room : Rooms \cup {None}, pending : Seq(Job)]
        /\ Peopled(before.room) /\ SeriesStands(before.room)
        /\ \A k \in GameIds : Placed(before, rs, k)
    BY <2>1 DEF Accounted
  <2>4. Waiting(before.room) = {}
    BY <1>1, <2>1 DEF Rooms, Waiting
  <2>5. alone \in Job /\ alone.games = {n + 1}
    BY <1>2, <1>3 DEF Job
  <2>6. next \in [room : Rooms \cup {None}, pending : Seq(Job)] /\ next.room = before.room
    <3> HIDE DEF next, alone
    <3>1. Append(before.pending, alone) \in Seq(Job)
      BY <2>3, <2>5
    <3> QED
      BY <2>2, <2>3, <3>1
  <2>7. next.pending = IF g.ranked /\ saved THEN Append(before.pending, alone) ELSE before.pending
    BY <2>2, <2>3
  <2> HIDE DEF next, alone
  <2>8. ASSUME NEW k \in GameIds
        PROVE  Placed(next, more, k)
    <3>1. /\ Placed(before, rs, k) /\ counted[k] \in Nat /\ k \in Nat
          /\ Jobs(before.pending, k) \in Nat
      BY <2>3, JobsCount, GameIdsAreNumbers
    <3>2. k # n + 1 => Jobs(next.pending, k) = Jobs(before.pending, k)
      BY <2>3, <2>5, <2>7, <3>1, JobsAppend
    <3>3. CASE k = n + 1
      <4>1. counted[k] + Jobs(before.pending, k) = 0 /\ k \notin lost
        BY <1>3, <3>1, <3>3 DEF Placed, n
      <4>2. more[k].rated = g.ranked /\ more[k].saved = saved
        BY <1>4, <3>3
      <4>3. CASE g.ranked /\ saved
        <5>1. Jobs(next.pending, k) = Jobs(before.pending, k) + 1
          BY <2>3, <2>5, <2>7, <3>3, <4>3, JobsAppend
        <5>2. counted[k] + Jobs(next.pending, k) = 1
          BY <3>1, <4>1, <5>1
        <5>3. k \notin Waiting(next.room) /\ Len(more) \in Nat /\ k <= Len(more) /\ more[k].rated
          BY <1>3, <1>4, <2>4, <2>6, <3>3, <4>2, <4>3
        <5> QED
          BY <3>1, <4>1, <5>2, <5>3, InOneJob
      <4>4. CASE ~(g.ranked /\ saved)
        <5>1. next.pending = before.pending
          BY <2>7, <4>4
        <5> QED
          BY <1>3, <1>4, <2>4, <2>6, <3>1, <3>3, <4>1, <4>2, <4>4, <5>1 DEF Placed
      <4> QED
        BY <4>3, <4>4
    <3>4. CASE k \in 1..n
      <4>1. more[k] = rs[k] /\ k <= n /\ k <= n + 1 /\ ~(k > n + 1) /\ k # n + 1
        BY <1>3, <1>4, <3>4
      <4> QED
        BY <1>4, <2>4, <2>6, <3>1, <3>2, <4>1 DEF Placed, n
    <3>5. CASE k > n + 1
      <4>1. k > n /\ ~(k <= n + 1) /\ k # n + 1
        BY <1>3, <3>1, <3>5
      <4> QED
        BY <1>4, <2>4, <2>6, <3>1, <3>2, <3>5, <4>1 DEF Placed, n
    <3> QED
      BY <1>5, <3>3, <3>4, <3>5
  <2>9. Accounted(next, more)
    BY <2>3, <2>6, <2>8 DEF Accounted
  <2> QED
    BY <1>4, <2>1, <2>6, <2>9 DEF next, more
<1> QED
  BY <1>6, <1>7

-----------------------------------------------------------------------------

\* A handler that ends with a room and a queue that are accounted for.
LEMMA Becoming ==
  ASSUME SeriesInv, NEW st, NEW rs, Accounted(st, rs), InOrder(rs), Becomes(st), results' = rs,
         st.room # None /\ st.room.game # None => st.room.game.id = Len(rs) + 1,
         UNCHANGED <<counted, lost>>
  PROVE  SeriesInv'
<1>1. State' = st
  BY DEF Accounted, Becomes, State
<1>2. Accounted(State, results)'
  BY <1>1 DEF Accounted, Placed, Peopled, SeriesStands, Waiting, Jobs
<1>3. GameIsNext'
  BY DEF GameIsNext, Becomes
<1> QED
  BY <1>2, <1>3 DEF SeriesInv, InOrder

\* A room that changes while its series stays.
LEMMA RoomChanges ==
  ASSUME SeriesInv, NEW r \in Rooms, Peopled(r), SeriesStands(r),
         Waiting(r) = Waiting(room), Waiting(r) # {} => r.series = room.series,
         r.game # None => r.game.id = Len(results) + 1,
         room' = r, UNCHANGED <<results, pending, counted, lost>>
  PROVE  SeriesInv'
<1> DEFINE st == [room |-> r, pending |-> pending]
<1>1. /\ pending \in Seq(Job) /\ State.room = room /\ State.pending = pending
      /\ \A g \in GameIds : Placed(State, results, g)
  BY DEF SeriesInv, Accounted, State
<1>2. \A g \in GameIds : Placed(st, results, g)
  BY <1>1 DEF Placed
<1>3. Accounted(st, results)
  BY <1>1, <1>2 DEF Accounted
<1>4. Becomes(st)
  BY DEF Becomes
<1> QED
  BY <1>3, <1>4, Becoming DEF SeriesInv

\* What the invariant says of the room.
LEMMA RoomFacts ==
  ASSUME SeriesInv
  PROVE  /\ State.room = room /\ State.pending = pending
         /\ room \in Rooms \cup {None} /\ pending \in Seq(Job)
         /\ room # None => Peopled(room) /\ SeriesStands(room)
         /\ results \in Seq(Results) /\ Len(results) \in Nat /\ Len(results) <= MaxGames
         /\ Waiting(None) = {}
BY DEF SeriesInv, Accounted, State, InOrder, Waiting

LEMMA AcceptKeeps ==
  ASSUME SeriesInv, NEW n \in Totals, NEW stake \in {"none", "swap"}, NEW ranked \in BOOLEAN,
         AcceptChallenge(n, stake, ranked)
  PROVE  SeriesInv'
<1> DEFINE s == [total |-> n, stake |-> stake, rated |-> ranked, games |-> <<>>]
           t == IF n = 1 /\ stake = "none" THEN None ELSE s
           r == [users |-> <<Ann, Bob>>, seats |-> <<Ann, Bob>>, ranked |-> ranked,
                 game |-> None, series |-> t]
<1>1. room = None /\ room' = r /\ UNCHANGED <<results, pending, counted, lost>>
  BY DEF AcceptChallenge
<1>2. Ann # Bob /\ Ann \in Users /\ Bob \in Users /\ None \notin {Ann, Bob}
  <2>1. Ann # Bob
    <3> SUFFICES ASSUME Ann = Bob PROVE FALSE
      OBVIOUS
    <3>1. {Ann, Bob, Eve} = {Ann, Eve}
      OBVIOUS
    <3>2. Cardinality({Ann, Eve}) <= 2
      <4>1. IsFiniteSet({Ann}) /\ Cardinality({Ann}) = 1
        BY FS_Singleton
      <4>2. Cardinality({Ann} \cup {Eve}) \in {1, 2}
        BY <4>1, FS_AddElement
      <4>3. {Ann, Eve} = {Ann} \cup {Eve}
        OBVIOUS
      <4> HIDE DEF s, t, r
      <4> QED
        BY <4>2, <4>3
    <3> QED
      BY <3>1, <3>2, ChallengeSeriesAssumption
  <2> QED
    BY <2>1, ChallengeSeriesAssumption DEF Users
<1>3. s \in Series
  BY DEF Series
<1>4. t \in Series \cup {None} /\ (t # None => t = s)
  BY <1>3
<1> HIDE DEF t
<1>5. r \in Rooms
  <2>1. <<Ann, Bob>> \in Seq(Users) /\ <<Ann, Bob>> \in [1..2 -> Users \cup {None}]
    BY <1>2
  <2> QED
    BY <1>4, <2>1 DEF Rooms
<1>6. Peopled(r)
  <2>1. DOMAIN <<Ann, Bob>> = {1, 2} /\ Range(<<Ann, Bob>>) = {Ann, Bob}
    BY DEF Range
  <2>2. IsInjective(<<Ann, Bob>>)
    BY <1>2, <2>1 DEF IsInjective
  <2> QED
    BY <1>2, <2>1, <2>2 DEF Peopled
<1>7. SeriesStands(r)
  BY <1>4 DEF SeriesStands
<1>8. Waiting(r) = {}
  <2>1. Range(<<>>) = {}
    BY DEF Range
  <2> QED
    BY <1>4, <2>1 DEF Waiting
<1> HIDE DEF r
<1>9. Waiting(room) = {} /\ (r.game # None => r.game.id = Len(results) + 1)
  BY <1>1, RoomFacts DEF r
<1> QED
  BY <1>1, <1>5, <1>6, <1>7, <1>8, <1>9, RoomChanges

LEMMA JoinKeeps ==
  ASSUME SeriesInv, NEW u \in Users, Join(u)
  PROVE  SeriesInv'
<1> DEFINE old == room.users
           more == Append(old, u)
           r == [room EXCEPT !.users = more]
<1>1. /\ room # None /\ u \notin Range(old) /\ room' = r
      /\ UNCHANGED <<results, pending, counted, lost>>
  BY DEF Join
<1>2. room \in Rooms /\ Peopled(room) /\ SeriesStands(room) /\ old \in Seq(Users)
  BY <1>1, RoomFacts DEF Rooms
<1>3. /\ Len(old) \in Nat /\ DOMAIN old = 1..Len(old) /\ DOMAIN more = 1..(Len(old) + 1)
      /\ more[Len(old) + 1] = u /\ \A i \in 1..Len(old) : more[i] = old[i]
      /\ more \in Seq(Users)
  BY <1>2
<1>4. \A i \in 1..(Len(old) + 1) : i = Len(old) + 1 \/ i \in 1..Len(old)
  BY <1>3
<1> HIDE DEF more
<1>5. /\ r \in Rooms
      /\ r.users = more /\ r.seats = room.seats /\ r.game = room.game
      /\ r.series = room.series /\ r.ranked = room.ranked
  BY <1>2, <1>3 DEF Rooms
<1> HIDE DEF r, old
<1>6. IsInjective(more)
  BY <1>1, <1>2, <1>3, <1>4 DEF IsInjective, Peopled, Range, old
<1>7. Range(old) \subseteq Range(more) /\ more # <<>>
  <2>1. \A i \in 1..Len(old) : i \in DOMAIN more
    BY <1>3
  <2>2. 1 \in DOMAIN more
    BY <1>3
  <2> QED
    BY <1>3, <2>1, <2>2 DEF Range
<1>8. Peopled(r)
  BY <1>2, <1>5, <1>6, <1>7 DEF Peopled, old
<1>9. SeriesStands(r)
  <2>1. more[1] = old[1]
    <3>1. old # <<>>
      BY <1>2 DEF Peopled, old
    <3>2. 1 \in 1..Len(old)
      BY <1>2, <1>3, <3>1
    <3> QED
      BY <1>3, <3>2
  <2> QED
    BY <1>2, <1>5, <2>1 DEF SeriesStands, old
<1>10. Waiting(r) = Waiting(room)
  BY <1>1, <1>5, ChallengeSeriesAssumption DEF Waiting
<1>11. r.game # None => r.game.id = Len(results) + 1
  BY <1>1, <1>5 DEF SeriesInv, GameIsNext
<1> QED
  BY <1>1, <1>5, <1>8, <1>9, <1>10, <1>11, RoomChanges

\* Nobody has two seats.
LEMMA SeatsKeep ==
  ASSUME SeriesInv, Idle, NEW seats \in [1..2 -> Users \cup {None}],
         {seats[1], seats[2]} \subseteq Range(room.users) \cup {None},
         seats[1] = seats[2] => seats[1] = None,
         room' = [room EXCEPT !.seats = seats], UNCHANGED <<results, pending, counted, lost>>
  PROVE  SeriesInv'
<1> DEFINE r == [room EXCEPT !.seats = seats]
<1>1. room # None /\ room.game = None
  BY DEF Idle
<1>2. room \in Rooms /\ Peopled(room) /\ SeriesStands(room)
  BY <1>1, RoomFacts
<1>3. /\ r \in Rooms
      /\ r.users = room.users /\ r.seats = seats /\ r.game = None
      /\ r.series = room.series /\ r.ranked = room.ranked
  BY <1>1, <1>2 DEF Rooms
<1>4. room' = r
  OBVIOUS
<1> HIDE DEF r
<1>5. Peopled(r) /\ SeriesStands(r)
  BY <1>2, <1>3 DEF Peopled, SeriesStands
<1>6. Waiting(r) = Waiting(room)
  BY <1>1, <1>3, ChallengeSeriesAssumption DEF Waiting
<1> QED
  BY <1>3, <1>4, <1>5, <1>6, RoomChanges

LEMMA SitKeeps ==
  ASSUME SeriesInv, NEW u \in Users, NEW s \in 1..2, Sit(u, s)
  PROVE  SeriesInv'
<1> DEFINE seats == [i \in 1..2 |-> IF i = s THEN u ELSE IF room.seats[i] = u THEN None ELSE room.seats[i]]
<1>1. /\ Idle /\ room # None /\ u \in Range(room.users)
      /\ room' = [room EXCEPT !.seats = seats]
      /\ UNCHANGED <<results, pending, counted, lost>>
  BY DEF Sit, Idle
<1>2. room \in Rooms /\ Peopled(room) /\ room.seats \in [1..2 -> Users \cup {None}]
  BY <1>1, RoomFacts DEF Rooms
<1>3. seats \in [1..2 -> Users \cup {None}]
  BY <1>2
<1>4. {seats[1], seats[2]} \subseteq Range(room.users) \cup {None}
  BY <1>1, <1>2 DEF Peopled
<1>5. seats[1] = seats[2] => seats[1] = None
  <2>1. s = 1 \/ s = 2
    OBVIOUS
  <2>2. u # None
    BY ChallengeSeriesAssumption
  <2> QED
    BY <2>1, <2>2
<1> HIDE DEF seats
<1> QED
  BY <1>1, <1>3, <1>4, <1>5, SeatsKeep

LEMMA StandKeeps ==
  ASSUME SeriesInv, NEW s \in 1..2, Stand(s)
  PROVE  SeriesInv'
<1> DEFINE seats == [room.seats EXCEPT ![s] = None]
<1>1. /\ Idle /\ room # None /\ UNCHANGED <<results, pending, counted, lost>>
      /\ room' = [room EXCEPT !.seats[s] = None]
  BY DEF Stand, Idle
<1>2. room \in Rooms /\ Peopled(room) /\ room.seats \in [1..2 -> Users \cup {None}]
  BY <1>1, RoomFacts DEF Rooms
<1>3. seats \in [1..2 -> Users \cup {None}]
  BY <1>2
<1>4. {seats[1], seats[2]} \subseteq Range(room.users) \cup {None}
  BY <1>2 DEF Peopled
<1>5. seats[1] = seats[2] => seats[1] = None
  <2>1. s = 1 \/ s = 2
    OBVIOUS
  <2> QED
    BY <1>2, <2>1 DEF Peopled
<1>6. room' = [room EXCEPT !.seats = seats]
  BY <1>1
<1> HIDE DEF seats
<1> QED
  BY <1>1, <1>3, <1>4, <1>5, <1>6, SeatsKeep

LEMMA ToggleKeeps ==
  ASSUME SeriesInv, ToggleRanked
  PROVE  SeriesInv'
<1> DEFINE r == [room EXCEPT !.ranked = ~room.ranked]
<1>1. /\ room # None /\ room.game = None /\ room.series = None
      /\ room' = r /\ UNCHANGED <<results, pending, counted, lost>>
  BY DEF ToggleRanked, Idle
<1>2. room \in Rooms /\ Peopled(room)
  BY <1>1, RoomFacts
<1>3. /\ r \in Rooms
      /\ r.users = room.users /\ r.seats = room.seats /\ r.game = None /\ r.series = None
  BY <1>1, <1>2 DEF Rooms
<1> HIDE DEF r
<1>4. Peopled(r) /\ SeriesStands(r) /\ Waiting(r) = Waiting(room)
  BY <1>1, <1>2, <1>3 DEF Peopled, SeriesStands, Waiting
<1> QED
  BY <1>1, <1>3, <1>4, RoomChanges DEF Waiting

LEMMA StartKeeps ==
  ASSUME SeriesInv, StartGame
  PROVE  SeriesInv'
<1> DEFINE g == [id |-> Len(results) + 1, ranked |-> room.ranked,
                 players |-> {room.seats[1], room.seats[2]}]
           r == [room EXCEPT !.game = g]
<1>1. /\ room # None /\ room.game = None /\ None \notin {room.seats[1], room.seats[2]}
      /\ Len(results) < MaxGames
      /\ room' = r /\ UNCHANGED <<results, pending, counted, lost>>
  BY DEF StartGame, Idle
<1>2. /\ room \in Rooms /\ Peopled(room) /\ SeriesStands(room)
      /\ room.seats \in [1..2 -> Users \cup {None}] /\ room.ranked \in BOOLEAN
  BY <1>1, RoomFacts DEF Rooms
<1>3. g \in Games
  <2>1. Len(results) + 1 \in GameIds
    BY <1>1, RoomFacts, GameIdsAreNumbers DEF GameIds
  <2>2. /\ g.players \in SUBSET Users
        /\ room.seats[1] # room.seats[2]
    BY <1>1, <1>2 DEF Peopled
  <2>3. g.players \in {S \in SUBSET Users : \E u, v \in S : u # v /\ S = {u, v}}
    BY <2>2
  <2> QED
    BY <1>2, <2>1, <2>3 DEF Games
<1>4. g.players \subseteq Range(room.users) /\ g.ranked = room.ranked /\ g.id = Len(results) + 1
  BY <1>1, <1>2 DEF Peopled
<1> HIDE DEF g
<1>5. /\ r \in Rooms
      /\ r.users = room.users /\ r.seats = room.seats /\ r.game = g
      /\ r.series = room.series /\ r.ranked = room.ranked
  BY <1>2, <1>3 DEF Rooms
<1> HIDE DEF r
<1>6. Peopled(r) /\ SeriesStands(r)
  BY <1>2, <1>4, <1>5 DEF Peopled, SeriesStands
<1>7. Waiting(r) = Waiting(room)
  BY <1>1, <1>5, ChallengeSeriesAssumption DEF Waiting
<1> QED
  BY <1>1, <1>4, <1>5, <1>6, <1>7, RoomChanges

\* Somebody who is put out is not the host, so that Ann stays.
LEMMA KickKeeps ==
  ASSUME SeriesInv, NEW u \in Users, Kick(u)
  PROVE  SeriesInv'
<1> DEFINE st == Departed(State, u)
<1>1. /\ room # None /\ room.game = None /\ u # Head(room.users)
      /\ room' = st.room /\ UNCHANGED <<results, pending, counted, lost>>
  BY DEF Kick, Idle
<1>2. /\ State.room = room /\ State.pending = pending
      /\ room \in Rooms /\ Peopled(room) /\ SeriesStands(room)
  BY <1>1, RoomFacts
<1>3. u = Ann => room.series = None
  <2>1. Head(room.users) = room.users[1]
    BY <1>2 DEF Rooms, Peopled
  <2> QED
    BY <1>1, <1>2, <2>1 DEF SeriesStands
<1>4. /\ Accounted(st, results)
      /\ st.room # None => st.room.game = None
  BY <1>1, <1>2, <1>3, DepartKeeps DEF SeriesInv
<1>5. st.pending = pending
  BY <1>2 DEF Departed, State
<1> HIDE DEF st
<1>6. Becomes(st)
  BY <1>1, <1>5 DEF Becomes
<1> QED
  BY <1>1, <1>4, <1>6, Becoming DEF SeriesInv

\* The result of a game, by whatever ends it.
LEMMA GameEndKeeps ==
  ASSUME SeriesInv, room # None, room.game # None, NEW winner \in Winners, NEW saved \in BOOLEAN,
         Ended(saved)
  PROVE  /\ Accounted(HandleGameEnd(winner, saved), results')
         /\ InOrder(results')
         /\ HandleGameEnd(winner, saved).room # None
         /\ HandleGameEnd(winner, saved).room.game = None
<1> DEFINE res == [id |-> room.game.id, rated |-> room.game.ranked, saved |-> saved]
           mid == Recorded(State, winner, saved)
<1>1. results' = Append(results, res)
  BY DEF Ended
<1>2. /\ State.room = room /\ Accounted(State, results) /\ InOrder(results)
      /\ counted \in [GameIds -> Nat] /\ room.game.id = Len(results) + 1
  BY RoomFacts DEF SeriesInv, GameIsNext
<1>3. Accounted(mid, results') /\ mid.room # None /\ InOrder(results')
  <2> HIDE DEF mid
  <2>1. /\ Accounted(Recorded(State, winner, saved), Append(results, res))
        /\ Recorded(State, winner, saved).room # None
        /\ InOrder(Append(results, res))
    BY <1>2, RecordedKeeps
  <2> QED
    BY <1>1, <2>1 DEF mid
<1>4. HandleGameEnd(winner, saved) = GameOver(mid)
  BY DEF HandleGameEnd
<1>5. Len(results') \in Nat
  BY <1>3 DEF InOrder
<1> HIDE DEF mid
<1> QED
  BY <1>2, <1>3, <1>4, <1>5, GameOverKeeps

LEMMA EndKeeps ==
  ASSUME SeriesInv, NEW winner \in Winners, NEW saved \in BOOLEAN, EndGame(winner, saved)
  PROVE  SeriesInv'
<1>1. /\ room # None /\ room.game # None /\ Becomes(HandleGameEnd(winner, saved))
      /\ Ended(saved) /\ UNCHANGED <<counted, lost>>
  BY DEF EndGame
<1>2. /\ Accounted(HandleGameEnd(winner, saved), results')
      /\ InOrder(results')
      /\ HandleGameEnd(winner, saved).room.game = None
  BY <1>1, GameEndKeeps
<1> QED
  BY <1>1, <1>2, Becoming

LEMMA LeavingKeeps ==
  ASSUME SeriesInv, NEW u \in Users, NEW saved \in BOOLEAN, Leave(u, saved)
  PROVE  SeriesInv'
<1>1. room # None /\ UNCHANGED <<counted, lost>> /\ counted \in [GameIds -> Nat]
  BY DEF Leave, SeriesInv
<1>2. CASE room.game # None /\ u \in room.game.players
  <2> DEFINE w   == CHOOSE w \in room.game.players : w # u
             mid == HandleGameEnd(w, saved)
             st  == LeaveRoom(mid, u)
  <2>1. Becomes(st) /\ Ended(saved)
    BY <1>2 DEF Leave
  <2>2. w \in Winners
    <3>1. room.game \in Games
      BY <1>1, <1>2, RoomFacts DEF Rooms
    <3>2. room.game.players \subseteq Users /\ \E v \in room.game.players : v # u
      BY <3>1 DEF Games
    <3> HIDE DEF mid, st
    <3> QED
      BY <3>2 DEF Winners
  <2> HIDE DEF w
  <2>3. Accounted(mid, results') /\ InOrder(results') /\ mid.room # None /\ mid.room.game = None
    BY <1>1, <1>2, <2>1, <2>2, GameEndKeeps
  <2>4. Len(results') \in Nat
    BY <2>3 DEF InOrder
  <2> HIDE DEF mid
  <2>5. Accounted(st, results') /\ (st.room # None => st.room.game = None)
    BY <1>1, <2>3, <2>4, LeaveKeeps
  <2> HIDE DEF st
  <2> QED
    BY <1>1, <2>1, <2>3, <2>5, Becoming
<1>3. CASE ~(room.game # None /\ u \in room.game.players)
  <2> DEFINE st == LeaveRoom(State, u)
  <2>1. Becomes(st) /\ results' = results
    BY <1>3 DEF Leave
  <2>2. State.room = room /\ Accounted(State, results) /\ InOrder(results) /\ Len(results) \in Nat
    BY RoomFacts DEF SeriesInv
  <2>3. Accounted(st, results) /\ (st.room # None => st.room.game = room.game)
    BY <1>1, <1>3, <2>2, LeaveKeeps
  <2> HIDE DEF st
  <2>4. st.room # None /\ st.room.game # None => st.room.game.id = Len(results) + 1
    BY <1>1, <2>3 DEF SeriesInv, GameIsNext
  <2> QED
    BY <1>1, <2>1, <2>2, <2>3, <2>4, Becoming
<1> QED
  BY <1>2, <1>3

LEMMA DropOutKeeps ==
  ASSUME SeriesInv, NEW u \in Users, DropOut(u)
  PROVE  SeriesInv'
<1> DEFINE first == IF InSeries(room) THEN State ELSE FinishSeries(State)
           mid   == GameOver(first)
           st    == LeaveRoom(mid, u)
<1>1. room # None /\ Becomes(st) /\ UNCHANGED <<results, counted, lost>> /\ counted \in [GameIds -> Nat]
  BY DEF DropOut, SeriesInv
<1>2. State.room = room /\ Accounted(State, results) /\ InOrder(results) /\ Len(results) \in Nat
  BY RoomFacts DEF SeriesInv
<1>3. Accounted(first, results) /\ first.room # None
  BY <1>1, <1>2, FinishKeeps
<1> HIDE DEF first
<1>4. Accounted(mid, results) /\ mid.room # None /\ mid.room.game = None
  BY <1>1, <1>2, <1>3, GameOverKeeps
<1> HIDE DEF mid
<1>5. Accounted(st, results) /\ (st.room # None => st.room.game = None)
  BY <1>1, <1>2, <1>4, LeaveKeeps
<1> HIDE DEF st
<1> QED
  BY <1>1, <1>2, <1>5, Becoming

\* A room that is swept away takes the games of its series along, which are in
\* no job yet.
LEMMA SweepKeeps ==
  ASSUME SeriesInv, Sweep
  PROVE  SeriesInv'
<1>1. /\ room # None /\ room' = None /\ UNCHANGED <<results, pending, counted>>
      /\ lost' = lost \cup Waiting(room)
  BY DEF Sweep, Idle, Waiting
<1>2. /\ State.room = room /\ State.pending = pending /\ room \in Rooms /\ pending \in Seq(Job)
      /\ \A g \in GameIds : Placed(State, results, g)
      /\ Len(results) \in Nat
  BY <1>1, RoomFacts DEF SeriesInv, Accounted
<1>3. State'.room = None /\ State'.pending = pending /\ State' \in [room : Rooms \cup {None}, pending : Seq(Job)]
  BY <1>1, <1>2 DEF State
<1>4. Waiting(None) = {}
  BY DEF Waiting
<1>5. ASSUME NEW g \in GameIds
      PROVE  Placed(State, results, g)'
  <2>1. Placed(State, results, g) /\ g \in Nat
    BY <1>2, GameIdsAreNumbers
  <2>2. Jobs(pending, g) = Jobs(pending', g) /\ Waiting(State'.room) = {} /\ counted' = counted
        /\ results' = results
    BY <1>1, <1>3, <1>4
  <2>3. /\ counted[g] + Jobs(pending, g) \in {0, 1}
        /\ g \in lost' => counted[g] + Jobs(pending, g) = 0
        /\ g > Len(results) => counted[g] + Jobs(pending, g) = 0 /\ g \notin lost'
        /\ g <= Len(results) /\ results[g].rated /\ results[g].saved /\ g \notin lost' =>
             counted[g] + Jobs(pending, g) = 1
        /\ g <= Len(results) /\ ~results[g].rated => counted[g] + Jobs(pending, g) = 0
    BY <1>1, <1>2, <2>1 DEF Placed
  <2>4. g \notin Waiting(State'.room)
    BY <2>2
  <2> QED
    BY <1>3, <2>2, <2>3, <2>4 DEF Placed, Waiting, Jobs
<1>6. Accounted(State, results)'
  BY <1>3, <1>5 DEF Accounted
<1>7. lost' \subseteq GameIds
  <2>1. Waiting(room) \subseteq GameIds
    <3> SUFFICES ASSUME room.series # None, NEW i \in DOMAIN room.series.games
                 PROVE  room.series.games[i].id \in GameIds
      BY DEF Waiting, Range
    <3> DEFINE T == [id : GameIds, winner : Winners]
               gs == room.series.games
    <3>1. gs \in Seq(T)
      BY <1>2 DEF Rooms, Series
    <3>2. i \in DOMAIN gs
      OBVIOUS
    <3>3. gs[i] \in T
      <4> HIDE DEF gs, T
      <4> QED
        BY <3>1, <3>2
    <3> QED
      BY <3>3
  <2> QED
    BY <1>1, <2>1 DEF SeriesInv
<1> QED
  BY <1>1, <1>6, <1>7 DEF SeriesInv, GameIsNext, InOrder

\* A batch that is written moves its games from the jobs to the ratings.
LEMMA FlushKeeps ==
  ASSUME SeriesInv, NEW below, Flush(below)
  PROVE  SeriesInv'
<1>1. /\ pending' = <<>> /\ UNCHANGED <<room, results, lost>>
      /\ counted' = [g \in GameIds |-> counted[g] + Jobs(pending, g)]
  BY DEF Flush
<1>2. /\ State.room = room /\ State.pending = pending /\ pending \in Seq(Job)
      /\ \A g \in GameIds : Placed(State, results, g)
      /\ counted \in [GameIds -> Nat]
      /\ State \in [room : Rooms \cup {None}, pending : Seq(Job)]
      /\ room # None => Peopled(room) /\ SeriesStands(room)
  BY RoomFacts DEF SeriesInv, Accounted
<1>3. State'.room = room /\ State'.pending = <<>> /\ State' \in [room : Rooms \cup {None}, pending : Seq(Job)]
  BY <1>1, <1>2 DEF State
<1>4. \A g \in GameIds : counted'[g] + Jobs(<<>>, g) = counted[g] + Jobs(pending, g)
  BY <1>1, <1>2, NoJobs, JobsCount
<1>5. ASSUME NEW g \in GameIds
      PROVE  Placed(State, results, g)'
  <2>1. Placed(State, results, g)
    BY <1>2
  <2> QED
    BY <1>1, <1>2, <1>3, <1>4, <2>1 DEF Placed, Waiting, Jobs
<1>6. Accounted(State, results)'
  BY <1>1, <1>2, <1>3, <1>5 DEF Accounted, Peopled, SeriesStands
<1>7. counted' \in [GameIds -> Nat]
  <2>1. \A g \in GameIds : counted[g] + Jobs(pending, g) \in Nat
    BY <1>2, JobsCount
  <2> QED
    BY <1>1, <2>1
<1> QED
  BY <1>1, <1>6, <1>7 DEF SeriesInv, GameIsNext, InOrder

\* One that fails loses them.
LEMMA FailureKeeps ==
  ASSUME SeriesInv, FlushFails
  PROVE  SeriesInv'
<1>1. /\ pending' = <<>> /\ UNCHANGED <<room, results, counted>>
      /\ lost' = lost \cup UNION {job.games : job \in Range(pending)}
  BY DEF FlushFails
<1>2. /\ State.room = room /\ State.pending = pending /\ pending \in Seq(Job)
      /\ \A g \in GameIds : Placed(State, results, g)
      /\ counted \in [GameIds -> Nat] /\ lost \subseteq GameIds
      /\ State \in [room : Rooms \cup {None}, pending : Seq(Job)]
      /\ room # None => Peopled(room) /\ SeriesStands(room)
      /\ Len(results) \in Nat
  BY RoomFacts DEF SeriesInv, Accounted
<1>3. State'.room = room /\ State'.pending = <<>> /\ State' \in [room : Rooms \cup {None}, pending : Seq(Job)]
  BY <1>1, <1>2 DEF State
<1>4. \A g : g \in UNION {job.games : job \in Range(pending)} <=> Jobs(pending, g) # 0
  <2> SUFFICES ASSUME NEW g
               PROVE  g \in UNION {job.games : job \in Range(pending)} <=> Jobs(pending, g) # 0
    OBVIOUS
  <2>1. Jobs(pending, g) # 0 <=> \E i \in DOMAIN pending : g \in pending[i].games
    BY <1>2, JobsCount
  <2> QED
    BY <2>1 DEF Range
<1>5. ASSUME NEW g \in GameIds
      PROVE  Placed(State, results, g)'
  <2>1. Placed(State, results, g) /\ counted[g] \in Nat /\ Jobs(pending, g) \in Nat /\ g \in Nat
    BY <1>2, JobsCount, GameIdsAreNumbers
  <2>2. g \in lost' <=> g \in lost \/ Jobs(pending, g) # 0
    BY <1>1, <1>4
  <2>3. Jobs(<<>>, g) = 0
    BY NoJobs
  <2>4. /\ counted[g] \in {0, 1}
        /\ g \in lost' => counted[g] = 0 /\ g \notin Waiting(room)
        /\ g \in Waiting(room) => counted[g] = 0
        /\ g > Len(results) => counted[g] = 0 /\ g \notin Waiting(room) /\ g \notin lost'
        /\ g <= Len(results) =>
             /\ g \in Waiting(room) => results[g].rated = room.series.rated
             /\ results[g].rated /\ results[g].saved /\ g \notin lost' /\ g \notin Waiting(room) =>
                  counted[g] = 1
             /\ ~results[g].rated => counted[g] = 0
    BY <1>2, <2>1, <2>2 DEF Placed
  <2>5. counted[g] + Jobs(<<>>, g) = counted[g]
    BY <2>1, <2>3
  <2> QED
    BY <1>1, <1>3, <2>4, <2>5 DEF Placed, Waiting, Jobs
<1>6. Accounted(State, results)'
  BY <1>1, <1>2, <1>3, <1>5 DEF Accounted, Peopled, SeriesStands
<1>7. lost' \subseteq GameIds
  <2> SUFFICES ASSUME NEW i \in DOMAIN pending PROVE pending[i].games \subseteq GameIds
    BY <1>1, <1>2 DEF Range
  <2>1. pending[i] \in Job
    BY <1>2
  <2> QED
    BY <2>1 DEF Job
<1> QED
  BY <1>1, <1>6, <1>7 DEF SeriesInv, GameIsNext, InOrder

LEMMA NextKeepsSeries == SeriesInv /\ [Next]_vars => SeriesInv'
<1> SUFFICES ASSUME SeriesInv, [Next]_vars PROVE SeriesInv'
  OBVIOUS
<1>1. CASE UNCHANGED <<room, results, pending, counted, lost>>
  BY <1>1 DEF SeriesInv, Accounted, Placed, Peopled, SeriesStands, Waiting, Jobs, State,
              GameIsNext, InOrder
<1>2. CASE UNCHANGED vars \/ CooldownOver
  BY <1>1, <1>2 DEF vars, CooldownOver
<1> QED
  BY <1>2, AcceptKeeps, JoinKeeps, SitKeeps, StandKeeps, KickKeeps, ToggleKeeps, StartKeeps,
     EndKeeps, LeavingKeeps, DropOutKeeps, SweepKeeps, FlushKeeps, FailureKeeps DEF Next

THEOREM SeriesInvariance == Spec => []SeriesInv
<1>1. Init => SeriesInv
  <2> SUFFICES ASSUME Init PROVE SeriesInv
    OBVIOUS
  <2>1. /\ room = None /\ results = <<>> /\ pending = <<>> /\ lost = {}
        /\ counted = [g \in GameIds |-> 0]
    BY DEF Init
  <2>2. State = [room |-> None, pending |-> <<>>] /\ Waiting(None) = {}
    BY <2>1 DEF State, Waiting
  <2>3. \A g \in GameIds : Placed(State, results, g)
    <3> SUFFICES ASSUME NEW g \in GameIds PROVE Placed(State, results, g)
      OBVIOUS
    <3>1. counted[g] + Jobs(<<>>, g) = 0 /\ g > 0 /\ g \in Nat
      BY <2>1, NoJobs, GameIdsAreNumbers DEF GameIds
    <3>2. Len(results) = 0 /\ ~(g <= 0)
      BY <2>1, <3>1
    <3> QED
      BY <2>1, <2>2, <3>1, <3>2 DEF Placed
  <2>4. Accounted(State, results)
    BY <2>2, <2>3 DEF Accounted
  <2>5. InOrder(results) /\ GameIsNext
    BY <2>1, GameIdsAreNumbers DEF InOrder, GameIsNext
  <2> QED
    BY <2>1, <2>4, <2>5 DEF SeriesInv
<1> QED
  BY <1>1, NextKeepsSeries, PTL DEF Spec

\* Whatever the challenge, whoever stands up, is replaced, kicked, leaves or
\* drops out, and whatever becomes of the batches: a rated result that was saved
\* is counted exactly once, or is lost with its batch or its room.
THEOREM RatingsCorrect == Spec => []EveryResultIsRatedOnce
<1>1. SeriesInv => EveryResultIsRatedOnce
  <2> SUFFICES ASSUME SeriesInv, NEW i \in DOMAIN results
               PROVE  LET g == results[i].id
                      IN  /\ results[i].rated /\ results[i].saved /\ g \notin lost \cup Awaiting => Uses(g) = 1
                          /\ ~results[i].rated \/ g \in lost \cup Awaiting => Uses(g) = 0
    BY DEF EveryResultIsRatedOnce
  <2>1. /\ results[i].id = i /\ i \in GameIds /\ i <= Len(results)
    <3>1. i \in 1..Len(results) /\ Len(results) \in Nat /\ Len(results) <= MaxGames
      BY RoomFacts
    <3> QED
      BY <3>1, GameIdsAreNumbers DEF SeriesInv, InOrder, GameIds
  <2>2. Placed(State, results, i) /\ State.room = room /\ State.pending = pending
    BY <2>1, RoomFacts DEF SeriesInv, Accounted
  <2>3. Awaiting = Waiting(room) /\ Uses(i) = counted[i] + Jobs(pending, i)
    BY DEF Awaiting, Waiting, Uses
  <2> QED
    BY <2>1, <2>2, <2>3 DEF Placed
<1> QED
  BY <1>1, SeriesInvariance, PTL

-----------------------------------------------------------------------------
\* The jobs of a batch, one after the other.
LEMMA SwapsUnroll ==
  ASSUME NEW jobs, Len(jobs) \in Nat, NEW below
  PROVE  \E after : /\ SwapsAfter(jobs, below) = after[Len(jobs)]
                    /\ after[0] = swaps
                    /\ \A k \in 1..Len(jobs) : after[k] = Swapped(after[k - 1], jobs[k], below)
<1> DEFINE At(g, k) == IF k = 0 THEN swaps ELSE Swapped(g[k - 1], jobs[k], below)
           S == {n \in Nat : \E g : g = [k \in 0..n |-> At(g, k)]}
<1>1. 0 \in S
  <2> DEFINE g == [k \in 0..0 |-> swaps]
  <2>1. g = [k \in 0..0 |-> At(g, k)]
    OBVIOUS
  <2> QED
    BY <2>1
<1>2. ASSUME NEW n \in Nat, n \in S
      PROVE  n + 1 \in S
  <2>1. PICK g : g = [k \in 0..n |-> At(g, k)]
    BY <1>2
  <2> DEFINE h == [k \in 0..(n + 1) |-> IF k = n + 1 THEN Swapped(g[n], jobs[n + 1], below) ELSE g[k]]
  <2>2. ASSUME NEW k \in 0..(n + 1)
        PROVE  h[k] = At(h, k)
    <3>1. CASE k = n + 1
      <4>1. k # 0 /\ k - 1 = n /\ n \in 0..(n + 1) /\ n # n + 1
        BY <3>1
      <4>2. h[n] = g[n]
        BY <4>1
      <4> QED
        BY <3>1, <4>1, <4>2
    <3>2. CASE k = 0
      <4>1. h[0] = g[0] /\ g[0] = swaps
        BY <2>1
      <4> QED
        BY <3>2, <4>1
    <3>3. CASE k \in 1..n
      <4>1. k \in 0..n /\ k # 0 /\ k - 1 \in 0..n /\ k - 1 \in 0..(n + 1) /\ k - 1 # n + 1 /\ k # n + 1
        BY <3>3
      <4>2. h[k] = g[k] /\ h[k - 1] = g[k - 1]
        BY <4>1
      <4>3. g[k] = At(g, k)
        BY <2>1, <4>1
      <4> QED
        BY <4>1, <4>2, <4>3
    <3> QED
      BY <3>1, <3>2, <3>3
  <2>3. h = [k \in 0..(n + 1) |-> At(h, k)]
    BY <2>2
  <2>4. \E f : f = [k \in 0..(n + 1) |-> At(f, k)]
    <3> HIDE DEF h, At
    <3> QED
      BY <2>3
  <2> QED
    BY <2>4
<1>3. \A n \in Nat : n \in S
  <2> HIDE DEF S
  <2> QED
    BY <1>1, <1>2, SetInduction
<1> DEFINE after == CHOOSE g : g = [k \in 0..Len(jobs) |-> At(g, k)]
<1>4. after = [k \in 0..Len(jobs) |-> At(after, k)]
  <2>1. \E g : g = [k \in 0..Len(jobs) |-> At(g, k)]
    BY <1>3
  <2> QED
    BY <2>1
<1>5. SwapsAfter(jobs, below) = after[Len(jobs)]
  BY Zenon DEF SwapsAfter
<1> HIDE DEF after
<1>6. after[0] = swaps
  BY <1>4
<1>7. ASSUME NEW k \in 1..Len(jobs)
      PROVE  after[k] = Swapped(after[k - 1], jobs[k], below)
  <2>1. k \in 0..Len(jobs) /\ k # 0
    OBVIOUS
  <2> QED
    BY <1>4, <2>1
<1> QED
  BY <1>5, <1>6, <1>7

\* A batch may hold the jobs of several staked series of the pair: the first to
\* swap keeps the others from it.
LEMMA BatchSwapsOnce ==
  ASSUME NEW jobs, Len(jobs) \in Nat, NEW below, swaps \in {0, 1}
  PROVE  SwapsAfter(jobs, below) \in {0, 1}
<1>1. PICK after : /\ SwapsAfter(jobs, below) = after[Len(jobs)]
                   /\ after[0] = swaps
                   /\ \A k \in 1..Len(jobs) : after[k] = Swapped(after[k - 1], jobs[k], below)
  BY SwapsUnroll
<1> DEFINE S == {k \in 0..Len(jobs) : after[k] \in {0, 1}}
<1>2. 0 \in S
  BY <1>1
<1>3. ASSUME NEW k \in 1..Len(jobs), k - 1 \in S
      PROVE  k \in S
  BY <1>1, <1>3 DEF Swapped
<1>4. \A k \in 0..Len(jobs) : k \in S
  <2> HIDE DEF S
  <2> QED
    BY <1>2, <1>3, BoundedInduction
<1> QED
  BY <1>1, <1>4

\* A batch starts from no swap or one, and leaves no swap or one.
LEMMA SwapsInvariance == Spec => [](swaps \in {0, 1})
<1>1. Init => swaps \in {0, 1}
  BY DEF Init
<1>2. SeriesInv /\ swaps \in {0, 1} /\ [Next]_vars => (swaps \in {0, 1})'
  <2> SUFFICES ASSUME SeriesInv, swaps \in {0, 1}, [Next]_vars
               PROVE  swaps' \in {0, 1}
    OBVIOUS
  <2>1. ASSUME NEW below, Flush(below)
        PROVE  swaps' \in {0, 1}
    <3>1. Len(pending) \in Nat
      BY RoomFacts
    <3> QED
      BY <2>1, <3>1, BatchSwapsOnce DEF Flush
  <2>2. CASE CooldownOver
    BY <2>2 DEF CooldownOver
  <2>3. CASE UNCHANGED swaps
    BY <2>3
  <2> QED
    BY <2>1, <2>2, <2>3 DEF Next, vars, AcceptChallenge, Join, Sit, Stand, Kick, ToggleRanked,
       StartGame, EndGame, Leave, DropOut, Sweep, FlushFails
<1> QED
  BY <1>1, <1>2, SeriesInvariance, PTL DEF Spec

\* The room keeps its form: nobody is in it twice, only its users have seats, and
\* both players of a game are among them.
THEOREM TypesCorrect == Spec => []TypeOK
<1>1. SeriesInv /\ swaps \in {0, 1} => TypeOK
  <2> SUFFICES ASSUME SeriesInv, swaps \in {0, 1} PROVE TypeOK
    OBVIOUS
  <2>1. room # None => Peopled(room)
    BY RoomFacts
  <2>2. swaps \in Nat
    OBVIOUS
  <2> QED
    BY <2>1, <2>2, RoomFacts DEF TypeOK, Peopled, SeriesInv
<1> QED
  BY <1>1, SeriesInvariance, SwapsInvariance, PTL

=============================================================================
