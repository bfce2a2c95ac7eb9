---------------------------- MODULE Matchmaking ----------------------------
(***************************************************************************)
(* Quick match: the queue of server/managers/MatchQueue.js and the match:* *)
(* events and the ticker of server/socket/handlers/MatchHandler.js.        *)
(*                                                                         *)
(* A rated entry's wait is counted in ticks, saturating where the rating   *)
(* window opens: it is only ever compared with the window at a tick, and a *)
(* casual entry's with nothing.  The board setup and the winning rule are  *)
(* one thing, the pool.  makeRoom's branch for a socket that is gone       *)
(* cannot be reached: pair() has asked for both sockets earlier in the     *)
(* same turn of the event loop.                                            *)
(***************************************************************************)
EXTENDS PairRooms, Subsequences

CONSTANTS
  Chips,        \* what match:join may ask for: records of pool, time and rated
  RatingOf,     \* the rating each user has in the pool
  WindowStart,  \* WINDOW_START, WINDOW_STEP: the rating window and its growth
  WindowStep,
  WindowOpen    \* WINDOW_OPEN_MS, in ticks

ASSUME MatchmakingAssumption ==
  /\ RatingOf \in [Users -> Nat]
  /\ WindowStart \in Nat /\ WindowStep \in Nat /\ WindowOpen \in Nat

VARIABLES
  queue,    \* entries, in the order of joining
  ticking   \* ticker is set

queueVars == <<queue, ticking>>

Entry(u, chip) ==
  [user |-> u, socket |-> sock[u], chip |-> chip, rating |-> RatingOf[u], age |-> 0]

Queued(u) == \E i \in DOMAIN queue : queue[i].user = u
WithoutUsers(q, us) == Picked(q, {i \in DOMAIN q : q[i].user \notin us})

\* Same pool, and clocks that agree: equal, or either side leaves it open.
Compatible(a, b) ==
  /\ a.chip.pool = b.chip.pool
  /\ a.chip.rated = b.chip.rated
  /\ a.chip.time = b.chip.time \/ "auto" \in {a.chip.time, b.chip.time}

Gap(a, b) ==
  IF ~a.chip.rated THEN 0
  ELSE IF a.rating >= b.rating THEN a.rating - b.rating ELSE b.rating - a.rating

Matches_NeverOpens(a, b) ==
  /\ Compatible(a, b)
  /\ Gap(a, b) <= WindowStart + WindowStep

\* Whether b is within the rating window of a, the entry that is served.
Matches(a, b) ==
  /\ Compatible(a, b)
  /\ a.age >= WindowOpen \/ Gap(a, b) <= WindowStart + WindowStep * a.age

CanPlay_AnyRoom(e) == sock[e.user] = e.socket

\* The veto at pairing time: the socket that joined is live, its user in no room.
CanPlay(e) == sock[e.user] = e.socket /\ Roomless(e.user)

\* Serve entry a: the nearest rating wins, the earlier of equals.
Serve(acc, a) ==
  LET found == {i \in DOMAIN acc.left : acc.left[i].user # a.user /\ Matches(a, acc.left[i])}
      best  == CHOOSE i \in found : \A j \in found :
                 \/ Gap(a, acc.left[i]) < Gap(a, acc.left[j])
                 \/ Gap(a, acc.left[i]) = Gap(a, acc.left[j]) /\ i <= j
      b     == acc.left[best]
  IN  IF a \notin Range(acc.left) \/ found = {}
      THEN acc
      ELSE [left  |-> WithoutUsers(acc.left, {a.user, b.user}),
            pairs |-> Append(acc.pairs, <<a.user, b.user>>)]

\* pair(): everybody in turn, oldest first.  A vetoed entry is dropped when it
\* is first looked at, which is before the pass is over, and never taken.
Able(q) == Picked(q, {i \in DOMAIN q : CanPlay(q[i])})

PairUp(q) ==
  LET pass[k \in 0..Len(q)] ==
        IF k = 0 THEN [left |-> q, pairs |-> <<>>] ELSE Serve(pass[k - 1], q[k])
  IN  pass[Len(q)]

\* makeRoom: the older of the two, who was served, makes the room.
SeatNextPair(map, pair) == SeatPair(map, AddressOf[pair[1]], pair[1], pair[2])

SeatAll(pairs) ==
  LET map[k \in 0..Len(pairs)] ==
        IF k = 0 THEN roomOf ELSE SeatNextPair(map[k - 1], pairs[k])
  IN  map[Len(pairs)]

\* tick(): pair, seat each pair, and stop the ticker over an empty queue.  A
\* pair that is refused a room is told so and not put back.
Tick(q) ==
  \E able \in {Able(q)} : \E pass \in {PairUp(able)} :  \* both evaluated once
    /\ queue' = pass.left
    /\ ticking' = (pass.left # <<>>)
    /\ roomOf' = SeatAll(pass.pairs)
    /\ UNCHANGED sock

Older(e) == IF e.chip.rated THEN [e EXCEPT !.age = Min({e.age + 1, WindowOpen})] ELSE e

Ticker ==
  /\ ticking
  /\ Tick([i \in DOMAIN queue |-> Older(queue[i])])

JoinQueue_NoTick(u, chip) ==
  /\ sock[u] # None
  /\ Roomless(u)
  /\ ~(chip.rated /\ u \in Guests)
  /\ queue' = Append(WithoutUsers(queue, {u}), Entry(u, chip))
  /\ ticking' = TRUE
  /\ UNCHANGED lobbyVars

\* match:join: to the back of the line, with a fresh wait, and pair at once.
JoinQueue(u, chip) ==
  /\ sock[u] # None
  /\ Roomless(u)
  /\ ~(chip.rated /\ u \in Guests)
  /\ Tick(Append(WithoutUsers(queue, {u}), Entry(u, chip)))

\* match:leave
LeaveQueue(u) ==
  /\ sock[u] # None
  /\ Queued(u)
  /\ queue' = WithoutUsers(queue, {u})
  /\ UNCHANGED <<lobbyVars, ticking>>

DropEntry_Never(u) == UNCHANGED queueVars

\* The disconnect handler: only the entry this very socket made.
DropEntry(u) ==
  /\ queue' = Picked(queue, {i \in DOMAIN queue :
                              ~(queue[i].user = u /\ queue[i].socket = sock[u])})
  /\ UNCHANGED ticking
=============================================================================
