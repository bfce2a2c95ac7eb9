----------------------------- MODULE CasualRoom -----------------------------
(***************************************************************************)
(* Casual rooms: membership, seats, the ready window and the three grace   *)
(* periods of a dropped socket, as server/managers/RoomManager.js,         *)
(* server/socket/handlers/RoomHandler.js, DisconnectHandler.js, the        *)
(* connection handler of SocketHandler.js, the game start and end of       *)
(* GameHandler.js and the seating of ChallengeService.js keep them.        *)
(*                                                                         *)
(* Node runs one handler or timer callback at a time, so each is one       *)
(* action; the interleaving is that of sockets and timers.  What happens   *)
(* on the board is left to GameEngine: here a game is the pair that plays  *)
(* it, and it ends when play, a resignation, the clock or a grace period   *)
(* says so.  A room's id is never used again (the code draws it at random  *)
(* among the free ones).  Time is abstract: a pending timer may fire at    *)
(* any moment, in any order.                                               *)
(***************************************************************************)
EXTENDS Integers, Sequences, FiniteSets, Subsequences

CONSTANTS
  Users,     \* user ids; one socket each, a newer one evicts the older
  Rooms,     \* the room ids this run may hand out
  None,      \* no room, no host
  MaxUsers   \* MAX_USERS_PER_ROOM

ASSUME NoneAssumption == None \notin Users /\ None \notin Rooms

ASSUME MaxUsersAssumption == MaxUsers \in Nat \ {0}

Seats == {1, 2}

\* The consecutive misses that cost a seat (registerReadyMiss).
MissLimit == 3

VARIABLES
  roomOf,      \* userRoomMap, and room.users, which always agree
  slot,        \* room.users[u].slot, 0 for a spectator
  ready,       \* room.users[u].ready
  presence,    \* room.users[u].presence; "away" is "active" here
  online,      \* whether the user has a socket
  emptyGrace,  \* emptyRoomGraceTimers: the room of a pending timer, or None
  specGrace,   \* spectatorGraceTimers
  discGrace,   \* disconnectTimers
  life,        \* whether the room exists in roomManager.rooms
  joinOrder,   \* room.joinOrder
  host,        \* room.host
  state,       \* room.state
  game,        \* the two players of room.gameState, or {} for null
  misses,      \* room.readyMissCount
  readyTimer,  \* readyTimers has the room, and readyDeadline is set
  seatCheck,   \* the pair a challenge seated, until scheduleSeatCheck's timer
  clock        \* the room's TimerManager in timerMap

entries   == <<roomOf, slot, ready, presence>>
graces    == <<emptyGrace, specGrace, discGrace>>
residence == <<life, joinOrder, host>>
play      == <<state, game, clock>>
window    == <<misses, readyTimer>>
vars      == <<entries, online, graces, residence, play, seatCheck, window>>

TypeOK ==
  /\ roomOf \in [Users -> Rooms \cup {None}]
  /\ slot \in [Users -> {0} \cup Seats]
  /\ ready \in [Users -> BOOLEAN]
  /\ presence \in [Users -> {"active", "disconnected"}]
  /\ online \in [Users -> BOOLEAN]
  /\ emptyGrace \in [Users -> Rooms \cup {None}]
  /\ specGrace \in [Users -> Rooms \cup {None}]
  /\ discGrace \in [Users -> Rooms \cup {None}]
  /\ life \in [Rooms -> {"unused", "live", "closed"}]
  /\ joinOrder \in [Rooms -> Seq(Users)]
  /\ host \in [Rooms -> Users \cup {None}]
  /\ state \in [Rooms -> {"idle", "playing", "interrupted"}]
  /\ game \in [Rooms -> SUBSET Users]
  /\ misses \in [Rooms -> 0..2]
  /\ readyTimer \in [Rooms -> BOOLEAN]
  /\ seatCheck \in [Rooms -> SUBSET Users]
  /\ clock \in [Rooms -> {"none", "running", "stopped"}]

Init ==
  /\ roomOf = [u \in Users |-> None]
  /\ slot = [u \in Users |-> 0]
  /\ ready = [u \in Users |-> FALSE]
  /\ presence = [u \in Users |-> "active"]
  /\ online = [u \in Users |-> FALSE]
  /\ emptyGrace = [u \in Users |-> None]
  /\ specGrace = [u \in Users |-> None]
  /\ discGrace = [u \in Users |-> None]
  /\ life = [r \in Rooms |-> "unused"]
  /\ joinOrder = [r \in Rooms |-> << >>]
  /\ host = [r \in Rooms |-> None]
  /\ state = [r \in Rooms |-> "idle"]
  /\ game = [r \in Rooms |-> {}]
  /\ misses = [r \in Rooms |-> 0]
  /\ readyTimer = [r \in Rooms |-> FALSE]
  /\ seatCheck = [r \in Rooms |-> {}]
  /\ clock = [r \in Rooms |-> "none"]

\* f with the value x at every point of S.
Assign(f, S, x) == [a \in DOMAIN f |-> IF a \in S THEN x ELSE f[a]]

Members(r) == {u \in Users : roomOf[u] = r}
Seated(r)  == {u \in Members(r) : slot[u] # 0}

\* Everyone in the room but u has lost their socket (hasOtherConnectedUser).
AloneConnected(u) ==
  \A v \in Members(roomOf[u]) \ {u} : presence[v] = "disconnected"

\* What a handler that runs on u's socket starts from.
InRoom(u) == online[u] /\ roomOf[u] # None

(***************************************************************************)
(* What handlers share.  GamesEnd is handleGameEnd for each of the rooms   *)
(* in over; Depart runs it and then roomManager.leaveRoom for each of the  *)
(* leavers, and drops the clocks in unclocked and the countdowns in        *)
(* unwatched, as the caller's clean-up does.                               *)
(***************************************************************************)

Staying(r, leavers) == Without(joinOrder[r], leavers)

\* The rooms the leavers leave empty, which leaveRoom destroys.
Emptied(leavers) ==
  {r \in Rooms : Members(r) # {} /\ Members(r) \subseteq leavers}

\* Mutant: the room of a host who left keeps them as its host.
NextHost_Keeps(r, leavers) ==
  IF Staying(r, leavers) = << >> THEN None ELSE host[r]

\* The member who joined first takes over from a host who leaves.
NextHost(r, leavers) ==
  IF Staying(r, leavers) = << >> THEN None
  ELSE IF host[r] \in leavers THEN Head(Staying(r, leavers)) ELSE host[r]

\* Mutant: a departing player does not reset the pair.
PairsBroken_Never(leavers) == {}

\* The rooms where a leaver frees a seat: what is left of the pair starts
\* over (resetReadyPair).
PairsBroken(leavers) == {roomOf[v] : v \in {w \in leavers : slot[w] # 0}}

SettleGames(over, unclocked) ==
  /\ state' = Assign(state, over, "idle")
  /\ game' = Assign(game, over, {})
  /\ clock' = Assign(clock, unclocked, "none")

Depart(over, leavers, unclocked, unwatched) ==
  LET broken == PairsBroken(leavers)
  IN /\ roomOf' = Assign(roomOf, leavers, None)
     /\ slot' = Assign(slot, leavers, 0)
     /\ presence' = Assign(presence, leavers, "active")
     /\ ready' = Assign(ready, {v \in Users : v \in leavers \/ roomOf[v] \in over \cup broken}, FALSE)
     /\ joinOrder' = [r \in Rooms |-> Staying(r, leavers)]
     /\ host' = [r \in Rooms |-> NextHost(r, leavers)]
     /\ life' = Assign(life, Emptied(leavers), "closed")
     /\ SettleGames(over \cup Emptied(leavers), over \cup unclocked)
     /\ misses' = Assign(misses, over \cup broken, 0)
     /\ readyTimer' = Assign(readyTimer, over \cup unwatched, FALSE)

GameEnds(r) ==
  /\ SettleGames({r}, {r})
  /\ ready' = Assign(ready, Members(r), FALSE)
  /\ misses' = [misses EXCEPT ![r] = 0]
  /\ readyTimer' = [readyTimer EXCEPT ![r] = FALSE]
  /\ UNCHANGED <<roomOf, slot, presence, residence>>

(***************************************************************************)
(* The lobby: room:create and room:join.                                   *)
(***************************************************************************)

Enter(u, r) ==
  /\ roomOf' = [roomOf EXCEPT ![u] = r]
  /\ joinOrder' = [joinOrder EXCEPT ![r] = Append(@, u)]
  /\ UNCHANGED <<slot, ready, presence, online, graces, play, window>>

CreateRoom(u, r) ==
  /\ online[u] /\ roomOf[u] = None
  /\ life[r] = "unused"
  /\ Enter(u, r)
  /\ life' = [life EXCEPT ![r] = "live"]
  /\ host' = [host EXCEPT ![r] = u]
  /\ UNCHANGED seatCheck

JoinRoom(u, r) ==
  /\ online[u] /\ roomOf[u] = None
  /\ life[r] = "live"
  /\ Cardinality(Members(r)) < MaxUsers
  /\ Enter(u, r)
  /\ UNCHANGED <<life, host, seatCheck>>

(***************************************************************************)
(* A friend challenge: v, over HTTP, accepts what u sent, and both are     *)
(* seated in a new room, whether they have a socket or not.  Ninety        *)
(* seconds later those of them who have none are taken out again.          *)
(***************************************************************************)

AcceptChallenge(u, v, r) ==
  /\ u # v
  /\ roomOf[u] = None /\ roomOf[v] = None
  /\ life[r] = "unused"
  /\ MaxUsers >= 2
  /\ roomOf' = Assign(roomOf, {u, v}, r)
  /\ slot' = [slot EXCEPT ![u] = 1, ![v] = 2]
  /\ joinOrder' = [joinOrder EXCEPT ![r] = <<u, v>>]
  /\ life' = [life EXCEPT ![r] = "live"]
  /\ host' = [host EXCEPT ![r] = u]
  /\ seatCheck' = [seatCheck EXCEPT ![r] = {u, v}]
  /\ UNCHANGED <<ready, presence, online, graces, play, window>>

NeverCame(r) ==
  IF life[r] = "live" /\ state[r] = "idle"
  THEN {u \in seatCheck[r] : ~online[u] /\ roomOf[u] = r}
  ELSE {}

SeatCheck(r) ==
  /\ seatCheck[r] # {}
  /\ seatCheck' = [seatCheck EXCEPT ![r] = {}]
  /\ Depart({}, NeverCame(r), {}, {})
  /\ UNCHANGED <<online, graces>>

(***************************************************************************)
(* room:leave.  A player in a game resigns first.                          *)
(***************************************************************************)
LeaveRoom(u) ==
  LET r == roomOf[u]
  IN /\ InRoom(u)
     /\ Depart(IF u \in game[r] THEN {r} ELSE {}, {u},
               IF Members(r) = {u} THEN {r} ELSE {}, {r})
     /\ UNCHANGED <<online, graces, seatCheck>>

(***************************************************************************)
(* Seats and settings.  state is "idle" or "interrupted" throughout: none  *)
(* of these is refused while the game is interrupted, but kicking is.      *)
(***************************************************************************)

ResetPair(r) ==
  /\ ready' = Assign(ready, Members(r), FALSE)
  /\ misses' = [misses EXCEPT ![r] = 0]
  /\ readyTimer' = [readyTimer EXCEPT ![r] = FALSE]

SeatFree(r, s) == \A v \in Members(r) : slot[v] # s

Sit(u, s) ==
  /\ InRoom(u)
  /\ state[roomOf[u]] # "playing"
  /\ SeatFree(roomOf[u], s)
  /\ slot' = [slot EXCEPT ![u] = s]
  /\ ResetPair(roomOf[u])
  /\ UNCHANGED <<roomOf, presence, online, graces, residence, play, seatCheck>>

\* Sitting where one already sits changes nothing but cancels the countdown.
SitAgain(u) ==
  /\ InRoom(u)
  /\ state[roomOf[u]] # "playing"
  /\ slot[u] # 0
  /\ readyTimer' = [readyTimer EXCEPT ![roomOf[u]] = FALSE]
  /\ UNCHANGED <<entries, online, graces, residence, play, seatCheck, misses>>

Stand(u) ==
  /\ InRoom(u)
  /\ state[roomOf[u]] # "playing"
  /\ slot[u] # 0
  /\ slot' = [slot EXCEPT ![u] = 0]
  /\ ResetPair(roomOf[u])
  /\ UNCHANGED <<roomOf, presence, online, graces, residence, play, seatCheck>>

\* What the settings are is told apart nowhere here.
UpdateSettings(u) ==
  LET r == roomOf[u]
  IN /\ InRoom(u)
     /\ host[r] = u
     /\ state[r] # "playing"
     /\ ready' = Assign(ready, Seated(r), FALSE)
     /\ readyTimer' = [readyTimer EXCEPT ![r] = FALSE]
     /\ UNCHANGED <<roomOf, slot, presence, online, graces, residence, play, misses, seatCheck>>

Kick(u, v) ==
  LET r == roomOf[u]
  IN /\ InRoom(u)
     /\ host[r] = u
     /\ v \in Members(r) \ {u}
     /\ state[r] = "idle"
     /\ Depart({}, {v}, {}, {r})
     /\ UNCHANGED <<online, graces, seatCheck>>

(***************************************************************************)
(* room:ready.  The first click of a filled pair opens the countdown, the  *)
(* second starts a game, unless no board satisfies the rules.  Neither     *)
(* looks at presence.                                                      *)
(***************************************************************************)

BothSeated(r) == \A s \in Seats : \E v \in Members(r) : slot[v] = s

StartGame(r) ==
  /\ game' = [game EXCEPT ![r] = Seated(r)]
  /\ state' = [state EXCEPT ![r] = "playing"]
  /\ clock' = [clock EXCEPT ![r] = "running"]
  /\ ready' = Assign(ready, Members(r), FALSE)

ClickReady(u) ==
  /\ InRoom(u)
  /\ state[roomOf[u]] # "playing"
  /\ slot[u] # 0

OpenWindow(u) ==
  LET r == roomOf[u]
  IN /\ ClickReady(u)
     /\ ready' = [ready EXCEPT ![u] = TRUE]
     /\ ~(BothSeated(r) /\ \A v \in Seated(r) : ready'[v])
     /\ readyTimer' = [readyTimer EXCEPT ![r] = @ \/ BothSeated(r)]
     /\ UNCHANGED <<roomOf, slot, presence, online, graces, residence, play, seatCheck, misses>>

BothReady(u) ==
  LET r == roomOf[u]
  IN /\ ClickReady(u)
     /\ BothSeated(r)
     /\ \A v \in Seated(r) \ {u} : ready[v]
     /\ readyTimer' = [readyTimer EXCEPT ![r] = FALSE]
     /\ misses' = [misses EXCEPT ![r] = 0]
     /\ \/ StartGame(r)
        \/ /\ ready' = [ready EXCEPT ![u] = TRUE]  \* MAP_GEN_FAILED
           /\ UNCHANGED play
     /\ UNCHANGED <<roomOf, slot, presence, online, graces, residence, seatCheck>>

\* The seat that has not clicked; the first one when neither has.
MissedBy(r) ==
  {v \in Seated(r) : ~ready[v] /\ \A w \in Seated(r) : ~ready[w] => slot[v] <= slot[w]}

ReadyTimeout(r) ==
  /\ readyTimer[r]
  /\ readyTimer' = [readyTimer EXCEPT ![r] = FALSE]
  /\ IF life[r] = "live" /\ state[r] # "playing" /\ BothSeated(r)
     THEN LET kicked == IF misses[r] + 1 >= MissLimit THEN MissedBy(r) ELSE {}
          IN /\ slot' = Assign(slot, kicked, 0)
             /\ ready' = Assign(ready, Seated(r), FALSE)
             /\ misses' = [misses EXCEPT ![r] = IF kicked # {} THEN 0 ELSE @ + 1]
     ELSE UNCHANGED <<slot, ready, misses>>
  /\ UNCHANGED <<roomOf, presence, online, graces, residence, play, seatCheck>>

(***************************************************************************)
(* A game ends by what u does on the board (a winning move, a full board,  *)
(* a resignation, an agreed draw) or by the clock.                         *)
(***************************************************************************)
PlayEnds(u) ==
  /\ InRoom(u)
  /\ u \in game[roomOf[u]]
  /\ GameEnds(roomOf[u])
  /\ UNCHANGED <<online, graces, seatCheck>>

ClockTimeout(r) ==
  /\ clock[r] = "running"
  /\ GameEnds(r)
  /\ UNCHANGED <<online, graces, seatCheck>>

(***************************************************************************)
(* The socket of u closes.                                                 *)
(***************************************************************************)

\* Mutant: the clock is left running while the game is interrupted.
PauseClock_Never(r) == UNCHANGED clock

PauseClock(r) ==
  clock' = [clock EXCEPT ![r] = IF @ = "none" THEN "none" ELSE "stopped"]

\* startDisconnectGrace
DropFromGame(u) ==
  LET r == roomOf[u]
  IN /\ u \in game[r]
     /\ discGrace' = [discGrace EXCEPT ![u] = r]
     /\ state' = [state EXCEPT ![r] = "interrupted"]
     /\ PauseClock(r)
     /\ UNCHANGED <<emptyGrace, specGrace, game>>

\* startEmptyRoomGrace
DropAlone(u) ==
  /\ u \notin game[roomOf[u]]
  /\ AloneConnected(u)
  /\ emptyGrace' = [emptyGrace EXCEPT ![u] = roomOf[u]]
  /\ UNCHANGED <<specGrace, discGrace, play>>

\* Mutant: whoever is not playing is taken for a viewer.
IsViewer_All(u) == TRUE

IsViewer(u) == slot[u] = 0

\* A viewer is only marked; a seated user gets startSpectatorGrace.
DropWithCompany(u) ==
  /\ u \notin game[roomOf[u]]
  /\ ~AloneConnected(u)
  /\ specGrace' = IF IsViewer(u) THEN specGrace
                                 ELSE [specGrace EXCEPT ![u] = roomOf[u]]
  /\ UNCHANGED <<emptyGrace, discGrace, play>>

Disconnect(u) ==
  /\ online[u]
  /\ online' = [online EXCEPT ![u] = FALSE]
  /\ IF roomOf[u] = None
     THEN UNCHANGED <<presence, graces, play>>
     ELSE /\ presence' = [presence EXCEPT ![u] = "disconnected"]
          /\ \/ DropFromGame(u)
             \/ DropAlone(u)
             \/ DropWithCompany(u)
  /\ UNCHANGED <<roomOf, slot, ready, residence, seatCheck, window>>

(***************************************************************************)
(* A new socket of u, after a drop or to replace the one it has (the old   *)
(* socket's disconnect then finds the new one and does nothing).           *)
(***************************************************************************)

CancelGraces(u) ==
  /\ emptyGrace' = [emptyGrace EXCEPT ![u] = None]
  /\ specGrace' = [specGrace EXCEPT ![u] = None]

\* cancelDisconnectGrace gives up, and leaves the timer pending, when the
\* room, its game or u's membership is gone.
CanResume(u) ==
  LET r == discGrace[u]
  IN r # None /\ life[r] = "live" /\ game[r] # {} /\ u \in Members(r)

\* Mutant: the scan for other absentees still sees the one who is back.
OtherStillAway_Own(u, r) == \E v \in Users : discGrace[v] = r

OtherStillAway(u, r) == \E v \in Users \ {u} : discGrace[v] = r

\* Mutant: the clock stays stopped.
RestartClock_Never(r) == UNCHANGED clock

RestartClock(r) ==
  clock' = [clock EXCEPT ![r] = IF @ = "none" THEN "none" ELSE "running"]

Resume(u) ==
  LET r == discGrace[u]
  IN /\ CanResume(u)
     /\ discGrace' = [discGrace EXCEPT ![u] = None]
     /\ presence' = [presence EXCEPT ![u] = "active"]
     /\ IF OtherStillAway(u, r)
        THEN UNCHANGED <<state, clock>>
        ELSE state' = [state EXCEPT ![r] = "playing"] /\ RestartClock(r)

MarkBack(u) == presence' = [presence EXCEPT ![u] = "active"]

Rejoin(u) ==
  /\ ~CanResume(u)
  /\ MarkBack(u)
  /\ UNCHANGED <<discGrace, state, clock>>

Connect(u) ==
  /\ online' = [online EXCEPT ![u] = TRUE]
  /\ CancelGraces(u)
  /\ Resume(u) \/ Rejoin(u)
  /\ UNCHANGED <<roomOf, slot, ready, residence, game, seatCheck, window>>

(***************************************************************************)
(* Timers.                                                                 *)
(***************************************************************************)

\* Once u is gone, only ghosts are left in r: nobody is connected, nobody is
\* within a grace period and no game is running (reapGhostRoom).
OnlyGhostsBut(u, r) ==
  /\ game[r] = {}
  /\ \A v \in Members(r) \ {u} :
       presence[v] = "disconnected" /\ emptyGrace[v] = None
       /\ specGrace[v] = None /\ discGrace[v] = None

\* Whether the room u is in will be destroyed with u's leaving.
LastIn(u) == Members(roomOf[u]) = {u}

\* Mutant: the ghosts are not reaped.
LeaversWith_Alone(u, r) == IF roomOf[u] = None THEN {} ELSE {u}

\* Those who leave when a grace period of u in r expires: u, from whatever
\* room u is in by now, and unless u was the last there the ghosts of r.
LeaversWith(u, r) ==
  IF roomOf[u] = None THEN {}
  ELSE {u} \cup (IF ~LastIn(u) /\ OnlyGhostsBut(u, r) THEN Members(r) ELSE {})

\* A room that is destroyed has the clock and the countdown of r dropped with it.
ExpireGrace(u, r) ==
  LET leavers == LeaversWith(u, r)
      gone    == IF Emptied(leavers) # {} THEN {r} ELSE {}
  IN /\ Depart({}, leavers, gone, gone \cup {roomOf[v] : v \in {w \in leavers : ~LastIn(w)}})
     /\ UNCHANGED <<online, discGrace, seatCheck>>

EmptyGraceExpires(u) ==
  /\ emptyGrace[u] # None
  /\ emptyGrace' = [emptyGrace EXCEPT ![u] = None]
  /\ ExpireGrace(u, emptyGrace[u])
  /\ UNCHANGED specGrace

SpecGraceExpires(u) ==
  /\ specGrace[u] # None
  /\ specGrace' = [specGrace EXCEPT ![u] = None]
  /\ ExpireGrace(u, specGrace[u])
  /\ UNCHANGED emptyGrace

\* Ends whatever game the room of the grace period has by now, and takes u
\* out of whatever room u is in by now.
DiscGraceExpires(u) ==
  LET r == discGrace[u]
      leavers == IF roomOf[u] = None THEN {} ELSE {u}
  IN /\ r # None
     /\ discGrace' = [discGrace EXCEPT ![u] = None]
     /\ Depart(IF game[r] # {} THEN {r} ELSE {}, leavers,
               IF Emptied(leavers) # {} THEN {r} ELSE {}, {})
     /\ UNCHANGED <<online, emptyGrace, specGrace, seatCheck>>

\* _idleCleanup: the countdown and the grace timers of the room stay pending.
IdleSweep(r) ==
  /\ life[r] = "live"
  /\ state[r] = "idle"
  /\ Depart({}, Members(r), {}, {})
  /\ UNCHANGED <<online, graces, seatCheck>>

\* The clocks of rooms that are gone.
OrphanSweep ==
  /\ \E r \in Rooms : life[r] # "live" /\ clock[r] # "none"
  /\ clock' = Assign(clock, {r \in Rooms : life[r] # "live"}, "none")
  /\ UNCHANGED <<entries, online, graces, residence, state, game, seatCheck, window>>

Next ==
  \/ \E u \in Users :
       \/ \E r \in Rooms : CreateRoom(u, r) \/ JoinRoom(u, r)
       \/ \E s \in Seats : Sit(u, s)
       \/ \E v \in Users : Kick(u, v) \/ \E r \in Rooms : AcceptChallenge(u, v, r)
       \/ UpdateSettings(u) \/ SitAgain(u) \/ Stand(u) \/ OpenWindow(u) \/ BothReady(u)
       \/ LeaveRoom(u) \/ PlayEnds(u) \/ Disconnect(u) \/ Connect(u)
       \/ EmptyGraceExpires(u) \/ SpecGraceExpires(u) \/ DiscGraceExpires(u)
  \/ \E r \in Rooms : SeatCheck(r) \/ ReadyTimeout(r) \/ ClockTimeout(r) \/ IdleSweep(r)
  \/ OrphanSweep

Spec == Init /\ [][Next]_vars

\* The timers the server has armed fire, unless something clears them first.
Timers ==
  /\ \A u \in Users : /\ WF_vars(EmptyGraceExpires(u))
                      /\ WF_vars(SpecGraceExpires(u))
                      /\ WF_vars(DiscGraceExpires(u))
  /\ \A r \in Rooms : /\ WF_vars(SeatCheck(r))
                      /\ WF_vars(ReadyTimeout(r))
                      /\ WF_vars(ClockTimeout(r))

FairSpec == Spec /\ Timers

(***************************************************************************)
(* Invariants.                                                             *)
(***************************************************************************)

\* The join order of a room lists each member once, and the host of a room is
\* one of them.  leaveRoom, kickUser, the reaper and the idle sweep all take
\* members out.
RoomsWellFormed ==
  /\ TypeOK
  /\ \A r \in Rooms :
       /\ {joinOrder[r][i] : i \in 1..Len(joinOrder[r])} = Members(r)
       /\ Len(joinOrder[r]) = Cardinality(Members(r))
       /\ life[r] = "live" => host[r] \in Members(r)

\* A room exists exactly while somebody is in it, whoever has a seat is in a
\* room, and no seat holds two.
SeatsAreSound ==
  /\ \A r \in Rooms : life[r] = "live" <=> Members(r) # {}
  /\ \A u \in Users : slot[u] # 0 => roomOf[u] # None
  /\ \A r \in Rooms : \A u, v \in Seated(r) : slot[u] = slot[v] => u = v

\* Whoever a challenge has seated and who has yet to come.
Awaited(u) == roomOf[u] # None /\ u \in seatCheck[roomOf[u]]

\* A member is marked disconnected exactly while their socket is gone: the
\* head count, the host's view of the seats, "only occupant" and the reaper
\* all trust the mark.  Only a user seated by a challenge who has no socket
\* yet passes for present, and holds the seat no longer than the seat check.
\* (One whom the ready window has unseated before may pass for present for good:
\* the check does nothing once somebody else has their seat and plays.)
PresenceMatchesSocket ==
  \A u \in Users :
    /\ presence[u] = "disconnected" => roomOf[u] # None /\ ~online[u]
    /\ slot[u] # 0 /\ ~online[u] => presence[u] = "disconnected" \/ Awaited(u)

\* room.state and room.gameState agree: a room is idle exactly when it has no
\* game.  Otherwise the idle sweep would close a running game or skip a dead
\* one for ever.
StateMatchesGame ==
  \A r \in Rooms : state[r] = "idle" <=> game[r] = {}

\* The clock of a game runs while the room is playing and is stopped while it
\* is interrupted; a room without a game has none.
ClockFollowsState ==
  \A r \in Rooms : life[r] = "live" =>
    clock[r] = CASE state[r] = "idle" -> "none"
                 [] state[r] = "playing" -> "running"
                 [] state[r] = "interrupted" -> "stopped"

\* An empty-room or spectator grace timer, which evicts its user from
\* whatever room they are in when it fires, only ever belongs to a user who
\* is away and can find them in no room but the one it was started for, or one
\* where a challenge has put them since and they have not come.
GraceTargetsItsRoom ==
  \A u \in Users : \A g \in {emptyGrace[u], specGrace[u]} :
    g # None => ~online[u] /\ (roomOf[u] \in {g, None} \/ presence[u] = "active")

\* A seat is never held for ever by someone who is gone: some grace timer of
\* theirs, or the seat check of the challenge, is pending.
AbsentSeatIsTimed ==
  \A u \in Users : slot[u] # 0 /\ ~online[u] =>
    emptyGrace[u] # None \/ specGrace[u] # None \/ discGrace[u] # None \/ Awaited(u)

\* The misses counted against a pair are that pair's own: they are gone as
\* soon as a seat is free, by whatever path it was freed.
MissesBelongToPair ==
  \A r \in Rooms : misses[r] > 0 => BothSeated(r)

\* What the handlers, timers and sweeps trust of the maps they share, each of
\* which several of them write.
BooksAgree ==
  /\ SeatsAreSound
  /\ PresenceMatchesSocket
  /\ StateMatchesGame
  /\ GraceTargetsItsRoom
  /\ AbsentSeatIsTimed
  /\ MissesBelongToPair

(***************************************************************************)
(* What a step may do.                                                     *)
(***************************************************************************)

\* An empty-room or spectator grace that expires leaves no room behind in
\* which everybody is gone and nothing will ever make them leave.
Ghosts(r) ==
  /\ life[r] = "live" /\ game[r] = {}
  /\ \A u \in Members(r) : presence[u] = "disconnected" /\ emptyGrace[u] = None
                           /\ specGrace[u] = None /\ discGrace[u] = None

GraceLeavesNoGhosts ==
  [][\A u \in Users : \A r \in Rooms :
       /\ \/ EmptyGraceExpires(u) /\ emptyGrace[u] = r
          \/ SpecGraceExpires(u) /\ specGrace[u] = r
       /\ roomOf[u] = r
       => ~Ghosts(r)']_vars

(***************************************************************************)
(* What must happen once connections are quiet.  While sockets keep        *)
(* dropping and returning, two players can take turns at being away and    *)
(* keep a game interrupted for as long as they like, each return restarts  *)
(* the other's wait; so these say what holds when, from some time on,      *)
(* exactly the users in Present have a socket.                             *)
(***************************************************************************)

Present == {u \in Users : online[u]}

\* An interrupted game is resumed or cancelled, and the room does not go back
\* to being interrupted.  InterruptedIsTimed below is how a third user and a
\* second room together defeat it.
InterruptionsResolve ==
  \A S \in SUBSET Users :
    <>[](Present = S) => <>[](\A r \in Rooms : state[r] # "interrupted")

\* Whoever stays away loses their seat, each time a challenge has given them
\* one.
AbsentSeatsAreFreed ==
  \A S \in SUBSET Users :
    <>[](Present = S) => \A u \in Users \ S : []<>(slot[u] = 0)

\* No game lasts for ever: it is decided, its clock runs out or it is
\* cancelled.
GamesAreFinished ==
  \A S \in SUBSET Users :
    <>[](Present = S) => \A r \in Rooms : []<>(game[r] = {})

(***************************************************************************)
(* What comments in the code say and the code does not do.                 *)
(***************************************************************************)

\* startDisconnectGrace: the game is cancelled "if the player does not
\* reconnect in time".  An entry that outlives its game (the opponent resigned
\* meanwhile) is not cancelled by the player's return, and later cancels
\* another game and evicts a player who is connected.
GraceEvictsTheAbsent ==
  [][\A u \in Users : DiscGraceExpires(u) => ~online[u]]_vars

\* cancelDisconnectGrace: bailing out early "leaves the grace period running",
\* so that an interrupted game always has a timer to end it; the idle sweep
\* skips such a room.  But the entry of a player who lost their membership is
\* overwritten when they drop out of a game in another room.
InterruptedIsTimed ==
  \A r \in Rooms : state[r] = "interrupted" => \E u \in Users : discGrace[u] = r

\* cancelDisconnectGrace: with another player still in grace, "don't resume
\* the clock".  A player who clicked Start while the game was interrupted and
\* dropped is put into a new game with its clock running.
PausedWhileAway ==
  \A u \in Users : \A r \in Rooms :
    discGrace[u] = r /\ ~online[u] /\ u \in game[r] => clock[r] # "running"

=============================================================================
