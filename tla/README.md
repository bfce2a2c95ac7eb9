# GomokuVN in TLA+

GomokuVN is a Node.js server for Gomoku: players meet in rooms, play under
several rules (Swap2 opening, walls, portals, Caro), by a clock, and may drop
their connection and come back. The server keeps rooms, games and clocks in
memory; every socket event and every timer is a callback that runs to its end.
There are therefore no data races. What makes the system hard is the order of
callbacks: three kinds of grace period, a countdown, a clock, an undo and a draw
negotiation, each with a timer or an answer that arrives after the state it was
about has moved on.

## The system

| Part | State it keeps | Operations | Talks to | What makes it correct |
|---|---|---|---|---|
| `GameEngine` | board, history, turn, Swap2 phase and snapshots, draw and undo offers, result | `makeMove`, `placeOpeningStone`, `swap2Choice`, `resign`, `offerDraw`…, `requestUndo`…, `handleTimeout` | called by `GameHandler` and `TournamentMatchHandler` | board, history, turn and colours agree after any undo; a finished game is final |
| `TimerManager` | seconds and owner of two sides, active side, interval | `start`, `stop`, `switchTurn`, `remapForSwap2`, `addTime`, `_tick` | timeout callback into the engine and `handleGameEnd` | the side that runs is the mover's; time is lost only on turn |
| `GameHandler` | extra-time requests, move acks | the `game:*` events, `startGame`, `handleGameEnd` | engine, clock, room, database | engine and clock move together |
| `RoomManager` | rooms, members, seats, host, join order, settings, misses | create, join, leave, sit, stand, kick, settings, ready | `RoomHandler`, `LobbyHandler`, the idle sweep | membership, seats and host are one consistent record |
| Ready window (`state.js`) | one countdown per room | click, timeout | `RoomManager`, `startGame` | only who failed to click loses a seat |
| `DisconnectHandler` | a pending timer per user and kind of grace | start, cancel, expire | `RoomManager`, clock, `handleGameEnd` | an absent user is timed, a present one is left alone |
| `SocketHandler` | sessions, flood counters | connect, evict, disconnect, orphan sweep | all of the above | a new socket finds its room as it was |
| Move delivery (client and `game:move`) | outstanding move, retries, idempotency map | send, ack, retry, resync | `GameHandler` | a move is applied once |
| Broadcasts (`state.js`, `TournamentHandler.js`, `home-feed.js`) | what was sent last of each list, who was told since, a timer | subscribe, announce, flush | the pages, which merge deltas into a copy | a page shows what the server has |
| Quick match | queue of waiting users | join, leave, pairing pass | `PairRoom`, `RoomManager` | nobody is paired twice or with an absent user |
| Challenges and series | offers with a deadline, score of a series | send, accept, decline, expire | `PairRoom`, `handleGameEnd` | an offer is answered once |
| Tournaments | players, rounds or bracket, pairings with their life, deadlines, timers | register, start, agree, check in, result, dispute, forfeit, withdraw, cancel, restore | database, match handler | a round closes once and when all its pairings are over |
| Tournament matches | a series of games per pairing, clock, ready check | the `tmatch:*` events | engine, clock, tournament manager | the clock follows colours that change with each game |
| Ratings | rating per rule | apply a finished game | database | a game is applied once |
| Accounts, chat, clubs, forum, friends, puzzles, news, administration | database rows | HTTP requests | database | each request is a transaction |

`PROJECT.json` lists every part with what is modelled of it, and the hazards of
the code at their lines.

## Modules

| Module | Models |
|---|---|
| `GameEngine` | `server/managers/GameEngine.js` |
| `MatchClock` | the `game:*` handlers of `GameHandler.js` with `TimerManager.js`: it extends `GameEngine`, each action being an engine operation with what the handler does to the clock |
| `TournamentMatch` | `TournamentMatchHandler.js`: one game of a tournament pairing, the same engine and clock under other handlers; it extends `MatchClock` |
| `CasualRoom` | `RoomManager.js`, `RoomHandler.js`, `LobbyHandler.js`, `DisconnectHandler.js`, the ready window of `state.js`, the connection handler and orphan sweep of `SocketHandler.js`, game start and end, the seating of an accepted challenge (`ChallengeService.js`) |
| `PairRooms` | the socket registry and `userRoomMap` as the two that follow see them, `PairRoom.js` |
| `Matchmaking` | `MatchQueue.js`, `MatchHandler.js` |
| `Challenges` | `ChallengeService.js`, with the notifications it leaves |
| `Lobby` | the two together, over the same users, sockets and rooms |
| `ChallengeSeries` | the room of an accepted challenge, its series (`ChallengeSeries.js`, `handleGameEnd`), the queue of `RatingService.js` |
| `Standings` | `standings.js`, `pairing/swiss.js`, `pairing/roundRobin.js`, as operators |
| `DoubleElim` | `pairing/doubleElim.js`, as operators |
| `Advancement` | the cascades of `TournamentManager.js` (a decision, the round it completes, the next pairing, forfeits), as operators from a tournament to a tournament |
| `TournamentRounds` | a tournament seen round by round: the abstract specification of `Tournament` |
| `Tournament` | the life of each pairing (`TournamentManager.js`, `PairingLifecycle.js`, `series.js`, `tournamentState.js`), deadlines, restarts |
| `MoveLedger` | what the delivery of moves promises: the abstract specification of `MoveDelivery` |
| `MoveDelivery` | `game:move`, `game:resync`, `sendMove` of `client/js/game-ui.js`, the handlers and watchdogs of `client/js/room-socket.js`, and a network between them |
| `Feeds` | the lists kept up to date by deltas: `state.js`, `TournamentHandler.js`, `home-feed.js`, and the pages that show them (`lobby.js`, `lobby-home.js`, `tournaments.js`, `tournament-detail.js`, `room-socket.js`) |
| `Subsequences` | `Array.prototype.filter` by position, without recursion |
| `CasualRoomProofs`, `MoveDeliveryProofs`, `LobbyProofs`, `FeedsProofs`, `ChallengeSeriesProofs` | proofs about the module of that name |
| `MatchClockProofs` | proofs about `GameEngine`, `MatchClock` and `TournamentMatch` |
| `TournamentProofs` | proofs about `Standings`, `Advancement`, `TournamentRounds` and `Tournament` |
| `SubsequenceProofs` | the lemmas about filtered arrays, and induction over sets, that several of them use |
| `MC...` | the values TLC uses |

A definition whose name has the form `Operation_Fault`, commented "Mutant", is a
wrong version of the operation above or below it that some property is known to
catch. None is part of a specification; they show that each property can fail.
A type invariant that is not in a configuration (`TypeOK` of `Lobby`,
`ChallengeSeries`, `TournamentRounds`; `LifeTypeOK` of `Tournament`) is there to say what
the variables are.

### GameEngine

State is that of the engine object: `board`, `history` (moveHistory), `turn`,
`status`, `result`, the two offers, `phase` (openingPhase), `placed` (the stones
of this phase), `colour` of each player, `playStart` (playPhaseStartIndex) and
the stack `snapshots`. `moveCount` is always the length of the history, and
`openingStones`, `colorsAssigned` and the positions in `_phaseStones` are never
read back.

The board is the set `Cells` of playable cells, `Portals` with their partners, and
`Beside`, which says what lies next to a cell or portal each way along an axis: `None`
at the edge and at a wall, where neither a stone nor a row can be. Whether the stone
just laid wins is computed as in `_checkWin`: a walk both ways (`WalkFrom`), through
portals, over the stones of its colour (`Reach`), each counted once (`InLine`); the
length the rule asks for, exactly five or at least five (`LengthWins`); and in Caro an
opponent's stone beyond both ends (`EndBlocked`). Five is the constant `InARow`.
`FirstZone` and `FarApart` are the cells the WALL rules allow for Black's first and
second stone.

Each operation is one action, guards in the order of its early returns. An
operation that returns an error changes nothing and is no step.

### MatchClock

The clock has a black and a white side, labelled with a player each. While the
Swap2 opening has no colours the sides stand for the first and second player, so
that the engine's notion of whose turn it is and the clock's active side are
related by the handlers alone. `left`, `owner`, `active` and `running` are the
fields of `TimerManager`, `used` and `asking` the room's record of extra time.
A handler looks the game up in the room, where it is only while it lasts: after
its end no action is enabled.

`Pause` and `Resume` are what the grace period of a dropped player does to the
clock; whose it is and when they happen is `CasualRoom`'s subject, so here they
may happen at any time. A move is accepted while the clock is paused, as in the
code: the handlers do not look at `room.state`.

### CasualRoom

State is the room's record and the server's maps: where each user is, their
seat, click and presence mark, whether they have a socket, the pending timer of
each kind of grace period (with the room it was started for), and per room its
life, join order, host, state, game, misses, countdown, clock and the pair a
challenge seated in it until that is checked. No setting is told apart.
The game is only the pair that plays it; it may end at any time by something
one of them does, or by the clock while that runs.

A handler that ends a game and then leaves the room is one action, as are the
departure of a user and of the ghosts it leaves behind. Time is abstract: a
pending timer may fire at any moment and in any order, which covers every
choice of the durations in `config.js`. What the durations rule out (a 10 s timer
outliving a 60 s one that was started with it) is thus allowed as well, so a
property that holds here holds for all of them.

A user may be seated without a socket: by a challenge, accepted over HTTP. Such a
user is "active" to the room although absent, until they come or the seat check
takes them out, and the invariants about absence make this one exception
(`Awaited`). A quick match, which seats two connected users, reaches no state
that creating, joining and sitting do not.

Room ids are not used again; the code draws them at random. `presence: "away"`
is the same as "active" to every guard. A new socket of a user who has one
evicts it; the old socket's disconnect then finds the new one and does nothing,
so both are the one action `Connect`.

### TournamentMatch

The sides of the clock belong to the entries of the pairing for the whole match:
black to `player1`, white to `player2`, whatever colours are taken; who is first
alternates from game to game, so both parities are initial states. There is no undo
and no pause. A choice of colours does not touch the clock.

### Lobby: quick match and challenges

A user has a socket or none, an address that stays the same, and a room or none; what
happens in a room is `CasualRoom`'s subject, so a user may create, join or leave one at
any time. A room exists while somebody is in it and counts, all that time, against the
address it was made from: `createRoom` refuses when there are `MaxRooms`, or
`MaxRoomsPerIp` from that address. A pair of the queue makes its room from the address
of the older of the two, an accepted challenge from that of who accepts. Rooms whose
last user is away are counted apart (`MaxGraceRoomsPerIp`), but only for who
creates a room by hand: `seatPair` hands `createRoom` no such rooms, so that for a pair
they count like the others and `ROOM_CLEANUP_PENDING` cannot be its answer. A room that is
full (`ROOM_FULL`) is `CasualRoom`'s. A new socket
evicts the one before it, whose disconnect handler runs first. An entry of the
queue keeps the socket it came with, as in the code, and its age in ticks, counted
up to where the rating window no longer grows. A tick of the pairing pass is one
action, from the oldest entry on, with the rooms it makes on the way. An offer is
pending with a timer of its own; a timer may outlive its offer. Expiry, acceptance
and cancellation come in any order.

### ChallengeSeries

The room has two seats, the series the pair it is for. A game ends with a
result that counts for the series if it was played by exactly that pair, and goes
to the rating queue by itself if not; the one action `EndGame` also lets the write
of the game fail (`saved`). The queue is written a batch at a time in a
transaction that may fail. Ratings are not computed: `counted` is how often each
game entered one. Whether a winner is the lower rated is left open.

### Tournaments

A tournament is a record with the fields of the code's object. What happens in one
handler from a decision to its last consequence (a pairing is decided, with it a
round, the next one is paired, in it a withdrawn player forfeits, and so on) is an
operator of `Advancement` from record to record, built in the order of the calls.
Swiss pairing, round robin and the bracket are computed as in the code, tie-breaks
included. `TournamentRounds` has one action per decision and leaves open how it
came about. `Tournament` fills that in: the life of a pairing is a record of its
phase, its reports and check-ins, the games of its series, and whether a deadline
and a timer are armed. To the rounds a life is opaque: they know that of a new pairing
(`NewLife`) and that of a settled one (`SettledLife`), two constants that
`LifeAssumption` of `Tournament` gives their values.

The cascades call each other to any depth in the code. In the model each is a loop over
a recursive function on the numbers up to a bound, which is reached: a bracket is synced
once for each match that does not exist yet (`synced`), a round is paired match by match
(`created`), at most as many rounds are over at once as there are players (`advanced`),
and who withdraws forfeits at most the matches they are in (`forfeited`). `Tabulated` is the
identity, written so that TLC evaluates a function once; `With` is a `Map.set`. `Restart` forgets everything the server keeps in memory and
reads it back from the rows; `CrashAfterResult` does so right after a result is
saved, before its consequences. Agreed times are shown and never tested, so they
are left out.

### MoveDelivery

Each player has a queue of packets to the server and one from it, in order; any
packet may be lost while the socket stays up, which is the fault that acks, retries
and watchdogs are there for. A client has its view of the board, its pending stone,
the attempts it waits for and its armed timers; the server has the game and the
answers it remembers by move number (`_moveAcks`). A lost socket is `CasualRoom`'s
subject. Timers are abstract: an ack may time out while the attempt or its answer is
still on the way, which counts as a fault like a loss; the two watchdogs, which are
slower, find the network quiet. `resyncOnTabReturn`, the Swap2 opening and the clock are left out.

### Feeds

A feed is a list of items on the server, what was sent of it last (`baseline`), and
pages with a copy each. Handlers only say that something changed; one timer at a time
collects such calls, and when it expires everybody who listens gets what differs from
the baseline, which is then the list itself. A new subscriber gets the whole list at
once, in the middle of such a window, without a change of the baseline. The six feeds
differ in whether the first snapshot becomes the baseline, whether those who left since
somebody was told of them are named again, whether a flush sends everything after a
subscription, and what a page does when its socket comes back; a behaviour is about
one of them. The home screen also asks for everything over HTTP (`Poll`, `Answer`): the
answer is what the server had when it was asked and replaces whatever was pushed since. A
page waits for one answer at a time, and requests that fail are left out. `silent` and
`cause` record why a page may be wrong for longer.

## Runs

All state counts are distinct states.

| Run | Instance | States | Shows |
|---|---|---|---|
| `match_swap2` | 7 cells, blitz, 2 s + 1 s | 27,018 | engine and clock agree on whose turn and whose seconds they are, through opening, choices, undo and requests that grow stale |
| `match_plain` | 6 cells between walls, a pair of portals, Caro, three in a row, per move, fair | 203,607 | result and board agree, a full clock for each move, the WALL rules survive undo, the game ends |
| `tournament_match` | 6 cells, per game, fair | 2,234,295 | where the clock of a tournament game may be on the wrong side, whom a bonus goes to, that it ends |
| `room_three` | 3 users, 1 room | 441,164 | the books of a room agree, join order and host among them, and no timer leaves a room of ghosts |
| `room_fair` | 2 users, 2 rooms, fair | 229,860 | no seat, game or interruption is held for ever by somebody who is gone |
| `lobby` | 3 users (one a guest) at 2 addresses, 2 rooms, 1 from each address, fair | 596,016 | pairs are found, places are not lost, offers are shown while they stand |
| `challenge_series` | 3 users, series of 1 and 3 games, 3 games | 1,531,518 | each result is rated once |
| `tournament_rounds` | Swiss of 3 to 5, round robin of 3 and 4, brackets of 2 and 4, two upsets | 1,317,962 | pairing, advancement, elimination, ranks |
| `tournament` | Swiss of 3, round robin of 2, bracket of 2, two kinds of series, one upset, fair | 29,062 | the life of pairings implements the rounds, and tournaments end |
| `move_delivery` | 2 cells, 2 games, 2 moves, 2 faults, 1 undo, fair | 748,464 | moves are applied once, seen in order, and nobody stays stuck |
| `feeds` | 2 pages, 2 items, each of 6 feeds, 2 changes, 1 drop, 1 change of screen, fair | 1,853,751 | a page is right but for named reasons, and catches up |
| `tournament_crash` | bracket of 4 | | violated, see below |

### Why the bounds are enough

- Seven cells hold the longest opening (three stones, two more, both choices)
  and two moves of play, so an undo can reach from play back into every phase,
  and a full board occurs, and requests become stale in between. Rows play no part
  in the opening, as in the code, which does not look for a win before it is over.
- In the clock runs rows matter only for the end of a game: the Swap2 run has no axis,
  and its cells are symmetric. In the plain one three in a row win, five cells are in a row
  and three in a column that is one only through the portals, so that a row can be blocked at
  an end and freed by an undo, and can be of either colour. It plays Caro; the other two
  rules were checked on the same board, also with two in a row, without which its six cells
  hold no row that is too long, and `OutcomeCorrect` is about all three. Two seconds are enough for a side to have lost
  some time, all but one second, and all of it. `MaxSeconds` bounds what increments
  and extra time collect; an action that would exceed it is left out, and no
  property needs it to happen.
- Two players and a third user are the fewest that give a room a pair, a
  viewer, a host who is neither, and a departure that hands the host on. One room
  suffices for what happens within a room; two rooms with two users give a user
  who returns to another room while a timer of the first is pending. Three users
  and two rooms together have millions of states and were only searched for
  counterexamples. `BooksAgree` holds there as well: it is proved for any number
  of either. `ClockFollowsState` does not: with a third user it fails in the way
  described below, and is proved for the behaviours without it.
- Misses go to the limit of three, the value in the code. `MaxUsers` is not
  reached.
- In the lobby, three users give a pair and somebody it is taken from. Two rooms and
  one from each address let a pair be refused for its address while there is a room left,
  and for the rooms in all; an address with a room that was left may have one more made by
  hand. Three sockets are enough for one to be new to
  every entry. The ratings are one and three windows apart and the window grows for
  two ticks, so some pairs meet at once, some later. With one offer at a time and
  two partners `MAX_OUTGOING` is not reached as a limit of its own.
- Three games decide a series of three in every way and leave one over for a game
  beside it; one for a series of one. A third user can take a seat.
- A field of four is the least in which a bracket has a losers' round that waits
  for two others and in which a Swiss round can be paired badly; five adds the bye.
  Upsets (withdrawals, voided and released pairings) change who meets whom, and
  two let one fall into the cascade of another. `tournament` has the fewest players,
  because the life of every open pairing multiplies the states, and leaves large
  fields to `tournament_rounds`.
- Two games let the retry of a move arrive in the next game. Two faults lose a move
  and its resend, or their answers, which is what leads `sendMove` to its resync; a third
  can be the resync itself, after which nothing is tried (see below).
- A page that subscribes while another listens needs two; an item that changes twice
  within one window, or changes and is sent while another is not, needs two changes
  and two items. The initial list, of at most one item, takes the place of earlier changes;
  the home screen has one, its numbers. Two values
  let a room change without coming or going. A drop and a change of screen are
  enough for one to happen while the other is not over.

Symmetry: users are interchangeable in `CasualRoom` and so are rooms; cells are
where there is no axis. Runs of liveness
properties use none.

Deadlock is not checked where the system really may stop: a finished game, a
tournament that is over, two players of whom nobody moves. It is in the others.

The remaining configurations, which no run in the table uses, reproduce the
disagreements listed below.

### Fairness

- `FairSpec` of `CasualRoom`: each armed timer fires unless it is cancelled
  first. `setTimeout` and the clock's interval guarantee this. Nothing is assumed of
  users, and nothing of the idle sweep or the orphan sweep, so no property relies
  on them.
- `FairMatchSpec` of `MatchClock` and `FairTmatchSpec`: while the interval is set,
  the second passes.
- `Lobby`: the ticker runs while somebody waits, and so a tick that would change
  something happens.
- `Tournament`: the deadline sweep finds what is overdue (an interval), a game that
  is played ends (`TournamentGameEnds` of `TournamentMatch`), the organizer rules on
  a dispute that waits for him, and a series is not drawn for ever. The last two are
  assumptions about people, without which the code has no end either; nothing is
  assumed of players.
- `FairSpec` of `Feeds`: timers expire, sockets deliver and reconnect; a home screen that
  is shown asks again (an interval) and is answered. Nobody has to look at a page.
- `FairSpec` of `MoveDelivery`: packets that are not lost arrive, armed timers
  fire. Nobody has to move.

The liveness properties of rooms say what follows once connections are quiet
(`<>[](Present = S)`, for any set `S` of users). Without this they would be
false: two players who take turns at being away can keep a game interrupted for
as long as they like, since each return cancels a timer and each drop
starts one. The same reason makes `GameIsDecided` assume that pauses end, and
`TournamentGameEnds` that players do not grant each other time for ever.

## Properties

The engine: whose turn it is follows from the stones (`TurnFollowsStones`), the
snapshots of the opening are states it can be in and the newest one precedes the
present state (`SnapshotsSound`), a pending undo can be carried out
(`UndoRequestApplies`), the result agrees with the board (`OutcomeMatchesBoard`), the
WALL rules hold of what an undo leaves (`WallRulesSurviveUndo`). That board and history
agree, that colours alternate and that the opening is in one of the states its phases
allow are lemmas of the proof.

The clock: `ClockOnMover`, `TimeIsSpentOnTurn`, `FullClockPerMove`,
`GameIsDecided`; in a tournament `ClockStraysOnlyAtHandovers`, which names the two
places where it is on the wrong side, `ExtraTimeGoesToAsker`, `TournamentGameEnds`.

The room: `BooksAgree` is the conjunction of what its records say of each other
(rooms, members and seats; presence marks and sockets; state, game and pair; a
grace timer finds its user in its own room, or in one they have not come to; each absent seat has one; misses
belong to the present pair), `RoomsWellFormed` adds types, join order and host. Then
`ClockFollowsState`, `GraceLeavesNoGhosts`,
and in the long run `InterruptionsResolve`, `AbsentSeatsAreFreed`, `GamesAreFinished`.

Pairs: `NobodyWaitsBesideAMatch`, `PlacesAreLostForARoom`, `WaitersMeet`,
`OffersAreNotified`, `EveryResultIsRatedOnce`.

Tournaments: `RoundsAreFair`, `ActiveHasAMatch`, `EveryDecisionCountsOnce`,
`TwoLossesEliminate`, `RanksAreAPodium`, `ResultsAreFinal` of the rounds;
`PairingsAreTimed`, `OpenSeriesAreUndecided`, `TournamentsEnd` of the pairings, and
`ImplementsRounds`: under the mapping `Seen`, which hides the life of pairings,
every step of `Tournament` is a step of `TournamentRounds` or a stutter.

Moves: `ViewsArePast` (what a player sees is a past position of the game),
`PlayersRecover`, and `ImplementsLedger`: the ledger is written from the server's
history, its remembered answers and what the clients have been told.

Feeds: `DriftHasACause` (a page that has heard everything is right, or its item was
changed unannounced, changed and changed back around the subscription, belongs to a
tournament of which nothing was sent since the restart, or changed while a game waited
for the user; on the home screen, also, an unannounced change was put in the baseline by
another page's subscription, or an answer to the page's own request is not what was last
pushed) and `PagesCatchUp` (a page that stays on the screen gets there; the home screen, by
its requests, to what the server has).

## Disagreements between the code and what it says

One is a run whose property TLC finds violated:

- `tournament_crash`: the server goes down after the result of a bracket match is
  saved and before the matches it makes known are created. On restart nothing
  creates them, and the tournament has nothing to play (`TournamentManager.js:284`).

Others have a property and a configuration with which TLC shows them, in
parentheses, but are not among the runs:

- An accepted undo leaves the remembered answers to moves alone.
  A move whose ack was lost or late is taken back; its retry is then answered by
  replaying its `game:moved`, whose count follows the client's, so that the client
  draws a stone the game does not have (`GameHandler.js:86`;
  `room-socket.js:315-316`: "A move-delta is only safe to apply on top of the exact
  state it was computed from"; `DeltasFit`, `MCMoveDeliveryUndo.cfg`). The next resync
  repairs it.
- After a restart the first update of a tournament is compared with nothing, so that a
  player who unregisters stays on the pages that were told of them
  (`UnregisteredAreRemoved`, `MCFeedsRestart.cfg`; `TournamentHandler.js:108`;
  `tests/TournamentHandler.test.js:598`: "an unregistered entry appears in removed").
- A user who is offline for less than a window, as between two pages, is in no delta; who
  subscribes meanwhile misses them (`SubscribersMissNothing`, `MCFeedsWindow.cfg`;
  `state.js:290`; `docs/todo/B230-online-users-delta.md`: "must not miss or double a
  delta").
- An extra-time request while the opening has no colours credits the white side,
  whoever asks (`BonusGoesToAsker`, `MCMatchClockBonus.cfg`; `GameHandler.js:567`).
- A player drops, the opponent resigns, the player returns:
  `cancelDisconnectGrace` finds no game and leaves the timer, which ends the next
  game and evicts the connected player (`GraceEvictsTheAbsent`,
  `MCCasualRoomStaleGrace.cfg`; `DisconnectHandler.js:381`).
- Start may be clicked while a game is interrupted; a click survives its player's
  next drop, and the opponent's click then starts a game whose clock runs against
  the absent one (`PausedWhileAway`, `MCCasualRoomClockAway.cfg`;
  `RoomManager.js:455`).
- The stale timer of the second item is overwritten when its user drops out of a
  game in another room; the game it was to end remains interrupted with nothing to
  end it (`InterruptedIsTimed`, `MCCasualRoomLostTimer.cfg`;
  `DisconnectHandler.js:297`).
- A player is kicked while away and then seated in a new room by a challenge; their
  old grace timer takes them out of the new room, and if that room is destroyed by
  it, `finalizeNormalLeave` drops the clock of the old one, where others may play by
  now, for the rest of their game (`ClockFollowsState` with a third user, `MCCasualRoomDroppedClock.cfg`;
  `DisconnectHandler.js:143`; `DisconnectHandler.js:133`: "Apply the result of
  roomManager.leaveRoom()").
- A game of a series that could not be saved is rated with the series
  (`RatedGamesExist`, `MCChallengeSeriesUnsaved.cfg`; `GameHandler.js:990`: "so
  rating_history never points at a game that doesn't exist").
- In a bracket of three, the bye of whom a phantom seed leaves without an opponent
  in the losers bracket has its empty seat first, where `createPairing` does not
  look: the pairing has one player and waits for its deadline
  (`ByesResolveAutomatically`, `MCTournamentRoundsThree.cfg`; `doubleElim.js:172`).
- In a tournament the clock of the player who waits may go down, in the first turn
  of an odd game and after a choice of colours (`OnlyTheMoverIsCharged`,
  `MCTournamentMatchCharged.cfg`; `TimerManager.js:21`).

Some more are found by changing a bound or a property:

- A Swap2 opening undo that is requested before, and accepted after, the opponent's
  first move takes back that move with the choice
  (`OpeningUndoStepsBackOneAction` of `GameEngine`; `GameEngine.js:559`: "exactly one
  atomic action").
- `NobodyIsStuck` of `MoveDelivery`: when a move's `game:moved` is lost, its ack
  arrives and it is taken back, `game:undo_applied` disarms the watchdog that would
  have cleared the pending stone.
- `PlayedOnce`: the retry of a move that ended the game may land in the next one,
  because `handleGameEnd` resets the remembered answers.
- `PlayersRecover` excepts what fails: a stone that two faults leave pending at the end of a
  game stays in the next, since a `game:init` does not clear it (`LeftOver`), and with three
  faults in one game, a move, its resend and the resync that follows, nothing more is
  tried. A lost `game:init` is not noticed, and a resync between two games brings no state.

Others follow from a definition directly. `OfferDraw` has no
turn guard, while `GameEngine.js:490` says only the player to move can offer.
`GrantPlayUndo` credits a blitz increment to the side that did not lose a stone
(`TimerManager.js:22`: "after a valid move"), and leaves a requester who is to move
with what is left of a per-move clock (`features/undo/planning.md:51-55`).
`ChooseColour` hands the turn over without a fresh per-move clock
(`TimerManager.js:7`), for which reason `FullClockPerMove` is checked without the
opening. `Disconnect` leaves the countdown and the misses alone
(`RoomManager.js:28`), `DiscGraceExpires` leaves the countdown running with a seat
free (`RoomManager.js:593`) and does not reap ghosts
(`DisconnectHandler.js:109`). `UpdateSettings` is allowed while a game is
interrupted (`GameHandler.js:837`). A challenger who never came, whom the ready
window has unseated after three misses and whose seat a third user has taken for a
game, is skipped by `SeatCheck` and stays in the room, "active", for good;
`ChallengeService.js:204` says it frees "anyone seated by challenge who never
connected". For this reason `BooksAgree` makes no claim about who
passes for present without a seat. The idle sweep drops the games of a running
series unrated, and kicking a player does not end the series. The page of a tournament
does not ask again after its socket dropped (`tournament-detail.js:113`), which
`Watching` excludes. A player who returns to a game is not sent the room
(`ReturnToGame`; `DisconnectHandler.js:437`). The interruption of a game changes the
list of rooms and is not announced to the lobby, and when a tick drops an entry, or a pair
that is refused a room, fewer search and the home screens are not told until they
ask (`ChangeQuietly`; `MatchHandler.js:95`). A pair that is refused a room for the address
of one of them loses both places (`MatchHandler.js:74-76`).

## Proofs

What the runs show on small instances, eight modules prove for all values of the
constants. They assume no more than the `ASSUME`s of the modules, but for the
theorems that name a condition: `OutcomeCorrect` and `FullClockCorrect` (games without the
opening; the first also on boards that are `Straight`), `ClockFollows` (`GracesExpireAtHome`), and four about tournaments that are not
brackets (`RoundsGoOn`, `RoundsRankAPodium`, `RoundResultsAreFinal`, `RoundsHealAfterCrashes`). The `ASSUME`s say that constants have
their types, that `None` and its like are none of the values they are told apart from,
and that socket ids are numbers, of which a new socket takes the least that is free.

`Invariance` (`MatchClockProofs`) proves `Spec => []IInv` for every board and winning
rule, with or without opening and walls. `IInv` is the conjunction of the type
invariant and six invariants about board, turn, opening and undo. None of
them is inductive alone. An accepted opening undo restores phase, turn, stone
count and colours from the top snapshot, so that the state after it is well formed
only because `SnapshotsSound` says the snapshot was; that again is kept by a
placement only because `OpeningWellFormed` says what is being pushed, and by a
pop only because it speaks of the whole stack. An accepted play undo leaves the
right player to move because `UndoRequestApplies` ties the target of the request
to a stone of the requester, `ColoursAlternate` says whose the stones above it
are, and `TurnFollowsStones` whose turn it would be. The proof that `Next` keeps
`IInv` has a lemma per action. `OutcomeCorrect` proves `OutcomeMatchesBoard` for games
without the opening, under all three rules. The property knows nothing of the last stone: a
row is a least set of stones that no step along an axis leaves (`IsRow`), and it wins by its
length and its ends (`RowWins`). `LineIsClosed` and `LineIsLeast` show that what the walk
collects is the row of its stone, `BlockedAtTheEnd` that its ends are the row's. `Decided` adds
to the property that no row wins in any position the moves so far have passed through: a
move makes or lengthens rows only through its own cell, and of others it can only block an
end; an undo frees ends and shortens rows, but goes back to one of those positions
(`TakenBack`). The condition `Straight`
says that a row reads the same from each of its stones, and TLC checks it for the board of the
run. Every board without portals is straight; one where two pairs of portals interlock on one
axis need not be, and there what `_checkWin` finds depends on which stone came last. With the
opening the result would have to be related to stones nobody looked at for a win.
`WallsCorrect` proves `WallRulesSurviveUndo`: an undo leaves a prefix of a history
whose first and third stones were checked when they were laid.

`MatchInvariance` adds `ClockInv`: types, labels and
`ClockOnMover`, in every time mode. It uses the engine's invariant through
`MatchPlaysTheGame`, which proves that each step of the match is a step of the engine
or leaves the engine alone, so that a match implements the engine's specification.
`TimeoutCorrect` proves that a timeout is lost by whoever is to move, and
`TimeSpentCorrect` that nothing but a second on turn takes time from a player, also
where colours are taken and the sides of the clock change their owner.
`FullClockCorrect` needs to know that the side which waits has a whole clock
(`WaiterIsFresh`): an accepted undo hands the turn back without a fresh one.

`TournamentMatch` has other handlers over the same engine and clock. `TmatchPlaysTheGame`
proves that it, too, implements `GameEngine`'s `Spec`; `TmatchInv` replaces `ClockOnMover`
by `ClockStraysOnlyAtHandovers`, which is inductive with the types of the clock
(`HandoversCorrect`), and `ExtraTimeCorrect` follows from the labels of its sides.

`BooksAlwaysAgree` (`CasualRoomProofs`) proves `Spec => []BooksAgree` for any users,
rooms and timers. `BookInv` replaces two of its parts by stronger ones: whoever has a
seat and passes for present without a socket has never come, is about to be checked,
has not clicked and is in a room without a game (`StrangersAreAwaited`); every other
absent seat has a grace timer, not merely a seat check (`MarkedAreTimed`). Both are
needed for the seat check, which does nothing in a room where a game has begun: that
no stranger is left there is so because a game begins only when every seat has been
clicked. One lemma, `DepartKeeps`, covers all the ways to leave, another, `SeatingKeeps`,
those to move between seats. `ClockFollows` proves `ClockFollowsState` for the
behaviours in which no empty-room or spectator grace period finds its user in another
room (`GracesExpireAtHome`); without that it is false, as described above.
`GraceReapsGhosts` proves the action property `GraceLeavesNoGhosts`.
`RoomsStayWellFormed` adds `ResidenceInv` to `BookInv`: the join order lists the members
of a room once each, the host is one of them, and the ready window is open only while a
click is missing, without which the count of misses would pass its limit.

`DeliveryImplementsLedger` (`MoveDeliveryProofs`) proves the refinement
`Spec => ImplementsLedger` for any number of games, moves, faults and undos. That a
move is entered once follows from the answers the server remembers. That a
refusal is final needs `DeliveryInv`: an "error" a client still waits for leaves no copy of
the move on the way to the server, since a client waits for one try at a time, the
second is sent after the first timed out, and the queue keeps them in order
(`TriesOK`). Queues are handled by lemmas about what is in a sequence after an
append or a tail. `ViewsCorrect` proves that players see past positions (`ViewsArePast`).
Its invariant `PastInv` speaks of what is on its way: a `game:moved` carries a count and no
position, so each one in a queue, or remembered as the answer to a retry, has to fit
the history of the game its receiver shows by the time it gets there, which with several games
depends on the `game:init` and `game:ended` before it in the queue.

`LobbyProofs`: `NotificationsCorrect` needs that there is one offer per direction and a
timer for each pending offer and no other, since a timer removes its offer unseen.
`NobodyWaitsCorrect` proves `NobodyWaitsBesideAMatch` for queues of any length. `QueueInv`
adds that a user has one entry, made with the socket they have. Within a pass the proof is
an induction over the entries served: whoever is still on the list and has been served
matches nobody who is still on it. `LossesCorrect` proves
`PlacesAreLostForARoom` by a second induction, over the pairs that are seated. Its
first attempt failed and showed the property to be too strong as it stood: it asked that
the rooms were full before the pass, but with four users an earlier pair of the same pass
may take the last room, and the second pair loses its places (`MatchHandler.js:77-81`).
It now speaks of the rooms after the pass; the run has three users and could not tell.
Whether the pair was refused is asked of the address of either, since the property does not
say who of them was older.

`DriftCorrect` (`FeedsProofs`) proves `DriftHasACause` for any pages, items, values and
changes. A page that has heard everything is the end of a queue, so `FeedInv` says what
a page will show of each item once its messages have arrived: what the server last told of it,
unless a reason is on record that the next flush mends or that the property admits. An answer
of `/api/home` puts its reason on record when it is shown and differs from what was last told.

`ChallengeSeriesProofs`: `RatingsCorrect` proves `EveryResultIsRatedOnce` for series of any
length. `SeriesInv` gives each game one place: lost, waiting in its series, in one queued
job, or counted, and none before its end. An open series has its challenger as the host of its
room, which therefore is not empty, and lost with its series, before she leaves, and that
closes the series; and whether it is rated is what the room says, since settings are refused
while it lasts. Both are needed. `TypesCorrect` proves the type invariant, by
induction over the jobs of a batch.

`TournamentProofs` has three layers.

The algorithms. `FinalTableIsPodium`: whatever was completed, the final table ranks
everybody, and a rank is one more than the number of those ahead; the tie-breaks are keys
of integers, compared lexicographically. `SwissRoundSeatsOnce`: any table is paired so that
everybody has one seat, or one bye, which goes to somebody who had one only if all had;
the walk down the table is an induction over its places. `AllRoundsAreFair`: the circle method seats
everybody once in each round, and nobody meets the same player twice, for any number of
players, odd ones included: the places of two that meet determine the round,
since the circle is of odd length.

The cascades, of any state `t`, reachable or not. `Sound(t)` says that the record is
consistent: the entries are distinct numbers, pairings are numbered by round,
place and replay, a replay has a voided match before it, what is decided is what `completed`
counts, and a bracket has finitely many matches. Each function of `Advancement` is shown
to keep `Sound` and to change no decided pairing, the loops by a lemma that hands
out the state after each turn (`...Runs`). `DecisionsCountOnce` (`EveryDecisionCountsOnce`),
in every format, is a conjunct of it and needs the others: a match numbered
like an existing one would be counted again. `DecisionsAreFinal` says that a decided pairing keeps
its winner.

For the formats with rounds `RoundsInv` adds `Begun`. The fairness of the rounds so far
(`Seating`) is not inductive: that the next Swiss round is fair needs that who is paired had
no bye beyond their due, and that of a round robin that all rounds come from
one schedule (`Scheduled`), also where one is materialized long after the start. That the
rounds go on needs `Attended`: an open match has two players who are both still there, else
its forfeit would have nobody to win it; and that open matches are of the current round. From
this `RoundsStayFair` (`RoundsAreFair`), `RoundsGoOn`
(`ActiveHasAMatch`), `RoundsRankAPodium` (`RanksAreAPodium`) and `RoundResultsAreFinal`
(`ResultsAreFinal`). The last three name the formats with rounds. Of a bracket
`RoundsGoOn` would need that what `ResolveBracket` finds, a recursion over a
graph of matches, leaves one match with known seats; and a completed
bracket may have an open match, the one without an opponent described above, so that
"completed means settled" is no invariant there.

The served tournament. `TournamentIsSound` has for each pairing what it waits for
(`LifeGood`): phase, reports and check-ins of its own players, a deadline or a timer, and
`Undecided`, the games of its series so far decide nothing, after each of them. The invariant is
kept by `Hydrate`, which rebuilds lives and standings from the rows, because
what is lost with a restart is what is not saved and what is read back is what `Sound` says of the
saved part. `PairingsStayTimed` (`PairingsAreTimed`) and `SeriesAreUndecided`
(`OpenSeriesAreUndecided`) follow. `RoundsInv`, too, is an invariant of `Tournament`
(`ServedRoundsAreInvariant`), shown from its own steps and not by way of the
refinement: `ServedDecisionsCountOnce`, `ServedRoundsStayFair`. `RoundsHealAfterCrashes` is what
`_hydrateFormatState` means to do: a tournament of rounds that comes back after a crash
between a result and its consequences is over, with its podium, or has a match to play. For
a bracket the run `tournament_crash` refutes it.

These proofs use one assumption besides `LifeAssumption`: entries are not `Nobody`
(`NobodyIsNoEntry`). There is none on the size of the field, the bounds or the rules of a
series. Writing them changed the model once: the cascades were recursive
operators before, with the results the runs still find.

A filter is a recursive function of a sequence, about which nothing can be proved here;
`Subsequences` therefore says which positions it keeps, and `SubsequenceProofs` that the
result has the elements at these positions, each once and in their order. A loop (`PairUp`,
`SeatAll`, `SwapsAfter`) is a recursive function on the numbers up to a bound; for each, one
lemma shows that the function with these values exists, by induction over sets of numbers.

Only model-checked:

- liveness and what rests on `ENABLED`, which are beyond the prover: `GameIsDecided`,
  `InterruptionsResolve`, `AbsentSeatsAreFreed`, `GamesAreFinished`, `WaitersMeet`,
  `PlayersRecover`, `PagesCatchUp`, `TournamentGameEnds`, `TournamentsEnd`;
- what depends on how a bracket unfolds: `TwoLossesEliminate`, and the brackets in
  `ActiveHasAMatch`, `RanksAreAPodium` and `ResultsAreFinal`. The bracket is
  resolved by recursion over the graph of its matches, whose shape is computed from a
  power of two and a seed order;
- `ImplementsRounds`, the refinement between `Tournament` and `TournamentRounds`: each
  cascade would have to be shown to commute with `Seen`. What the rounds promise is
  proved of `Tournament` directly instead.

## Not modelled

Board generation; the rating formula; passwords and the flood guard; accounts, clubs, forum, puzzles, news and
administration; most of the client. The last groups are input and output around
single database transactions or rendering, with no protocol to check; the rating
formula is floating-point arithmetic.

Of tournaments: a failure to generate a board in `startMatch`, which leaves a pairing
that is in progress without a match; a crash in the middle of creating the pairings
of a round; who may do what (`TournamentHandler.js` checks roles).
`_completeTournament` may run again in a cascade of withdrawals from a bracket, to no
effect. After a restart completed pairings come back in another order, which the
tie-break `LastResult` would see only if two players met twice in one round.

## Plan

1. Proofs about brackets: that two losses eliminate and that one match is always left, from
   a description of the resolved bracket that is not recursive.
