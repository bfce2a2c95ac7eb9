-------------------------- MODULE ChallengeSeries --------------------------
(***************************************************************************)
(* The room of an accepted challenge, from seat to rating: the best-of-N   *)
(* series of server/managers/ChallengeSeries.js that hangs on it, the way  *)
(* handleGameEnd and finishSeries of server/socket/handlers/GameHandler.js *)
(* and leaveRoom of server/managers/RoomManager.js drive it, the stake     *)
(* checks of server/managers/ChallengeService.js, and the queue of         *)
(* server/managers/RatingService.js that writes ratings a batch at a time. *)
(*                                                                         *)
(* A rating is arithmetic and is not here: what is here is which games it  *)
(* is computed from, and how often.  Whether the winner of a series ends   *)
(* up below the loser, which the stake depends on, is left open.  How a    *)
(* game is played, and both players' ready clicks, are CasualRoom's.       *)
(***************************************************************************)
EXTENDS Subsequences, SequencesExt

CONSTANTS
  Ann, Bob,    \* the challenger, who gets seat 1, and the accepter
  Eve,         \* somebody else
  None,        \* nobody, no room, no game, no series
  Totals,      \* how many games a challenge may be about
  MaxGames     \* bound on the games of a behaviour

Users   == {Ann, Bob, Eve}
Pair    == {Ann, Bob}
GameIds == 1..MaxGames
Winners == Users \cup {"draw"}

Games   == [id : GameIds, ranked : BOOLEAN,
            players : {S \in SUBSET Users : \E u, v \in S : u # v /\ S = {u, v}}]
Series  == [total : Totals, stake : {"none", "swap"}, rated : BOOLEAN,
            games : Seq([id : GameIds, winner : Winners])]
Rooms   == [users : Seq(Users), seats : [1..2 -> Users \cup {None}], ranked : BOOLEAN,
            game : Games \cup {None}, series : Series \cup {None}]
Results == [id : GameIds, rated : BOOLEAN, saved : BOOLEAN]
Job     == [games : SUBSET GameIds, staked : BOOLEAN]

ASSUME ChallengeSeriesAssumption ==
  /\ Cardinality({Ann, Bob, Eve}) = 3
  /\ None \notin Users /\ None \notin Games /\ None \notin Series /\ None \notin Rooms
  /\ Totals \subseteq Nat \ {0}
  /\ MaxGames \in Nat

VARIABLES
  room,     \* users in the order they joined, the host first; seats, ranked,
            \* game and series; or None
  results,  \* games with a result: [id, rated, saved], as they ended
  pending,  \* the jobs queued for rating
  counted,  \* how often each game has been put into ratings
  lost,     \* games whose batch failed, or whose series was swept away
  swaps     \* swaps of the pair within one cooldown period

vars == <<room, results, pending, counted, lost, swaps>>

TypeOK ==
  /\ room \in Rooms \cup {None}
  /\ room # None =>
       /\ room.users # <<>> /\ IsInjective(room.users)
       /\ {room.seats[1], room.seats[2]} \subseteq Range(room.users) \cup {None}
       /\ room.game # None => room.game.players \subseteq Range(room.users)
  /\ results \in Seq(Results)
  /\ pending \in Seq(Job)
  /\ counted \in [GameIds -> Nat]
  /\ lost \subseteq GameIds
  /\ swaps \in Nat

Init ==
  /\ room = None
  /\ results = <<>>
  /\ pending = <<>>
  /\ counted = [g \in GameIds |-> 0]
  /\ lost = {}
  /\ swaps = 0

(***************************************************************************)
(* The series.                                                             *)
(***************************************************************************)
Wins(s, p)  == Cardinality({i \in DOMAIN s.games : s.games[i].winner = p})
Lead(s)     == LET a == Wins(s, Ann)
                   b == Wins(s, Bob)
               IN  IF a >= b THEN a - b ELSE b - a
GamesLeft(s) == s.total - Len(s.games)

\* Nothing is left to play, or the lead exceeds what is left.
IsDecided(s) == GamesLeft(s) <= 0 \/ Lead(s) > GamesLeft(s)

\* finish(): every game of the series in one job.  The stake is the winner's,
\* so a tie has none to pay.
RatingJob(s) ==
  [games  |-> {g.id : g \in Range(s.games)},
   staked |-> s.stake = "swap" /\ Wins(s, Ann) # Wins(s, Bob)]

\* finishSeries and recordSeries: close the series, which nothing but the
\* display reads any more, and queue it if it is rated and any game was played.
FinishSeries(st) ==
  LET s == st.room.series
  IN  [room    |-> [st.room EXCEPT !.series = None],
       pending |-> IF s # None /\ s.rated /\ s.games # <<>>
                   THEN Append(st.pending, RatingJob(s)) ELSE st.pending]

\* isSeriesPair: the game was between exactly the two of the series.
InSeries(r) == r.series # None /\ r.game.players = Pair

(***************************************************************************)
(* handleGameEnd, first half: a result is saved, or fails to be, and goes  *)
(* to the series or to the rating queue.  A game by anybody but the pair   *)
(* ends the series before that.                                            *)
(***************************************************************************)
Recorded(st, winner, saved) ==
  LET g       == st.room.game
      inside  == InSeries(st.room)
      before  == IF inside THEN st ELSE FinishSeries(st)
      alone   == [games |-> {g.id}, staked |-> FALSE]
  IN  IF inside
      THEN [before EXCEPT !.room.series.games = Append(@, [id |-> g.id, winner |-> winner])]
      ELSE IF g.ranked /\ saved
           THEN [before EXCEPT !.pending = Append(@, alone)]
           ELSE before

\* ... and second half: the room is idle again and a decided series is closed.
GameOver(st) ==
  LET inside == InSeries(st.room)
      idle   == [st EXCEPT !.room.game = None]
  IN  IF inside /\ IsDecided(idle.room.series) THEN FinishSeries(idle) ELSE idle

State == [room |-> room, pending |-> pending]

HandleGameEnd(winner, saved) == GameOver(Recorded(State, winner, saved))

Departed(st, u) ==
  LET r     == st.room
      rest  == Without(r.users, {u})
      seats == [s \in 1..2 |-> IF r.seats[s] = u THEN None ELSE r.seats[s]]
  IN  [st EXCEPT !.room = IF rest = <<>> THEN None
                          ELSE [r EXCEPT !.users = rest, !.seats = seats]]

LeaveRoom_Quiet(st, u) == Departed(st, u)

\* RoomManager.leaveRoom: one of the pair walking out ends a running series.
LeaveRoom(st, u) == Departed(IF u \in Pair THEN FinishSeries(st) ELSE st, u)

Becomes(st) == room' = st.room /\ pending' = st.pending

Ended(saved) ==
  results' = Append(results, [id |-> room.game.id, rated |-> room.game.ranked, saved |-> saved])

(***************************************************************************)
(* Actions.                                                                *)
(***************************************************************************)

\* checkStake: a swap needs a rated challenge and a pair whose cooldown is over.
StakeAllowed(stake, ranked) == stake = "swap" => ranked /\ swaps = 0

\* accept(): both are seated in a room of their own, with a series if there is
\* more than one game to it or anything at stake.
AcceptChallenge(total, stake, ranked) ==
  /\ room = None
  /\ StakeAllowed(stake, ranked)
  /\ room' = [users |-> <<Ann, Bob>>, seats |-> <<Ann, Bob>>, ranked |-> ranked, game |-> None,
              series |-> IF total = 1 /\ stake = "none" THEN None
                         ELSE [total |-> total, stake |-> stake, rated |-> ranked,
                               games |-> <<>>]]
  /\ UNCHANGED <<results, pending, counted, lost, swaps>>

Join(u) ==
  /\ room # None
  /\ u \notin Range(room.users)
  /\ room' = [room EXCEPT !.users = Append(@, u)]
  /\ UNCHANGED <<results, pending, counted, lost, swaps>>

Idle == room # None /\ room.game = None

Sit(u, s) ==
  /\ Idle
  /\ u \in Range(room.users)
  /\ room.seats[s] = None
  /\ room' = [room EXCEPT !.seats = [i \in 1..2 |-> IF i = s THEN u ELSE IF @[i] = u THEN None ELSE @[i]]]
  /\ UNCHANGED <<results, pending, counted, lost, swaps>>

Stand(s) ==
  /\ Idle
  /\ room.seats[s] # None
  /\ room' = [room EXCEPT !.seats[s] = None]
  /\ UNCHANGED <<results, pending, counted, lost, swaps>>

\* kickUser: the host puts somebody out.  Nobody walks out, so the series goes on.
Kick(u) ==
  /\ Idle
  /\ u \in Range(room.users) \ {Head(room.users)}
  /\ room' = Departed(State, u).room
  /\ UNCHANGED <<results, pending, counted, lost, swaps>>

\* updateSettings, refused while a series is running.
ToggleRanked ==
  /\ Idle
  /\ room.series = None
  /\ room' = [room EXCEPT !.ranked = ~@]
  /\ UNCHANGED <<results, pending, counted, lost, swaps>>

StartGame ==
  /\ Idle
  /\ None \notin {room.seats[1], room.seats[2]}
  /\ Len(results) < MaxGames
  /\ room' = [room EXCEPT !.game = [id |-> Len(results) + 1, ranked |-> room.ranked,
                                    players |-> {room.seats[1], room.seats[2]}]]
  /\ UNCHANGED <<results, pending, counted, lost, swaps>>

\* A game ends by play, resignation, agreement or timeout.
EndGame(winner, saved) ==
  /\ room # None /\ room.game # None
  /\ winner \in room.game.players \cup {"draw"}
  /\ Becomes(HandleGameEnd(winner, saved))
  /\ Ended(saved)
  /\ UNCHANGED <<counted, lost, swaps>>

\* room:leave: a player of the game resigns it first.
Leave(u, saved) ==
  /\ room # None
  /\ u \in Range(room.users)
  /\ IF room.game # None /\ u \in room.game.players
     THEN /\ Becomes(LeaveRoom(HandleGameEnd(CHOOSE w \in room.game.players : w # u, saved), u))
          /\ Ended(saved)
     ELSE /\ Becomes(LeaveRoom(State, u))
          /\ UNCHANGED results
  /\ UNCHANGED <<counted, lost, swaps>>

\* A disconnect grace that expires: the game has no result and its player goes.
DropOut(u) ==
  /\ room # None /\ room.game # None
  /\ u \in room.game.players
  /\ Becomes(LeaveRoom(GameOver(IF InSeries(room) THEN State ELSE FinishSeries(State)), u))
  /\ UNCHANGED <<results, counted, lost, swaps>>

\* _idleCleanup destroys the room without a word to its series.
Sweep ==
  /\ Idle
  /\ room' = None
  /\ lost' = lost \cup IF room.series # None
                       THEN {g.id : g \in Range(room.series.games)} ELSE {}
  /\ UNCHANGED <<results, pending, counted, swaps>>

(***************************************************************************)
(* The rating queue.                                                       *)
(***************************************************************************)
\* rateSeries: the stake is paid if the winner is still the lower rated and the
\* pair has not swapped meanwhile.
Swapped(n, job, below) == IF job.staked /\ n = 0 /\ below THEN n + 1 ELSE n

\* The jobs of a batch one after the other: each sees the swaps before it.
SwapsAfter(jobs, below) ==
  LET after[k \in 0..Len(jobs)] ==
        IF k = 0 THEN swaps ELSE Swapped(after[k - 1], jobs[k], below)
  IN  after[Len(jobs)]

\* How many jobs a game is in.
Jobs(jobs, g) == Cardinality({i \in DOMAIN jobs : g \in jobs[i].games})

\* flush(), a batch in one transaction.
Flush(below) ==
  /\ pending # <<>>
  /\ counted' = [g \in GameIds |-> counted[g] + Jobs(pending, g)]
  /\ swaps' = SwapsAfter(pending, below)
  /\ pending' = <<>>
  /\ UNCHANGED <<room, results, lost>>

\* ... and the transaction that fails writes nothing.
FlushFails ==
  /\ pending # <<>>
  /\ lost' = lost \cup UNION {job.games : job \in Range(pending)}
  /\ pending' = <<>>
  /\ UNCHANGED <<room, results, counted, swaps>>

\* SWAP_COOLDOWN_MS go by.
CooldownOver ==
  /\ swaps # 0
  /\ swaps' = 0
  /\ UNCHANGED <<room, results, pending, counted, lost>>

Next ==
  \/ \E n \in Totals, stake \in {"none", "swap"}, ranked \in BOOLEAN : AcceptChallenge(n, stake, ranked)
  \/ \E u \in Users : Join(u)
  \/ \E u \in Users, s \in 1..2 : Sit(u, s)
  \/ \E s \in 1..2 : Stand(s)
  \/ \E u \in Users : Kick(u)
  \/ ToggleRanked
  \/ StartGame
  \/ \E w \in Winners, saved \in BOOLEAN : EndGame(w, saved)
  \/ \E u \in Users, saved \in BOOLEAN : Leave(u, saved)
  \/ \E u \in Users : DropOut(u)
  \/ Sweep
  \/ \E below \in BOOLEAN : Flush(below)
  \/ FlushFails
  \/ CooldownOver

Spec == Init /\ [][Next]_vars

(***************************************************************************)
(* What must be true.                                                      *)
(***************************************************************************)
Uses(g) == counted[g] + Jobs(pending, g)
Awaiting == IF room # None /\ room.series # None THEN {x.id : x \in Range(room.series.games)} ELSE {}

\* Every rated result that was saved reaches the ratings exactly once: by
\* itself, or in the one job of its series, whoever leaves, replaces a player,
\* is kicked or drops out and in whatever order, unless the batch fails or the
\* room is swept away with its series open.  An unrated result never does.
EveryResultIsRatedOnce ==
  \A i \in DOMAIN results :
    LET g == results[i].id
    IN  /\ results[i].rated /\ results[i].saved /\ g \notin lost \cup Awaiting => Uses(g) = 1
        /\ ~results[i].rated \/ g \in lost \cup Awaiting => Uses(g) = 0

\* GameHandler.js: "so rating_history never points at a game that doesn't exist".
RatedGamesExist ==
  \A i \in DOMAIN results : counted[results[i].id] > 0 => results[i].saved
=============================================================================
