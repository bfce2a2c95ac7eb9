------------------------------ MODULE Tournament ------------------------------
(***************************************************************************)
(* A tournament as the server runs it: TournamentManager.js on top of the  *)
(* life of each pairing (managers/tournament/PairingLifecycle.js), the     *)
(* series played in it (series.js) and the deadlines and timers kept in    *)
(* socket/tournamentState.js.  The server may restart between two          *)
(* handlers, or right after it saved a result.                             *)
(*                                                                         *)
(* The life of an open pairing is a record:                                *)
(*   phase     its state: Negotiating, Reported, Ready, InProgress         *)
(*   by        reportedBy                                                  *)
(*   disputed, overdue                                                     *)
(*   ready     readyPlayers                                                *)
(*   games     the winners of the games of the series so far               *)
(*   tracked   whether pendingDeadlines has it                             *)
(*   timer     whether tournamentTimerMap has it                           *)
(* Agreed times and reschedule requests are shown and never tested, so     *)
(* they are left out.                                                      *)
(***************************************************************************)
EXTENDS TournamentRounds

CONSTANTS
  MaxDraws,      \* bound on the draws of a series
  RuleSets,      \* the series rules: [seriesMode, count, target, margin]
  CrashFormats   \* the formats in which a crash after a saved result is tried

VARIABLES
  rules,         \* tournament.ruleSet, as far as the series goes
  adjusted       \* how many pairings the organizer adjusted, for the bound

vars == <<tournament, rules, adjusted>>

\* createPairing and announcePairing.
FreshLife ==
  [phase |-> "Negotiating", by |-> Nobody, disputed |-> FALSE, overdue |-> FALSE,
   ready |-> {}, games |-> <<>>, tracked |-> TRUE, timer |-> FALSE]

\* No deadline, no timer; what was agreed on and played before is only shown.
ClosedLife == [FreshLife EXCEPT !.phase = "Closed", !.tracked = FALSE]

ASSUME LifeAssumption == NewLife = FreshLife /\ SettledLife = ClosedLife

Life(id) == tournament.pairings[id].life
Players(id) == Seats(tournament.pairings[id])
Open == OpenPairings(tournament)

WithLife(id, life) == [tournament EXCEPT !.pairings[id].life = life]

TournamentInit ==
  /\ Init
  /\ rules \in RuleSets
  /\ adjusted = 0

-----------------------------------------------------------------------------
(* series.js *)

\* In half points, as everywhere.
SeriesScore(games, e) ==
  LET of(i) == IF games[i] = e THEN 2 ELSE IF games[i] = Draw THEN 1 ELSE 0
      sum[i \in 0..Len(games)] == IF i = 0 THEN 0 ELSE sum[i - 1] + of(i)
  IN  sum[Len(games)]

\* evaluateSeries: the winner, Draw, or Pending while it is not decided.
EvaluateSeries(games, p) ==
  LET a == SeriesScore(games, p.player1)
      b == SeriesScore(games, p.player2)
      leader == IF a > b THEN p.player1 ELSE IF b > a THEN p.player2 ELSE Draw
      lead   == IF a > b THEN a - b ELSE b - a
      most   == IF a > b THEN a ELSE b
  IN  CASE rules.seriesMode \in {"single", "fixedCount"} ->
             IF Len(games) < (IF rules.seriesMode = "single" THEN 1 ELSE rules.count)
             THEN Pending ELSE leader
        [] rules.seriesMode = "raceToMargin" ->
             IF most >= 2 * rules.target /\ lead >= 2 * rules.margin THEN leader ELSE Pending

-----------------------------------------------------------------------------
(* The operations of the organizer and the players. *)

\* The players dropped and the pairings adjusted so far; adjusted counts the
\* latter, a match of a bracket keeps no trace of it.
Changes == Cardinality(tournament.withdrawn) + adjusted

\* reportTime
Report(id, e) ==
  /\ Life(id).phase = "Negotiating"
  /\ tournament' = WithLife(id, [Life(id) EXCEPT !.phase = "Reported", !.by = e])

\* confirmTime: the other player's.
Confirm(id, e) ==
  /\ Life(id).phase = "Reported"
  /\ ~Life(id).disputed
  /\ e # Life(id).by
  /\ tournament' = WithLife(id, [Life(id) EXCEPT !.phase = "Ready"])

\* disputeTime
Dispute(id, e) ==
  /\ Life(id).phase = "Reported"
  /\ e # Life(id).by
  /\ tournament' = WithLife(id, [Life(id) EXCEPT !.disputed = TRUE])

\* Mutant: no new deadline.
Resolve_NoDeadline(id) ==
  /\ Life(id).phase = "Reported"
  /\ tournament' = WithLife(id, [Life(id) EXCEPT !.phase = "Ready", !.disputed = FALSE,
                                                 !.overdue = FALSE])

\* organizerResolvePairing: a match that was overdue gets a new deadline.
Resolve(id) ==
  /\ Life(id).phase = "Reported"
  /\ tournament' = WithLife(id, [Life(id) EXCEPT !.phase = "Ready", !.disputed = FALSE,
                                                 !.overdue = FALSE,
                                                 !.tracked = @ \/ Life(id).overdue])

\* organizerAdjustPairing: a match of a bracket starts over, another is
\* released.
Adjust(id) ==
  LET released == [tournament EXCEPT !.pairings[id].state = "OrganizerAdjusted",
                                     !.pairings[id].life = ClosedLife]
  IN  /\ Life(id).phase \in {"Negotiating", "Reported"}
      /\ Changes < MaxUpsets
      /\ adjusted' = adjusted + 1
      /\ tournament' = IF tournament.format = "double_elim"
                       THEN Replay(released, id)
                       ELSE AdvanceIfRoundComplete(released)

\* markPairingReady: the second to check in starts the game.
CheckIn(id, e) ==
  LET ready == Life(id).ready \cup {e}
  IN  /\ Life(id).phase = "Ready"
      /\ tournament' =
           WithLife(id, IF Players(id) \subseteq ready
                        THEN [Life(id) EXCEPT !.phase = "InProgress", !.ready = ready,
                                              !.tracked = FALSE, !.timer = TRUE]
                        ELSE [Life(id) EXCEPT !.ready = ready])

\* recordPairingResult: the next game of the series, a replay of a tied match
\* of a bracket, or the decision of the pairing.
GameEnds(id, outcome) ==
  LET games  == Append(Life(id).games, outcome)
      result == EvaluateSeries(games, tournament.pairings[id])
      played == [Life(id) EXCEPT !.games = games]
      rest   == [played EXCEPT !.phase = "Ready", !.ready = {}, !.tracked = TRUE, !.timer = FALSE]
      over   == WithLife(id, [played EXCEPT !.timer = FALSE])
  IN  /\ Life(id).phase = "InProgress"
      /\ outcome = Draw => Cardinality({i \in DOMAIN games : games[i] = Draw}) <= MaxDraws
      /\ tournament' =
           IF result = Pending THEN WithLife(id, rest)
           ELSE IF result = Draw /\ tournament.format = "double_elim" THEN Replay(over, id)
           ELSE Decide(over, id, result)

\* withdrawPlayer
Drop(e) ==
  /\ tournament.status = "active"
  /\ e \in Range(tournament.entries) \ tournament.withdrawn
  /\ Changes < MaxUpsets
  /\ tournament' = WithdrawPlayer(tournament, e)

-----------------------------------------------------------------------------
(* The sweep of the deadlines: _handlePairingDeadline with resolveDeadline.  *)
(* When a deadline falls is left open.                                       *)

\* A dispute waits for the organizer, without a deadline.
DisputeOverdue(id) ==
  /\ Life(id).tracked
  /\ Life(id).phase = "Reported" /\ Life(id).disputed
  /\ tournament' = WithLife(id, [Life(id) EXCEPT !.overdue = TRUE, !.tracked = FALSE])

\* One of the two is there.
WalkoverAtDeadline(id) ==
  /\ Life(id).tracked
  /\ ~Life(id).disputed
  /\ Cardinality(Life(id).ready) = 1
  /\ tournament' = Decide(tournament, id, CHOOSE e \in Life(id).ready : TRUE)

\* None is (or the appointment was never made): played again, until the cap,
\* then the higher seed advances.
VoidAtDeadline(id) ==
  LET p == tournament.pairings[id]
      voided == [tournament EXCEPT !.pairings[id].state = "DoubleNoShow",
                                   !.pairings[id].noShow = @ + 1,
                                   !.pairings[id].life = ClosedLife]
  IN  /\ Life(id).tracked
      /\ ~Life(id).disputed
      /\ Cardinality(Life(id).ready) # 1
      /\ tournament' = IF p.noShow >= NoShowCap
                       THEN Decide(tournament, id, HigherSeed(tournament, p.player1, p.player2))
                       ELSE Replay(voided, id)

Deadline(id) ==
  DisputeOverdue(id) \/ WalkoverAtDeadline(id) \/ VoidAtDeadline(id)

-----------------------------------------------------------------------------
(* Restarts. *)

\* Mutant: a game in progress is taken for one that runs.
HydratedLife_KeepsPlaying(life) ==
  [FreshLife EXCEPT !.phase = IF life.phase = "Reported" THEN "Negotiating" ELSE life.phase,
                    !.games = life.games]

\* _hydratePairing: a report is forgotten, a game in progress is played anew.
HydratedLife(life) ==
  [FreshLife EXCEPT !.phase = IF life.phase = "Reported" THEN "Negotiating"
                              ELSE IF life.phase = "InProgress" THEN "Ready"
                              ELSE life.phase,
                    !.games = life.games]

\* Mutant: whatever is settled counts as decided.
DecidedIn_Settled(t) == DOMAIN t.pairings \ OpenPairings(t)

DecidedIn(t) == {id \in DOMAIN t.pairings : t.pairings[id].state = "Completed"}

\* _hydrateTournament and _hydrateFormatState: completedPairings, the round and
\* the results of the bracket are rebuilt from the pairings, and a round found
\* complete is advanced, a bracket found complete completed.
Hydrate(t) ==
  LET ids     == DOMAIN t.pairings
      last    == Max({t.pairings[id].round : id \in ids})
      decided == DecidedIn(t)
      read    == [id \in ids |-> IF IsOpen(t, id)
                                 THEN [t.pairings[id] EXCEPT !.life = HydratedLife(@)]
                                 ELSE t.pairings[id]]
      rebuilt == [t EXCEPT !.pairings = read, !.completed = SetToBag(decided)]
  IN  IF t.status = "draft" \/ ids = {} THEN t
      ELSE IF t.format = "double_elim"
      THEN LET bracket == [rebuilt EXCEPT !.results =
                             [id \in {x \in decided : ~IsBye(t.pairings[x])} |->
                                t.pairings[id].winner]]
           IN  IF t.status = "active" THEN CheckDoubleElimComplete(bracket, 1) ELSE bracket
      ELSE LET rounds == [rebuilt EXCEPT !.round = last,
                                         !.current = {id \in ids : t.pairings[id].round = last}]
           IN  IF t.status = "active" THEN AdvanceIfRoundComplete(rounds) ELSE rounds

Restart == tournament' = Hydrate(tournament)

\* The server goes down when recordPairingResult has saved the pairing and
\* nothing else.
CrashAfterResult(id, outcome) ==
  LET games  == Append(Life(id).games, outcome)
      result == EvaluateSeries(games, tournament.pairings[id])
  IN  /\ tournament.format \in CrashFormats
      /\ Life(id).phase = "InProgress"
      /\ result \in Players(id)
      /\ tournament' = Hydrate([tournament EXCEPT
                                  !.pairings[id].state = "Completed",
                                  !.pairings[id].winner = result,
                                  !.pairings[id].life = ClosedLife])

-----------------------------------------------------------------------------
PlayerStep(id) ==
  \E e \in Players(id) \ {Nobody} :
    Report(id, e) \/ Confirm(id, e) \/ Dispute(id, e) \/ CheckIn(id, e)

TournamentNext ==
  \/ UNCHANGED rules /\ \E id \in Open : Adjust(id)
  \/ /\ UNCHANGED <<rules, adjusted>>
     /\ \/ Register
        \/ \E e \in 1..MaxEntries : Unregister(e) \/ Drop(e)
        \/ Start
        \/ \E id \in Open :
             \/ PlayerStep(id)
             \/ Resolve(id)
             \/ \E outcome \in Players(id) \cup {Draw} : GameEnds(id, outcome)
             \/ Deadline(id)
             \/ \E outcome \in Players(id) : CrashAfterResult(id, outcome)
        \/ Cancel
        \/ Restart

TournamentSpec == TournamentInit /\ [][TournamentNext]_vars

\* The sweep runs every TOURNAMENT_DEADLINE_SCAN_INTERVAL_MS and finds every
\* deadline that has passed; the organizer rules on the disputes that wait for
\* him; a game has a clock, so it ends, and the last game of a series does not
\* tie it for ever.  Restarts may come in between, but not every time.  What
\* enables each is spelled out, TLC being slow to find it in the cascades.
Tracked == \E id \in Open : Life(id).tracked
Overdue == \E id \in Open : Life(id).overdue
Playing == \E id \in Open : Life(id).phase = "InProgress"
Decides(id, e) == EvaluateSeries(Append(Life(id).games, e), tournament.pairings[id]) = e
MatchPoint ==
  \E id \in Open : Life(id).phase = "InProgress" /\ \E e \in Players(id) : Decides(id, e)

Sweep    == \E id \in Open : Deadline(id)
Ruling   == \E id \in Open : Life(id).overdue /\ Resolve(id)
GameOver == \E id \in Open : \E outcome \in Players(id) \cup {Draw} : GameEnds(id, outcome)
Decisive == \E id \in Open : \E e \in Players(id) : Decides(id, e) /\ GameEnds(id, e)

Fairness ==
  /\ <>[]Tracked => []<><<Sweep>>_vars
  /\ []<>Overdue => []<><<Ruling>>_vars
  /\ []<>Playing => []<><<GameOver>>_vars
  /\ []<>MatchPoint => []<><<Decisive>>_vars

FairTournamentSpec == TournamentSpec /\ Fairness

-----------------------------------------------------------------------------
LifeTypeOK ==
  /\ rules \in RuleSets
  /\ \A id \in Open :
       /\ Life(id).phase \in {"Negotiating", "Reported", "Ready", "InProgress"}
       /\ Life(id).by \in Players(id) \cup {Nobody}
       /\ Life(id).ready \subseteq Players(id)
       /\ \A i \in DOMAIN Life(id).games : Life(id).games[i] \in Players(id) \cup {Draw}

\* Nothing is forgotten and nothing lingers: an open pairing waits for its
\* deadline, for the end of a timed game, or, overdue, for the organizer, and
\* for exactly one of them; a settled one has neither a deadline nor a timer.
\* trackDeadline, untrackDeadline, _teardownPairingTimer and the restart.
PairingsAreTimed ==
  \A id \in DOMAIN tournament.pairings :
    /\ Life(id).timer <=> Life(id).phase = "InProgress"
    /\ Life(id).overdue => Life(id).phase = "Reported" /\ Life(id).disputed
    /\ Life(id).tracked <=> /\ id \in Open
                            /\ Life(id).phase # "InProgress"
                            /\ ~Life(id).overdue

\* A series goes on only while it is undecided, over restarts and replays, and
\* a decided one is not played on.  recordPairingResult, startNextGame,
\* _createReplayPairing, _hydratePairing.
OpenSeriesAreUndecided ==
  \A id \in Open :
    \A n \in 0..Len(Life(id).games) :
      n > 0 => EvaluateSeries(SubSeq(Life(id).games, 1, n), tournament.pairings[id]) = Pending

\* Seen round by round this is a TournamentRounds: what the players, the
\* deadlines and the organizer do to one pairing either does not show or is
\* one of its decisions, and a restart does not show at all.
Seen ==
  [tournament EXCEPT
     !.current  = {id \in @ : tournament.pairings[id].state # "DoubleNoShow"},
     !.pairings = [id \in DOMAIN @ |->
       [@[id] EXCEPT !.life  = IF id \in Open THEN NewLife ELSE SettledLife,
                     !.state = IF id \in Open THEN "Open" ELSE @]]]

Rounds == INSTANCE TournamentRounds
            WITH tournament <- Seen,
                 MaxUpsets <- MaxUpsets + NoShowCap * MaxEntries * MaxEntries
ImplementsRounds == Rounds!Spec

\* Only for a run that refutes it: _hydrateFormatState means to "self-heal a
\* crash that happened between 'last pairing completed' and 'round materialized
\* / tournament completed'", but it does not create the matches of a bracket
\* that the saved result made known.
CrashesHeal == tournament.status = "active" => Open # {}

\* A tournament that is on gets to its end, though no player ever reports,
\* checks in or turns up.  The deadline sweep, NO_SHOW_REPLAY_CAP.
TournamentsEnd ==
  tournament.status = "active" ~> tournament.status \in {"completed", "cancelled"}
=============================================================================
