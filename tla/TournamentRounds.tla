--------------------------- MODULE TournamentRounds ---------------------------
(***************************************************************************)
(* What a tournament does, seen round by round: players register, the      *)
(* organizer starts it, pairings are decided, voided and played again or   *)
(* released, players withdraw, until every round is over or the organizer  *)
(* cancels.  How a pairing gets decided (times are agreed, players check   *)
(* in, games are played, deadlines pass, the server restarts) is           *)
(* Tournament's business, which implements this specification.             *)
(***************************************************************************)
EXTENDS Advancement

CONSTANTS
  MaxEntries,       \* bound on the registrations of one tournament
  MaxUpsets,        \* bound on the withdrawals, voided and released pairings
  MaxPlayers,       \* ruleSet.maxPlayers
  NoShowCap,        \* NO_SHOW_REPLAY_CAP
  Fields            \* the <<format, number of players>> that may start

VARIABLE tournament

Init == \E format \in Formats : tournament = NewTournament(format)

\* The withdrawals, the voided and the released pairings so far.
Upsets(t) ==
  Cardinality(t.withdrawn)
    + SumOver([id \in DOMAIN t.pairings |-> t.pairings[id].noShow],
              {id \in DOMAIN t.pairings : t.pairings[id].state # "DoubleNoShow"})
    + Cardinality({id \in DOMAIN t.pairings : t.pairings[id].state = "OrganizerAdjusted"})

\* registerPlayer: the ids are fresh, an entry is a user not registered yet.
Register ==
  LET t == tournament
  IN  /\ t.status = "draft"
      /\ Len(t.entries) < MaxPlayers
      /\ t.nextEntry <= MaxEntries
      /\ tournament' = [t EXCEPT !.entries = Append(@, t.nextEntry), !.nextEntry = @ + 1]

\* unregisterPlayer
Unregister(e) ==
  /\ tournament.status = "draft"
  /\ e \in Range(tournament.entries)
  /\ tournament' = [tournament EXCEPT !.entries = Without(@, {e})]

\* startTournament
Start ==
  LET t == tournament
  IN  /\ t.status = "draft"
      /\ Len(t.entries) >= 2
      /\ <<t.format, Len(t.entries)>> \in Fields
      /\ tournament' = StartTournament(t)

\* Mutant: a result is taken whenever it comes.
DecidePairing_Late(id, winner) ==
  /\ winner \in Seats(tournament.pairings[id]) \ {Nobody}
  /\ tournament' = Decide(tournament, id, winner)

\* A pairing is decided by play, where a draw counts except in a bracket, or by
\* a walkover.
DecidePairing(id, winner) ==
  LET p == tournament.pairings[id]
  IN  /\ IsOpen(tournament, id)
      /\ \/ winner \in Seats(p) \ {Nobody}
         \/ winner = Draw /\ tournament.format # "double_elim"
      /\ tournament' = Decide(tournament, id, winner)

\* The void half of _handlePairingDeadline: nobody, or both, were there.
VoidPairing(id) ==
  LET t == tournament
      p == t.pairings[id]
      voided == [t EXCEPT !.pairings[id].state = "DoubleNoShow",
                          !.pairings[id].noShow = @ + 1,
                          !.pairings[id].life = SettledLife]
  IN  /\ IsOpen(t, id)
      /\ p.noShow < NoShowCap
      /\ Upsets(t) < MaxUpsets
      /\ tournament' = Replay(voided, id)

\* organizerAdjustPairing in a round format.
ReleasePairing(id) ==
  LET t == tournament
  IN  /\ IsOpen(t, id)
      /\ t.format \in RoundFormats
      /\ Upsets(t) < MaxUpsets
      /\ tournament' = AdvanceIfRoundComplete(
                         [t EXCEPT !.pairings[id].state = "OrganizerAdjusted",
                                   !.pairings[id].life = SettledLife])

\* withdrawPlayer
Withdraw(e) ==
  /\ tournament.status = "active"
  /\ e \in Range(tournament.entries) \ tournament.withdrawn
  /\ Upsets(tournament) < MaxUpsets
  /\ tournament' = WithdrawPlayer(tournament, e)

\* cancelTournament
Cancel ==
  /\ tournament.status \in {"draft", "active"}
  /\ tournament' = CancelTournament(tournament)

Next ==
  \/ Register
  \/ \E e \in 1..MaxEntries : Unregister(e) \/ Withdraw(e)
  \/ Start
  \/ \E id \in DOMAIN tournament.pairings :
       \/ \E winner \in Seats(tournament.pairings[id]) \cup {Draw} : DecidePairing(id, winner)
       \/ VoidPairing(id)
       \/ ReleasePairing(id)
  \/ Cancel

Spec == Init /\ [][Next]_tournament

-----------------------------------------------------------------------------
TypeOK ==
  /\ tournament.format \in Formats
  /\ tournament.status \in {"draft", "active", "completed", "cancelled"}
  /\ tournament.withdrawn \subseteq Range(tournament.entries)
  /\ tournament.current \subseteq DOMAIN tournament.pairings
  /\ \A id \in DOMAIN tournament.pairings :
       /\ tournament.pairings[id].state \in Terminal \cup {"Open"}
       /\ tournament.pairings[id].winner
            \in Range(tournament.entries) \cup {Nobody, Draw}
       /\ tournament.pairings[id].noShow \in 0..NoShowCap

\* The rounds paired so far (round robin counts from 0).
PairingsOfRound(k) ==
  {id \in DOMAIN tournament.pairings : tournament.pairings[id].round = k}

\* In every round of a Swiss or round robin tournament each player has exactly
\* one match or bye (a voided one is replaced by its replay), except who had
\* withdrawn before a Swiss round was paired; nobody meets himself, and in a
\* round robin nobody meets the same player in two rounds.
\* _materializeRound, generateNextRound, generateAllRounds and the replays.
RoundsSeatEverybodyOnce ==
  tournament.format \in RoundFormats =>
    \A k \in {tournament.pairings[id].round : id \in DOMAIN tournament.pairings} :
      LET live == {id \in PairingsOfRound(k) : tournament.pairings[id].state # "DoubleNoShow"}
          of(e) == {id \in live : e \in Seats(tournament.pairings[id])}
      IN  /\ \A id \in live : tournament.pairings[id].player1 # tournament.pairings[id].player2
          /\ \A e \in Range(tournament.entries) :
               \/ Cardinality(of(e)) = 1
               \/ of(e) = {} /\ tournament.format = "swiss" /\ e \in tournament.withdrawn
          /\ tournament.format = "round_robin" =>
               \A id \in live, other \in DOMAIN tournament.pairings :
                 tournament.pairings[other].round # k
                   => Seats(tournament.pairings[id]) # Seats(tournament.pairings[other])

\* A second Swiss bye goes to somebody only when everybody still in the
\* tournament has had one.  generateNextRound, hadBye.
SwissByesAreShared ==
  tournament.format = "swiss" =>
    LET byes(e) == Cardinality({id \in DOMAIN tournament.pairings :
                      IsBye(tournament.pairings[id]) /\ tournament.pairings[id].player1 = e})
    IN  \A e \in Range(tournament.entries) :
          byes(e) > 1 => \A o \in Range(tournament.entries) \ tournament.withdrawn : byes(o) > 0

\* What a player may expect of the pairings: a place in every round, and a
\* second bye only after everybody's first.
RoundsAreFair == RoundsSeatEverybodyOnce /\ SwissByesAreShared

\* A tournament that is on has a match to wait for: whatever was decided,
\* voided, released or forfeited, the next round or match was paired or the
\* tournament completed.  _advanceIfRoundComplete,
\* _syncDoubleElimPairings, _checkDoubleElimComplete.
ActiveHasAMatch ==
  tournament.status = "active" => OpenPairings(tournament) # {}

\* Every decided pairing and every bye counts once in the standings, and
\* nothing else does, however the cascades nest.  _recordCompletion.
EveryDecisionCountsOnce ==
  tournament.completed
    = SetToBag({id \in DOMAIN tournament.pairings :
                  tournament.pairings[id].state = "Completed"})

Losses(e) ==
  Cardinality({id \in DOMAIN tournament.pairings :
                 LET p == tournament.pairings[id]
                 IN  p.state = "Completed" /\ e \in Seats(p) /\ p.winner # e})

\* Double elimination: nobody who lost twice has a match, and when it is over
\* everybody but the champion has lost twice (once in a field of two).
\* generateBracket, resolveBracket, needsBracketReset.
TwoLossesEliminate ==
  (tournament.format = "double_elim" /\ tournament.status \in {"active", "completed"}) =>
    LET limit == IF Len(tournament.entries) = 2 THEN 1 ELSE 2
    IN  /\ \A id \in OpenPairings(tournament) :
             \A e \in Seats(tournament.pairings[id]) : Losses(e) < limit
        /\ tournament.status = "completed" =>
             \A e \in Range(tournament.entries) :
               IF tournament.ranks[e] = 1 THEN Losses(e) < limit ELSE Losses(e) = limit

\* A completed tournament ranks everybody, and a rank is one more than the
\* number of those ranked better: ties share it, nobody is skipped.
\* _completeTournament, _assignDoubleElimFinalRanks, rankStandings.
RanksAreAPodium ==
  tournament.status = "completed" =>
    /\ DOMAIN tournament.ranks = Range(tournament.entries)
    /\ \A e \in Range(tournament.entries) :
         tournament.ranks[e] =
           1 + Cardinality({o \in Range(tournament.entries) :
                              tournament.ranks[o] < tournament.ranks[e]})

\* Only for a run that refutes it: doubleElim.js says of the matches of a
\* bracket that "byes resolve automatically", but the bye of whom a phantom
\* seed leaves without an opponent in the losers bracket has its empty seat
\* first, and createPairing looks at the second only.
ByesResolveAutomatically ==
  \A id \in OpenPairings(tournament) : Nobody \notin Seats(tournament.pairings[id])

\* What was decided stays decided, with the winner it had; a completed
\* tournament is never reopened, its ranks and its completion never change and
\* nothing is paired in it any more.
ResultsAreFinal ==
  [][/\ \A id \in DOMAIN tournament.pairings :
          tournament.pairings[id].state = "Completed" =>
            /\ id \in DOMAIN tournament'.pairings
            /\ tournament'.pairings[id].state = tournament.pairings[id].state
            /\ tournament'.pairings[id].winner = tournament.pairings[id].winner
     /\ tournament.status = "completed" =>
          /\ tournament'.status = "completed"
          /\ tournament'.ranks = tournament.ranks
          /\ tournament'.closings = tournament.closings
          /\ DOMAIN tournament'.pairings = DOMAIN tournament.pairings]_tournament
=============================================================================
