----------------------------- MODULE Advancement -----------------------------
(***************************************************************************)
(* Round and bracket advancement in                                        *)
(* server/managers/tournament/TournamentManager.js: what happens to a      *)
(* tournament when a pairing is decided or a player withdraws.  These are  *)
(* the cascades of the code (one decision may complete a round, pair the   *)
(* next one, forfeit matches of withdrawn players in it, and so on), each  *)
(* run to its end inside one handler, so they are operators from a         *)
(* tournament to a tournament.                                             *)
(*                                                                         *)
(* A tournament t is a record:                                             *)
(*   format, status, withdrawn, ranks          as in the code              *)
(*   entries      the entry ids in registration order, that is, by seed    *)
(*   nextEntry    the id the next registration gets                        *)
(*   round        currentRoundIndex                                        *)
(*   current      currentRoundPairingIds                                   *)
(*   pairings     id -> [player1, player2, round, state, winner, noShow,   *)
(*                life]; what a pairing goes through before it is decided  *)
(*                is its life, opaque here, and its state Open             *)
(*   completed    completedPairings, as a bag of ids                       *)
(*   bracket, results   the double elimination bracket, bracketResults     *)
(*   closings     how often the completion was announced                   *)
(* A pairing id is <<round, place, replay>>, or the match of the bracket.  *)
(***************************************************************************)
EXTENDS DoubleElim

CONSTANTS
  NewLife,     \* the life of a pairing that was just announced
  SettledLife  \* its life once the pairing is settled

\* Entries are numbers, and null is none of them.
ASSUME NobodyIsNoEntry == Nobody \notin Nat

RoundFormats == {"swiss", "round_robin"}
Formats == RoundFormats \cup {"double_elim"}

\* Completed stands for Walkover as well: the cascades never tell them apart.
Terminal == {"Completed", "DoubleNoShow", "OrganizerAdjusted", "Cancelled"}

NewTournament(format) ==
  [format |-> format, status |-> "draft", withdrawn |-> {}, ranks |-> <<>>,
   entries |-> <<>>, nextEntry |-> 1, round |-> 0, current |-> {},
   pairings |-> <<>>, completed |-> EmptyBag, bracket |-> <<>>, results |-> <<>>,
   closings |-> 0]

IsOpen(t, id) == t.pairings[id].state \notin Terminal
OpenPairings(t) == {id \in DOMAIN t.pairings : IsOpen(t, id)}
Seats(p) == {p.player1, p.player2}

\* The rows of completedPairings.
Completions(t) ==
  LET row(id) == LET p == t.pairings[id]
                 IN  [player1 |-> p.player1, player2 |-> p.player2,
                      winner |-> p.winner, round |-> p.round]
  IN  Tabulated([r \in {row(id) : id \in DOMAIN t.completed} |->
         SumOver(t.completed, {id \in DOMAIN t.completed : row(id) = r})])

SeedOf(t, e) == CHOOSE i \in DOMAIN t.entries : t.entries[i] = e

\* _higherSeedEntryId: who is not seeded loses to who is.
HigherSeed(t, a, b) ==
  IF a \notin Range(t.entries) THEN b
  ELSE IF b \in Range(t.entries) /\ SeedOf(t, b) < SeedOf(t, a) THEN b ELSE a

\* _forfeitWinner
ForfeitWinner(t, p) ==
  LET gone(e) == e \in t.withdrawn
  IN  IF gone(p.player1) /\ ~gone(p.player2) THEN p.player2
      ELSE IF gone(p.player2) /\ ~gone(p.player1) THEN p.player1
      ELSE HigherSeed(t, p.player1, p.player2)

\* _computeSwissStandings: those who withdrew are not paired again.
SwissTable(t) ==
  LET field == Without(t.entries, t.withdrawn)
      byes  == {t.pairings[id].player1 : id \in {x \in DOMAIN t.pairings :
                                                   IsBye(t.pairings[x])}}
      done  == Completions(t)
  IN  Tabulated([i \in DOMAIN field |->
                   [id        |-> field[i],
                    score     |-> Score(field[i], done),
                    opponents |-> Opponents(field[i], done),
                    hadBye    |-> field[i] \in byes]])

\* The match that ends the bracket: the reset of the grand final, if there is one.
FinalOf(t) ==
  IF GFReset \in DOMAIN t.pairings THEN GFReset ELSE FinalMatch(t.bracket)

\* A player of the last match is first or second, anybody else comes after
\* those who fell in a later losers round than his own last one.
RankIn(e, final, groups) ==
  LET finalists == Seats(final)
      mine      == {g \in DOMAIN groups : e \in groups[g]}
      ahead     == UNION {groups[h] : h \in 1..(Max(mine) - 1)}
  IN  IF e = final.winner THEN 1
      ELSE IF e \in finalists THEN 2
      ELSE 3 + Cardinality(ahead \ finalists)

\* _assignDoubleElimFinalRanks
BracketRanks(t, groups) ==
  LET final == t.pairings[FinalOf(t)]
  IN  [e \in Range(t.entries) \cap (Seats(final) \cup UNION Range(groups)) |->
         RankIn(e, final, groups)]

\* _completeTournament, as often as it is called in a row.
CompleteTournament(t, times) ==
  [t EXCEPT !.status = "completed",
            !.closings = Min({@ + times, 2}),
            !.ranks = IF t.format = "double_elim"
                      THEN BracketRanks(t, EliminationGroups(t.bracket.rounds,
                                             ResolveBracket(t.bracket, t.results)))
                      ELSE FinalTable(Range(t.entries), Completions(t),
                                      t.format = "round_robin")]

\* _checkDoubleElimComplete
CheckDoubleElimComplete(t, times) ==
  IF FinalOf(t) \in DOMAIN t.pairings /\ t.pairings[FinalOf(t)].state = "Completed"
  THEN CompleteTournament(t, times)
  ELSE t

\* What _forfeitPairing writes before it records the completion.
Forfeited(t, id) ==
  [t EXCEPT !.pairings[id].state = "Completed",
            !.pairings[id].winner = ForfeitWinner(t, t.pairings[id]),
            !.pairings[id].life = SettledLife]

\* createPairing: a bye is completed at once.
NewPairing(seats, round) ==
  LET bye == seats[2] = Nobody
  IN  [player1 |-> seats[1], player2 |-> seats[2], round |-> round,
       state   |-> IF bye THEN "Completed" ELSE "Open",
       winner  |-> IF bye THEN seats[1] ELSE Nobody,
       noShow  |-> 0,
       life    |-> IF bye THEN SettledLife ELSE NewLife]

\* The rows _recordCompletion writes for a pairing whose state and winner are
\* set already.
Recorded(t, id) ==
  LET p == t.pairings[id]
  IN  [t EXCEPT !.completed = @ (+) SetToBag({id}),
                !.results = IF t.format = "double_elim" /\ ~IsBye(p)
                            THEN With(@, id, p.winner) ELSE @]

\* _createAndRegisterPairing: a bye, and the match of somebody who withdrew, are
\* recorded at once.  In a bracket the code then starts over with what is known
\* by now; here SyncDoubleElimPairings does.
CreatePairing(t, id, seats, round) ==
  LET bye     == seats[2] = Nobody
      forfeit == ~bye /\ {seats[1], seats[2]} \cap t.withdrawn # {}
      t1      == [t EXCEPT !.pairings = With(@, id, NewPairing(seats, round))]
  IN  IF bye \/ forfeit
      THEN Recorded(IF forfeit THEN Forfeited(t1, id) ELSE t1, id)
      ELSE t1

\* Mutant: a match that exists is created again.
Missing_Again(t) ==
  LET resolved == ResolveBracket(t.bracket, t.results)
      known(seats) == Pending \notin seats /\ seats # {Nobody}
  IN  {m \in DOMAIN t.bracket.slots : known(Seats(resolved[m]))}

\* The matches of the bracket whose seats are known and which do not exist yet.
Missing(t) ==
  LET resolved == ResolveBracket(t.bracket, t.results)
      known(seats) == Pending \notin seats /\ seats # {Nobody}
  IN  {m \in DOMAIN t.bracket.slots \ DOMAIN t.pairings : known(Seats(resolved[m]))}

\* One match more.
CreateMissing(t) ==
  LET missing == Missing(t)
      m == First(missing)
      r == ResolveBracket(t.bracket, t.results)[m]
  IN  IF missing = {} THEN t ELSE CreatePairing(t, m, <<r.player1, r.player2>>, 0)

\* The last step of _syncDoubleElimPairings: the finalists meet again when the
\* one from the losers bracket won.
ResetGrandFinal(t) ==
  IF /\ HasGrandFinal(t.bracket)
     /\ GrandFinal \in DOMAIN t.results
     /\ GFReset \notin DOMAIN t.pairings
     /\ NeedsBracketReset(t.bracket, t.results)
  THEN LET gf == ResolveBracket(t.bracket, t.results)[GrandFinal]
       IN  CreatePairing(t, GFReset, <<gf.player1, gf.player2>>, 0)
  ELSE t

\* _syncDoubleElimPairings, with the calls it makes of itself: every match whose
\* seats are known by now, then the reset of the grand final.
SyncDoubleElimPairings(t) ==
  LET matches == Cardinality(DOMAIN t.bracket.slots \ DOMAIN t.pairings)
      synced[n \in 0..matches] == IF n = 0 THEN t ELSE CreateMissing(synced[n - 1])
  IN  ResetGrandFinal(synced[matches])

\* _recordCompletion.  The bracket is checked once for every completion recorded,
\* when all of them are.
RecordCompletion(t, id) ==
  LET s == SyncDoubleElimPairings(Recorded(t, id))
  IN  IF t.format = "double_elim"
      THEN CheckDoubleElimComplete(s, BagCardinality(s.completed) - BagCardinality(t.completed))
      ELSE Recorded(t, id)

\* _forfeitPairing with deferAdvance.
Forfeit(t, id) == RecordCompletion(Forfeited(t, id), id)

\* _materializeRound, but for its last step.
MaterializeRound(t, pairs) ==
  LET place(i) == <<t.round, i, 0>>
      created[i \in 0..Len(pairs)] ==
        IF i = 0 THEN t ELSE CreatePairing(created[i - 1], place(i), pairs[i], t.round)
  IN  [created[Len(pairs)] EXCEPT !.current = {place(i) : i \in DOMAIN pairs}]

RoundComplete(t) ==
  /\ t.format \in RoundFormats
  /\ t.current # {}
  /\ \A id \in t.current : ~IsOpen(t, id)

LastRound(t) ==
  IF t.format = "swiss" THEN SwissRounds(Len(t.entries))
  ELSE Len(GenerateAllRounds(t.entries)) - 1

NextRound(t) ==
  MaterializeRound([t EXCEPT !.round = @ + 1],
                   IF t.format = "swiss" THEN GenerateNextRound(SwissTable(t))
                   ELSE GenerateAllRounds(t.entries)[t.round + 2])

\* Mutant: a round that is over at once is not looked at.
AdvanceIfRoundComplete_Once(t) ==
  IF ~RoundComplete(t) THEN t
  ELSE IF t.round < LastRound(t) THEN NextRound(t) ELSE CompleteTournament(t, 1)

\* _advanceIfRoundComplete, which _materializeRound calls again: a round of byes
\* and forfeits is over at once.  There are fewer rounds than players.
AdvanceIfRoundComplete(t) ==
  LET advanced[n \in 0..Len(t.entries)] ==
        IF n = 0 THEN t
        ELSE LET s == advanced[n - 1]
             IN  IF RoundComplete(s) /\ s.round < LastRound(s) THEN NextRound(s) ELSE s
      last == advanced[Len(t.entries)]
  IN  IF RoundComplete(last) THEN CompleteTournament(last, 1) ELSE last

\* A decision by play or by forfeit: _recordCompletion, then
\* _advanceIfRoundComplete.
Decide(t, id, winner) ==
  AdvanceIfRoundComplete(
    RecordCompletion([t EXCEPT !.pairings[id].state = "Completed",
                               !.pairings[id].winner = winner,
                               !.pairings[id].life = SettledLife], id))

\* startTournament
StartTournament(t) ==
  LET active == [t EXCEPT !.status = "active", !.round = IF t.format = "swiss" THEN 1 ELSE 0]
      draw   == [i \in DOMAIN t.entries |->
                   [id |-> t.entries[i], score |-> 0, opponents |-> {}, hadBye |-> FALSE]]
  IN  IF t.format = "double_elim"
      THEN SyncDoubleElimPairings([active EXCEPT !.bracket = GenerateBracket(t.entries)])
      ELSE AdvanceIfRoundComplete(
             MaterializeRound(active, IF t.format = "swiss" THEN GenerateNextRound(draw)
                                      ELSE GenerateAllRounds(t.entries)[1]))

\* Mutant: a match of the bracket keeps the games played so far.
Replay_KeepsGames(t, id) ==
  LET p     == t.pairings[id]
      newId == <<id[1], id[2], id[3] + 1>>
  IN  IF t.format = "double_elim" THEN [t EXCEPT !.pairings[id].state = "Open"]
      ELSE [t EXCEPT !.pairings = With(@, newId, [p EXCEPT !.state = "Open", !.life = NewLife]),
                     !.current = (@ \ {id}) \cup {newId}]

\* _createReplayPairing: a match of the bracket is reset in place, a pairing of
\* a round is replaced by a new one.
Replay(t, id) ==
  LET p     == t.pairings[id]
      fresh == [p EXCEPT !.state = "Open", !.winner = Nobody, !.life = NewLife]
      newId == <<id[1], id[2], id[3] + 1>>
  IN  IF t.format = "double_elim" THEN [t EXCEPT !.pairings[id] = fresh]
      ELSE [t EXCEPT !.pairings = With(@, newId, fresh),
                     !.current = (@ \ {id}) \cup {newId}]

\* withdrawPlayer, for an active tournament: the open matches of the entry are
\* forfeited until that ends the tournament.  listPairings goes newest first,
\* this oldest first: an entry has at most one open match, so neither matters.
WithdrawPlayer(t, e) ==
  LET ids     == {id \in OpenPairings(t) : e \in Seats(t.pairings[id])}
      left(s) == IF s.status = "active" THEN {id \in ids : IsOpen(s, id)} ELSE {}
      forfeited[n \in 0..Cardinality(ids)] ==
        IF n = 0 THEN [t EXCEPT !.withdrawn = @ \cup {e}]
        ELSE LET s == forfeited[n - 1]
             IN  IF left(s) = {} THEN s ELSE Forfeit(s, First(left(s)))
  IN  AdvanceIfRoundComplete(forfeited[Cardinality(ids)])

\* cancelTournament
CancelTournament(t) ==
  [t EXCEPT !.status = "cancelled",
            !.pairings = [id \in DOMAIN @ |->
              IF IsOpen(t, id)
              THEN [@[id] EXCEPT !.state = "Cancelled", !.life = SettledLife]
              ELSE @[id]]]
=============================================================================
