--------------------------- MODULE TournamentMatch ---------------------------
(***************************************************************************)
(* One game of a tournament pairing, as                                    *)
(* server/socket/handlers/TournamentMatchHandler.js runs it: the engine    *)
(* and the clock of a casual game, other handlers.                         *)
(*                                                                         *)
(* The sides of the clock belong to the two entries of the pairing for the *)
(* whole series, black to player1 and white to player2, and keep their     *)
(* labels whatever colours are taken (owner never changes); the seats of   *)
(* the engine alternate from game to game, so First is player1 in one game *)
(* and player2 in the next.  There is no undo, a drop does not pause the   *)
(* clock, and extra time is asked for as in a casual game that is not      *)
(* rated.  That a match can be called off is Tournament's business.        *)
(***************************************************************************)
EXTENDS MatchClock

\* Mutant: the bonus goes to the side of the colour, as in a casual game.
SlotOf_ByColour(p) == ColourSide(p)

\* The side of the clock that is p's: _timerSlotForUser, and the slot that
\* tmatch:move and tmatch:swap2_place compute.
SlotOf(p) == CHOOSE s \in Sides : owner[s] = p

OddGame == owner["black"] = Second

\* markReady has made the clock and markPairingReady started it; startMatch
\* seats the entries by the parity of the game.
StartMatch ==
  /\ Init
  /\ \E p \in Players : owner = [s \in Sides |-> IF s = "black" THEN p ELSE Opponent(p)]
  /\ left = [s \in Sides |-> Seconds]
  /\ active = "black"
  /\ running = TRUE
  /\ used = [p \in Players |-> 0]
  /\ asking = None

\* _endMatch: the match and its clock are gone.
EndMatch == StopForGood

\* Mutant: the clock is not handed over to who moves next.
TmatchMove_KeepClock(p, c) ==
  /\ MakeMove(p, c)
  /\ IF status' = "finished" THEN EndMatch ELSE UNCHANGED <<timer, requests>>

TmatchMove(p, c) ==
  /\ MakeMove(p, c)
  /\ IF status' = "finished"
     THEN EndMatch
     ELSE SwitchTurn(SlotOf(turn')) /\ UNCHANGED requests

TmatchSwap2Place(p, c) ==
  /\ PlaceOpeningStone(p, c)
  /\ IF turn' # p THEN SwitchTurn(SlotOf(turn')) ELSE UNCHANGED timer
  /\ UNCHANGED requests

\* No choice touches the clock.
TmatchSwap2Choice(p) ==
  /\ Swap2ChoosePlace(p) \/ \E k \in Colours : Swap2ChooseColour(p, k)
  /\ UNCHANGED <<timer, requests>>

TmatchResign(p) == Resign(p) /\ EndMatch

TmatchDrawAccept(p) == AcceptDraw(p) /\ EndMatch

TmatchTalkDraw(p) ==
  /\ Ongoing
  /\ OfferDraw(p) \/ DeclineDraw(p)
  /\ UNCHANGED <<timer, requests>>

AddSlotTime(p) ==
  /\ left[SlotOf(p)] + Bonus <= MaxSeconds
  /\ left' = [left EXCEPT ![SlotOf(p)] = @ + Bonus]
  /\ UNCHANGED <<owner, active, running>>

MayRequestTime(p) == Ongoing /\ turn = p /\ asking = None

TmatchRequestFreeTime(p) ==
  /\ MayRequestTime(p)
  /\ used[p] < FreeRequests
  /\ used' = [used EXCEPT ![p] = @ + 1]
  /\ AddSlotTime(p)
  /\ UNCHANGED <<vars, asking>>

TmatchRequestTime(p) ==
  /\ MayRequestTime(p)
  /\ used[p] >= FreeRequests
  /\ asking' = p
  /\ UNCHANGED <<vars, timer, used>>

TmatchTimeAccept(p) ==
  /\ Ongoing
  /\ asking = Opponent(p)
  /\ AddSlotTime(asking)
  /\ asking' = None
  /\ UNCHANGED <<vars, used>>

TmatchTimeDecline(p) ==
  /\ Ongoing
  /\ asking = Opponent(p)
  /\ asking' = None
  /\ UNCHANGED <<vars, timer, used>>

TmatchNext ==
  \/ \E p \in Players :
       \/ \E c \in Cells : (TmatchMove(p, c) \/ TmatchSwap2Place(p, c)) /\ Bounded
       \/ TmatchSwap2Choice(p)
       \/ TmatchResign(p) \/ TmatchDrawAccept(p) \/ TmatchTalkDraw(p)
       \/ TmatchRequestFreeTime(p) \/ TmatchRequestTime(p)
       \/ TmatchTimeAccept(p) \/ TmatchTimeDecline(p)
  \/ Tick \/ TimeUp

TmatchSpec == StartMatch /\ [][TmatchNext]_matchVars

\* The interval fires every second while it is set.
FairTmatchSpec == TmatchSpec /\ WF_matchVars(Tick \/ TimeUp)

-----------------------------------------------------------------------------

\* The clock that runs is that of the player to move, but for the first turn
\* of an odd game, where the clock starts with player1's side and player2
\* begins, and the turn after a choice of colours.  Both last until that turn
\* is over: no later move, offer or bonus leaves the clock on the wrong side.
ClockStraysOnlyAtHandovers ==
  Ongoing /\ owner[active] # turn =>
    \/ OddGame /\ turn = First /\ Len(history) < (IF Swap2 THEN 3 ELSE 1)
    \/ Swap2 /\ phase = "play" /\ Len(history) = playStart

\* A bonus goes to the player who asked for it, in either game of a pair and
\* before and after the colours are taken.  tmatch:request_time, time_accept.
ExtraTimeGoesToAsker ==
  [][\A p \in Players :
       /\ used'[p] > used[p] => TimeOf(p)' = TimeOf(p) + Bonus
       /\ asking = p /\ asking' = None /\ TimeOf(p)' # TimeOf(p) /\ status' = "ongoing"
            => TimeOf(p)' = TimeOf(p) + Bonus
       /\ TimeOf(p)' > TimeOf(p) => used'[p] > used[p] \/ asking = p \/ Mode # "per_game"]_matchVars

\* A tournament game ends unless the players grant each other time for ever,
\* also when both are gone: this is what Tournament assumes of a pairing that
\* is InProgress.
TournamentGameEnds ==
  <>[][\A p \in Players : ~TmatchTimeAccept(p)]_matchVars => <>(status = "finished")

\* Only for a run that refutes it.  TimerManager: "per_game: decrements active
\* player, no reset"; in a tournament the player whose clock goes down may be
\* the one who waits.
OnlyTheMoverIsCharged ==
  [][\A p \in Players : TimeOf(p)' < TimeOf(p) => p = turn]_matchVars
=============================================================================
