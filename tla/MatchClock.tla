----------------------------- MODULE MatchClock -----------------------------
(***************************************************************************)
(* A game and its clock: GameEngine.js driven by the game:* handlers of    *)
(* server/socket/handlers/GameHandler.js, which keep the TimerManager of   *)
(* server/managers/TimerManager.js in step with it and let players ask for *)
(* extra time.                                                             *)
(*                                                                         *)
(* A TimerManager has a black and a white side, each labelled with the     *)
(* player it belongs to.  While the Swap2 opening has no colours yet the   *)
(* sides stand for the first and the second player; taking a colour, and   *)
(* undoing that, relabels them.  Every action here is one of GameEngine's  *)
(* with what the handler then does to the clock, or a step of the clock.   *)
(* A handler finds room.gameState only while the game is on, so nothing    *)
(* happens after its end; that the game may be cancelled instead is        *)
(* CasualRoom's business.                                                  *)
(***************************************************************************)
EXTENDS GameEngine

CONSTANTS
  Mode,          \* settings.timerMode
  Seconds,       \* settings.timerSeconds, a small stand-in for it
  Increment,     \* settings.timerIncrementSeconds
  Bonus,         \* TIME_REQUEST_BONUS
  FreeRequests,  \* TIME_REQUEST_FREE
  Rated,         \* whether isRated() holds of this game
  MaxSeconds     \* bound on what a side may collect

ASSUME ClockAssumption ==
  /\ Mode \in {"per_move", "per_game", "blitz"}
  /\ Seconds \in Nat \ {0}
  /\ Increment \in Nat
  /\ Bonus \in Nat
  /\ FreeRequests \in Nat
  /\ Rated \in BOOLEAN
  /\ MaxSeconds \in Nat

Sides == {"black", "white"}

VARIABLES
  left,    \* black and white: the seconds of each side
  owner,   \* blackPlayerId and whitePlayerId
  active,  \* activeColor
  running, \* _interval is set
  used,    \* room._timeRequestsUsed
  asking   \* room._timeRequestPending.from, or None

timer    == <<left, owner, active, running>>
requests == <<used, asking>>
matchVars == <<vars, timer, requests>>

ClockTypeOK ==
  /\ left \in [Sides -> Nat]
  /\ owner \in [Sides -> Players]
  /\ active \in Sides
  /\ running \in BOOLEAN
  /\ used \in [Players -> 0..FreeRequests]
  /\ asking \in Players \cup {None}

\* player.color === 'BLACK' ? 'black' : 'white'; a player without a colour
\* counts as white.
ColourSide(p) == IF colour[p] = "BLACK" THEN "black" ELSE "white"

\* The side that stands for p while the colours are open.
OpeningSide(p) == IF p = Second THEN "white" ELSE "black"

Other(side) == IF side = "white" THEN "black" ELSE "white"

MatchInit ==
  /\ Init
  /\ left = [s \in Sides |-> Seconds]
  /\ owner = [s \in Sides |-> IF s = "black" THEN First ELSE Second]
  /\ active = "black"
  /\ running = TRUE
  /\ used = [p \in Players |-> 0]
  /\ asking = None

(***************************************************************************)
(* TimerManager.                                                           *)
(***************************************************************************)

\* Mutant: a move does not start the mover's time afresh.
Credited_NotFresh(clocks, moved) ==
  IF Mode = "blitz" THEN [clocks EXCEPT ![moved] = @ + Increment] ELSE clocks

\* applyMove: the side that moved starts afresh or gains the increment.
Credited(clocks, moved) ==
  CASE Mode = "per_move" -> [clocks EXCEPT ![moved] = Seconds]
    [] Mode = "blitz"    -> [clocks EXCEPT ![moved] = @ + Increment]
    [] OTHER             -> clocks

SwitchTurn(to) ==
  /\ left' = Credited(left, Other(to))
  /\ active' = to
  /\ UNCHANGED <<owner, running>>

\* Mutant: the labels are swapped and the seconds are not.
Relabelled_KeepSides(black) == left

\* remapForSwap2: the seconds follow the player when the labels change.
Relabelled(black) ==
  IF owner["black"] # black THEN [s \in Sides |-> left[Other(s)]] ELSE left

Labels(black) == [s \in Sides |-> IF s = "black" THEN black ELSE Opponent(black)]

StopForGood ==
  /\ running' = FALSE
  /\ asking' = None
  /\ UNCHANGED <<left, owner, active, used>>

(***************************************************************************)
(* The handlers.                                                           *)
(***************************************************************************)

Ongoing == status = "ongoing"

PlayMove(p, c) ==
  /\ MakeMove(p, c)
  /\ IF status' = "finished"
     THEN StopForGood
     ELSE SwitchTurn(ColourSide(turn')) /\ UNCHANGED requests

\* Mutant: the clock is not handed over at the end of a placement phase.
HandOver_Never(p) == UNCHANGED timer

\* The clock follows the turn when a placement phase ends.
HandOver(p) ==
  IF turn' # p THEN SwitchTurn(OpeningSide(turn')) ELSE UNCHANGED timer

LayOpeningStone(p, c) ==
  /\ PlaceOpeningStone(p, c)
  /\ HandOver(p)
  /\ UNCHANGED requests

ChooseMore(p) ==
  /\ Swap2ChoosePlace(p)
  /\ UNCHANGED <<timer, requests>>

\* The colours are taken: the sides get their real players and White's runs.
ChooseColour(p, k) ==
  /\ Swap2ChooseColour(p, k)
  /\ LET black == CHOOSE q \in Players : colour'[q] = "BLACK" IN
       /\ left' = Relabelled(black)
       /\ owner' = Labels(black)
  /\ active' = "white"
  /\ UNCHANGED <<running, requests>>

\* Resigning and agreeing to a draw; talk about a draw leaves the clock alone.
EndByWord(p) ==
  /\ Resign(p) \/ AcceptDraw(p)
  /\ StopForGood

TalkDraw(p) ==
  /\ Ongoing
  /\ OfferDraw(p) \/ DeclineDraw(p)
  /\ UNCHANGED <<timer, requests>>

\* Undo is for games that change no rating.
AskUndo(p) ==
  /\ ~Rated
  /\ RequestOpeningUndo(p) \/ RequestPlayUndo(p)
  /\ UNCHANGED <<timer, requests>>

RefuseUndo(p) ==
  /\ Ongoing
  /\ DeclineUndo(p)
  /\ UNCHANGED <<timer, requests>>

GrantPlayUndo(p) ==
  /\ AcceptPlayUndo(p)
  /\ SwitchTurn(ColourSide(undoOffer.from))
  /\ UNCHANGED requests

\* After an opening undo no colour is assigned, so the sides stand for First
\* and Second again.
OpeningLabels == Labels(First)

GrantOpeningUndo(p) ==
  /\ AcceptOpeningUndo(p)
  /\ LET to == OpeningSide(turn') IN
       /\ left' = Credited(Relabelled(First), Other(to))
       /\ active' = to
  /\ owner' = OpeningLabels
  /\ UNCHANGED <<running, requests>>

(***************************************************************************)
(* Extra time.  The first FreeRequests are granted at once, later ones     *)
(* need the opponent; MaxSeconds bounds what can be collected.             *)
(***************************************************************************)

AddTime(p) ==
  /\ left[ColourSide(p)] + Bonus <= MaxSeconds
  /\ left' = [left EXCEPT ![ColourSide(p)] = @ + Bonus]
  /\ UNCHANGED <<owner, active, running>>

MayAskTime(p) == Ongoing /\ ~Rated /\ turn = p /\ asking = None

TakeFreeTime(p) ==
  /\ MayAskTime(p)
  /\ used[p] < FreeRequests
  /\ used' = [used EXCEPT ![p] = @ + 1]
  /\ AddTime(p)
  /\ UNCHANGED <<vars, asking>>

AskTime(p) ==
  /\ MayAskTime(p)
  /\ used[p] >= FreeRequests
  /\ asking' = p
  /\ UNCHANGED <<vars, timer, used>>

GrantTime(p) ==
  /\ Ongoing
  /\ asking = Opponent(p)
  /\ AddTime(asking)
  /\ asking' = None
  /\ UNCHANGED <<vars, used>>

RefuseTime(p) ==
  /\ Ongoing
  /\ asking = Opponent(p)
  /\ asking' = None
  /\ UNCHANGED <<vars, timer, used>>

(***************************************************************************)
(* The clock itself: a second passes; a player's drop stops it and their   *)
(* return starts it again.                                                 *)
(***************************************************************************)

Tick ==
  /\ running
  /\ left[active] > 1
  /\ left' = [left EXCEPT ![active] = @ - 1]
  /\ UNCHANGED <<vars, owner, active, running, requests>>

\* Mutant: a clock that has run out stays at zero and tells nobody.
TimeUp_Silent ==
  /\ running
  /\ left[active] <= 1
  /\ left' = [left EXCEPT ![active] = 0]
  /\ UNCHANGED <<vars, owner, active, running, requests>>

TimeUp ==
  /\ running
  /\ left[active] <= 1
  /\ left' = [left EXCEPT ![active] = 0]
  /\ running' = FALSE
  /\ asking' = None
  /\ HandleTimeout(owner[active])
  /\ UNCHANGED <<owner, active, used>>

Pause ==
  /\ Ongoing
  /\ running
  /\ running' = FALSE
  /\ UNCHANGED <<vars, left, owner, active, requests>>

Resume ==
  /\ Ongoing
  /\ ~running
  /\ running' = TRUE
  /\ UNCHANGED <<vars, left, owner, active, requests>>

\* The bound on increments, which undo after undo could collect for ever.
Bounded == \A s \in Sides : left'[s] <= MaxSeconds

MatchNext ==
  \/ \E p \in Players :
       \/ \E c \in Cells : (PlayMove(p, c) \/ LayOpeningStone(p, c)) /\ Bounded
       \/ ChooseMore(p)
       \/ \E k \in Colours : ChooseColour(p, k)
       \/ EndByWord(p) \/ TalkDraw(p)
       \/ AskUndo(p) \/ RefuseUndo(p)
       \/ (GrantPlayUndo(p) \/ GrantOpeningUndo(p)) /\ Bounded
       \/ TakeFreeTime(p) \/ AskTime(p) \/ GrantTime(p) \/ RefuseTime(p)
  \/ Tick \/ TimeUp \/ Pause \/ Resume

MatchSpec == MatchInit /\ [][MatchNext]_matchVars

\* The interval fires every second while it is set.
FairMatchSpec == MatchSpec /\ WF_matchVars(Tick \/ TimeUp)

-----------------------------------------------------------------------------
(***************************************************************************)
(* What the pair promises.                                                 *)
(***************************************************************************)

TimeOf(p) == left[CHOOSE s \in Sides : owner[s] = p]

\* The clock that runs is that of the player to move, through every phase of
\* the opening, every choice of colours and every undo: the engine knows the
\* player by id and the clock by side, and only the handlers relate the two.
ClockOnMover == Ongoing => owner[active] = turn

\* The sides are labelled with the players who hold these colours, or with
\* First and Second while nobody does.
SidesAreLabelled ==
  /\ owner["black"] # owner["white"]
  /\ IF phase = "play" THEN colour[owner["black"]] = "BLACK" /\ colour[owner["white"]] = "WHITE"
                       ELSE owner["black"] = First

\* Unless each move starts afresh, a player's seconds go down one at a time
\* and only while that player is to move: no relabelling, undo or grant takes
\* any from either.
TimeIsSpentOnTurn ==
  [][Mode # "per_move" =>
       \A p \in Players : TimeOf(p)' < TimeOf(p) =>
         p = turn /\ TimeOf(p)' = TimeOf(p) - 1]_matchVars

\* TimerManager: with per_move "each player gets timerSeconds per move", so who
\* is handed the turn has the full time.  It holds without the Swap2 opening;
\* with it, Second comes back from taking Black with what the choice left over.
FullClockPerMove ==
  [][Mode = "per_move" /\ turn' # turn => TimeOf(turn)' >= Seconds]_matchVars

\* A timeout is the loss of the player who was to move, whatever the sides
\* were called when it fired.
TimeoutLosesTurn ==
  [][result.reason # "timeout" /\ result'.reason = "timeout" =>
       result'.winner = Opponent(turn)]_matchVars

\* A game is decided, by the board or by a clock, once its players stop
\* dropping, have come back and are granted no more undos and no more time; in
\* a rated game, which has neither, the first two are enough.
Prolong ==
  \E p \in Players : GrantPlayUndo(p) \/ GrantOpeningUndo(p) \/ TakeFreeTime(p) \/ GrantTime(p)

GameIsDecided ==
  <>[][~Pause /\ ~Prolong]_matchVars /\ []<>(Ongoing => running) => <>(status = "finished")

(***************************************************************************)
(* What comments and design notes say and the code does not do.            *)
(***************************************************************************)

\* game:request_time tells the room that the player who asked got the bonus.
\* Before the colours are taken the bonus goes to the white side, so First
\* gives it to the opponent.
BonusGoesToAsker ==
  [][\A p \in Players : TakeFreeTime(p) => TimeOf(p)' = TimeOf(p) + Bonus]_matchVars

=============================================================================
