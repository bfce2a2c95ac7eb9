----------------------------- MODULE GameEngine -----------------------------
(***************************************************************************)
(* One game of GomokuVN as server/managers/GameEngine.js plays it: moves,  *)
(* the Swap2 opening, draw and undo negotiation, resignation and timeout.  *)
(*                                                                         *)
(* A wall is never EMPTY, so the engine refuses every stone there, and only *)
(* the two WALL placement rules tell it apart from the edge; a row may pass *)
(* through a portal, where no stone lies either.  moveCount is always      *)
(* moveHistory.length and openingStones, colorsAssigned and the positions  *)
(* in _phaseStones are never read back, so they are not state here.        *)
(***************************************************************************)
EXTENDS Integers, Sequences, FiniteSets

CONSTANTS
  Cells,          \* the playable cells of the board
  Portals,        \* its portals
  Partner,        \* _portalMap: where a portal leads
  Axes,           \* DIRECTIONS, the axes a row may lie along
  Beside,         \* the next cell or portal each way, None at the edge or a wall
  Rule,           \* settings.winningRule
  InARow,         \* the five stones that win
  First, Second,  \* the user ids in players[0] and players[1]
  None,           \* the absent user, colour or winner (null)
  Swap2,          \* opts.ruleSwap2
  HasWalls,       \* walls.length > 0
  FirstZone,      \* firstMoveZones, where the first stone must go with walls
  FarApart        \* the pairs of cells at Chebyshev distance 4 or more

Players == {First, Second}

ASSUME PlayersAssumption ==
  /\ First # Second
  /\ None \notin Players
  /\ None \notin {"BLACK", "WHITE"}

Ways == Axes \X {1, -1}

ASSUME BoardAssumption ==
  /\ Cells # {}
  /\ Partner \in [Portals -> Portals]
  /\ Beside \in [Ways -> [Cells \cup Portals -> Cells \cup Portals \cup {None}]]
  /\ Rule \in {"freestyle", "standard", "caro"}
  /\ InARow \in Nat
  /\ FirstZone \subseteq Cells
  /\ FarApart \subseteq Cells \X Cells
  /\ Swap2 \in BOOLEAN
  /\ HasWalls \in BOOLEAN

Colours == {"BLACK", "WHITE"}
Phases  == {"place3", "p2choice", "place2", "p1choice", "play"}

VARIABLES
  board,      \* what stands on each playable cell
  history,    \* moveHistory, as <<cell, colour>> records
  turn,       \* currentTurn
  status,     \* "ongoing" or "finished"
  result,     \* who won and why
  drawOffer,  \* drawOffer.from, or None
  undoOffer,  \* the pending undo request
  phase,      \* openingPhase
  placed,     \* _phaseStones.length
  colour,     \* players[i].color
  playStart,  \* playPhaseStartIndex, or -1 for null
  snapshots   \* openingSnapshots, the top of the stack last

stones  == <<board, history>>
outcome == <<status, result>>
opening == <<phase, placed, colour, playStart, snapshots>>
vars    == <<stones, turn, outcome, drawOffer, undoOffer, opening>>

Stone    == [cell : Cells, colour : Colours]
NoOffer  == [from |-> None, mode |-> "none", target |-> 0]
Offers   == [from : Players, mode : {"play", "opening"}, target : Nat]
Snapshot == [length : Nat, phase : Phases \ {"play"}, turn : Players,
             placed : 0..2, colour : [Players -> Colours \cup {None}]]

TypeOK ==
  /\ board \in [Cells -> Colours \cup {"EMPTY"}]
  /\ history \in Seq(Stone)
  /\ turn \in Players
  /\ status \in {"ongoing", "finished"}
  /\ result \in [winner : Players \cup {None, "draw"},
                 reason : {"none", "win", "board_full", "resign", "agreement", "timeout"}]
  /\ drawOffer \in Players \cup {None}
  /\ undoOffer \in Offers \cup {NoOffer}
  /\ phase \in Phases
  /\ placed \in 0..2
  /\ colour \in [Players -> Colours \cup {None}]
  /\ playStart \in Nat \cup {-1}
  /\ snapshots \in Seq(Snapshot)

Opponent(p) == IF p = First THEN Second ELSE First

(***************************************************************************)
(* The constructor.                                                        *)
(***************************************************************************)
Init ==
  /\ board = [c \in Cells |-> "EMPTY"]
  /\ history = << >>
  /\ turn = First
  /\ status = "ongoing"
  /\ result = [winner |-> None, reason |-> "none"]
  /\ drawOffer = None
  /\ undoOffer = NoOffer
  /\ phase = IF Swap2 THEN "place3" ELSE "play"
  /\ placed = 0
  /\ colour = IF Swap2 THEN [p \in Players |-> None]
                       ELSE [p \in Players |-> IF p = First THEN "BLACK" ELSE "WHITE"]
  /\ playStart = IF Swap2 THEN -1 ELSE 0
  /\ snapshots = << >>

(***************************************************************************)
(* Moves.                                                                  *)
(***************************************************************************)

\* The cells met on the way from c, through portals, which take up no place,
\* until the edge, a wall or what was met before (_getLineInDirection).
WalkFrom(way, c) ==
  LET steps == Cardinality(Cells \cup Portals)
      walk[n \in 0..steps] ==
        IF n = 0
        THEN [at |-> Beside[way][c], visited |-> {c}, line |-> << >>]
        ELSE LET w == walk[n - 1] IN
             CASE w.at \in w.visited \cup {None} -> [w EXCEPT !.at = None]
               [] w.at \in Portals \ w.visited ->
                    [w EXCEPT !.at = IF Partner[w.at] \in w.visited THEN None
                                     ELSE Beside[way][Partner[w.at]],
                              !.visited = w.visited \cup {w.at, Partner[w.at]}]
               [] w.at \in Cells \ w.visited ->
                    [at |-> Beside[way][w.at], visited |-> w.visited \cup {w.at},
                     line |-> Append(w.line, w.at)]
  IN  walk[steps].line

Walk == [way \in Ways |-> [c \in Cells |-> WalkFrom(way, c)]]

\* How many stones of the colour of the one on c are met before anything else.
Reach(b, way, c) ==
  CHOOSE n \in 0..Len(Walk[way][c]) :
    /\ \A i \in 1..n : b[Walk[way][c][i]] = b[c]
    /\ n < Len(Walk[way][c]) => b[Walk[way][c][n + 1]] # b[c]

\* The stones in line with the one on c, each counted once (deduped).
InLine(b, axis, c) ==
  {c} \cup UNION {{Walk[<<axis, s>>][c][i] : i \in 1..Reach(b, <<axis, s>>, c)} : s \in {1, -1}}

LengthWins(n) == IF Rule = "standard" THEN n = InARow ELSE n >= InARow

\* Only an opponent's stone blocks: not the edge, a wall, a portal or a free cell.
Blocks(b, way, d, k) ==
  /\ Beside[way][d] \in Cells
  /\ b[Beside[way][d]] \in Colours \ {k}

\* The end of the row one way from c is blocked.
EndBlocked(b, way, c) ==
  LET n == Reach(b, way, c)
  IN  Blocks(b, way, IF n = 0 THEN c ELSE Walk[way][c][n], b[c])

\* Mutant: in Caro one blocked end is enough to spoil a row.
CompletesLine_EitherEnd(b, c) ==
  \E axis \in Axes :
    /\ LengthWins(Cardinality(InLine(b, axis, c)))
    /\ Rule = "caro" => \A s \in {1, -1} : ~EndBlocked(b, <<axis, s>>, c)

\* The stone put on c completes a row that wins (_checkWin).
CompletesLine(b, c) ==
  \E axis \in Axes :
    /\ LengthWins(Cardinality(InLine(b, axis, c)))
    /\ Rule = "caro" => \E s \in {1, -1} : ~EndBlocked(b, <<axis, s>>, c)

BoardFull(b) == \A c \in Cells : b[c] # "EMPTY"

Finish(winner, reason) ==
  /\ status' = "finished"
  /\ result' = [winner |-> winner, reason |-> reason]

PutStone(c, col) ==
  /\ board[c] = "EMPTY"
  /\ board' = [board EXCEPT ![c] = col]
  /\ history' = Append(history, [cell |-> c, colour |-> col])

\* Mutant: a player who plays on keeps the undo request open.
CancelOwnUndo_Never(p) == UNCHANGED undoOffer

\* Playing on withdraws one's own undo request, never the opponent's.
CancelOwnUndo(p) ==
  undoOffer' = IF undoOffer.from = p THEN NoOffer ELSE undoOffer

\* Mutant: the distance rule looks at the game's second stone, not the player's.
WallRule_SecondStone(p, c) ==
  HasWalls =>
    /\ history = << >> => c \in FirstZone
    /\ p = First /\ Len(history) = 1 => <<history[1].cell, c>> \in FarApart

\* With walls the first stone goes next to one, and players[0] must put its
\* second stone at distance 4 or more from its first.
WallRule(p, c) ==
  HasWalls =>
    /\ history = << >> => c \in FirstZone
    /\ p = First =>
         \A i \in 1..Len(history) :
           (/\ history[i].colour = colour[p]
            /\ \A j \in 1..Len(history) : history[j].colour = colour[p] => j = i)
           => <<history[i].cell, c>> \in FarApart

MakeMove(p, c) ==
  /\ phase = "play"
  /\ status = "ongoing"
  /\ turn = p
  /\ WallRule(p, c)
  /\ PutStone(c, colour[p])
  /\ CancelOwnUndo(p)
  /\ drawOffer' = None
  /\ \/ /\ CompletesLine(board', c)
        /\ Finish(p, "win")
        /\ UNCHANGED turn
     \/ /\ ~CompletesLine(board', c)
        /\ BoardFull(board')
        /\ Finish("draw", "board_full")
        /\ UNCHANGED turn
     \/ /\ ~CompletesLine(board', c)
        /\ ~BoardFull(board')
        /\ turn' = Opponent(p)
        /\ UNCHANGED outcome
  /\ UNCHANGED opening

(***************************************************************************)
(* The Swap2 opening: First lays three stones, Second takes a colour or    *)
(* lays two more and leaves the choice to First.                           *)
(***************************************************************************)

PhaseColours(ph) == IF ph = "place3" THEN <<"BLACK", "WHITE", "BLACK">>
                                     ELSE <<"WHITE", "BLACK">>

\* Mutant: the snapshot forgets how far the placement phase had got.
PushSnapshot_NoCount ==
  snapshots' = Append(snapshots, [length |-> Len(history), phase |-> phase,
                                  turn |-> turn, placed |-> 0,
                                  colour |-> colour])

PushSnapshot ==
  snapshots' = Append(snapshots, [length |-> Len(history), phase |-> phase,
                                  turn |-> turn, placed |-> placed,
                                  colour |-> colour])

BeginOpeningAction(p) == CancelOwnUndo(p) /\ PushSnapshot

PlaceOpeningStone(p, c) ==
  /\ status = "ongoing"
  /\ Swap2
  /\ phase \in {"place3", "place2"}
  /\ turn = p
  /\ BeginOpeningAction(p)
  /\ PutStone(c, PhaseColours(phase)[placed + 1])
  /\ IF placed + 1 = Len(PhaseColours(phase))
     THEN /\ placed' = 0
          /\ phase' = IF phase = "place3" THEN "p2choice" ELSE "p1choice"
          /\ turn'  = IF phase = "place3" THEN Second ELSE First
     ELSE placed' = placed + 1 /\ UNCHANGED <<phase, turn>>
  /\ UNCHANGED <<outcome, drawOffer, colour, playStart>>

\* Mutant: First always moves after the opening, whatever its colour.
AssignColours_FirstMoves(firstColour) ==
  /\ colour' = [p \in Players |->
                  IF p = First THEN firstColour
                  ELSE CHOOSE k \in Colours : k # firstColour]
  /\ phase' = "play"
  /\ playStart' = Len(history)
  /\ turn' = First
  /\ UNCHANGED placed

\* _assignColors: the opening is over and White moves next.
AssignColours(firstColour) ==
  /\ colour' = [p \in Players |->
                  IF p = First THEN firstColour
                  ELSE CHOOSE k \in Colours : k # firstColour]
  /\ phase' = "play"
  /\ playStart' = Len(history)
  /\ turn' = IF firstColour = "WHITE" THEN First ELSE Second
  /\ UNCHANGED placed

Swap2ChoosePlace(p) ==
  /\ status = "ongoing"
  /\ phase = "p2choice"
  /\ p = Second
  /\ BeginOpeningAction(p)
  /\ phase' = "place2"
  /\ turn' = Second
  /\ placed' = 0
  /\ UNCHANGED <<stones, outcome, drawOffer, colour, playStart>>

Swap2ChooseColour(p, k) ==
  /\ status = "ongoing"
  /\ \/ phase = "p2choice" /\ p = Second
     \/ phase = "p1choice" /\ p = First
  /\ BeginOpeningAction(p)
  /\ AssignColours(IF p = First THEN k ELSE CHOOSE o \in Colours : o # k)
  /\ UNCHANGED <<stones, outcome, drawOffer>>

(***************************************************************************)
(* Ending by word or by clock.  A finished game still lets a pending offer *)
(* be declined, as declineDraw and declineUndo do not look at the status.  *)
(***************************************************************************)

Resign(p) ==
  /\ status = "ongoing"
  /\ Finish(Opponent(p), "resign")
  /\ UNCHANGED <<stones, turn, drawOffer, undoOffer, opening>>

HandleTimeout(p) ==
  /\ status = "ongoing"
  /\ Finish(Opponent(p), "timeout")
  /\ UNCHANGED <<stones, turn, drawOffer, undoOffer, opening>>

OfferDraw(p) ==
  /\ status = "ongoing"
  /\ drawOffer = None
  /\ drawOffer' = p
  /\ UNCHANGED <<stones, turn, outcome, undoOffer, opening>>

AcceptDraw(p) ==
  /\ status = "ongoing"
  /\ drawOffer = Opponent(p)
  /\ Finish("draw", "agreement")
  /\ drawOffer' = None
  /\ UNCHANGED <<stones, turn, undoOffer, opening>>

DeclineDraw(p) ==
  /\ drawOffer = Opponent(p)
  /\ drawOffer' = None
  /\ UNCHANGED <<stones, turn, outcome, undoOffer, opening>>

(***************************************************************************)
(* Undo.                                                                   *)
(***************************************************************************)

NoRealMoveYet == playStart = -1 \/ Len(history) = playStart

\* The 0-based indices of p's own stones at or after the play boundary.
OwnPlayMoves(p) ==
  {i \in 0..(Len(history) - 1) : i >= playStart /\ history[i + 1].colour = colour[p]}

RequestOpeningUndo(p) ==
  /\ status = "ongoing"
  /\ undoOffer = NoOffer
  /\ NoRealMoveYet
  /\ snapshots # << >>
  /\ undoOffer' = [from |-> p, mode |-> "opening", target |-> 0]
  /\ UNCHANGED <<stones, turn, outcome, drawOffer, opening>>

RequestPlayUndo(p) ==
  /\ status = "ongoing"
  /\ undoOffer = NoOffer
  /\ ~NoRealMoveYet
  /\ \E i \in OwnPlayMoves(p) :
       /\ \A j \in OwnPlayMoves(p) : j <= i
       /\ undoOffer' = [from |-> p, mode |-> "play", target |-> i]
  /\ UNCHANGED <<stones, turn, outcome, drawOffer, opening>>

\* Pop moveHistory down to n entries, clearing each popped cell.
RollBackTo(n) ==
  /\ history' = SubSeq(history, 1, n)
  /\ board' = [c \in Cells |->
                 IF \E i \in (n + 1)..Len(history) : history[i].cell = c
                 THEN "EMPTY" ELSE board[c]]

AcceptPlayUndo(p) ==
  /\ status = "ongoing"
  /\ undoOffer.from = Opponent(p)
  /\ undoOffer.mode = "play"
  /\ undoOffer' = NoOffer
  /\ RollBackTo(undoOffer.target)
  /\ turn' = undoOffer.from
  /\ UNCHANGED <<outcome, drawOffer, opening>>

AcceptOpeningUndo(p) ==
  /\ status = "ongoing"
  /\ undoOffer.from = Opponent(p)
  /\ undoOffer.mode = "opening"
  /\ undoOffer' = NoOffer
  /\ LET s == snapshots[Len(snapshots)] IN
       /\ RollBackTo(s.length)
       /\ phase' = s.phase
       /\ turn' = s.turn
       /\ placed' = s.placed
       /\ colour' = s.colour
  /\ snapshots' = SubSeq(snapshots, 1, Len(snapshots) - 1)
  /\ playStart' = -1
  /\ UNCHANGED <<outcome, drawOffer>>

DeclineUndo(p) ==
  /\ undoOffer.from = Opponent(p)
  /\ undoOffer' = NoOffer
  /\ UNCHANGED <<stones, turn, outcome, drawOffer, opening>>

-----------------------------------------------------------------------------

Next ==
  \E p \in Players :
    \/ \E c \in Cells : MakeMove(p, c) \/ PlaceOpeningStone(p, c)
    \/ Swap2ChoosePlace(p)
    \/ \E k \in Colours : Swap2ChooseColour(p, k)
    \/ Resign(p) \/ HandleTimeout(p)
    \/ OfferDraw(p) \/ AcceptDraw(p) \/ DeclineDraw(p)
    \/ RequestOpeningUndo(p) \/ RequestPlayUndo(p)
    \/ AcceptPlayUndo(p) \/ AcceptOpeningUndo(p) \/ DeclineUndo(p)

Spec == Init /\ [][Next]_vars

-----------------------------------------------------------------------------
(***************************************************************************)
(* What the engine promises.                                               *)
(***************************************************************************)

\* The board shows exactly the stones of moveHistory, through every roll-back:
\* the two are written separately by makeMove, placeOpeningStone and the undos.
BoardMatchesHistory ==
  /\ \A i \in 1..Len(history) : board[history[i].cell] = history[i].colour
  /\ \A i, j \in 1..Len(history) : history[i].cell = history[j].cell => i = j
  /\ \A c \in Cells : board[c] # "EMPTY" =>
       \E i \in 1..Len(history) : history[i].cell = c

\* Black and White stones alternate in moveHistory whoever lays them, whichever
\* way the Swap2 opening went and however often it was undone.
ColoursAlternate ==
  \A i \in 1..Len(history) :
    history[i].colour = IF i % 2 = 1 THEN "BLACK" ELSE "WHITE"

\* Once the colours are assigned the two players hold one each, and while the
\* game runs the player to move is the one whose colour comes next.
TurnFollowsStones ==
  phase = "play" =>
    /\ {colour[First], colour[Second]} = Colours
    /\ status = "ongoing" =>
         colour[turn] = IF Len(history) % 2 = 0 THEN "BLACK" ELSE "WHITE"

\* Every opening state, reached forwards or by undo, is one the Swap2 procedure
\* has: the phase, the stones laid in it and whose action it is fit together.
InOpeningState(ph, n, k, p, col) ==
  /\ \A q \in Players : col[q] = None
  /\ \/ ph = "place3"   /\ k = n     /\ n < 3           /\ p = First
     \/ ph = "p2choice" /\ k = 0     /\ n = 3           /\ p = Second
     \/ ph = "place2"   /\ k = n - 3 /\ n >= 3 /\ n < 5 /\ p = Second
     \/ ph = "p1choice" /\ k = 0     /\ n = 5           /\ p = First

OpeningWellFormed ==
  IF phase = "play"
  THEN /\ playStart \in (IF Swap2 THEN {3, 5} ELSE {0})
       /\ playStart <= Len(history)
  ELSE /\ Swap2
       /\ playStart = -1
       /\ InOpeningState(phase, Len(history), placed, turn, colour)

\* Every snapshot on the stack is a state this opening went through and that
\* the history still reaches: no longer than the stones laid before the real
\* moves, and no longer than the snapshots above it, so that undo after undo
\* walks back through the opening and never meets a stone that is gone.
SnapshotsSound ==
  /\ snapshots # << >> => Swap2
  /\ \A i \in 1..Len(snapshots) :
       LET s == snapshots[i] IN
       /\ InOpeningState(s.phase, s.length, s.placed, s.turn, s.colour)
       /\ s.length <= IF phase = "play" THEN playStart ELSE Len(history)
       /\ \A j \in 1..Len(snapshots) : i <= j => s.length <= snapshots[j].length

\* A pending undo request can always be carried out: a play request names a
\* stone of its author with at most one reply after it, an opening request has
\* a snapshot to restore (acceptUndo would otherwise dereference undefined).
UndoRequestApplies ==
  /\ undoOffer.mode = "play" =>
       /\ phase = "play"
       /\ undoOffer.target \in OwnPlayMoves(undoOffer.from)
       /\ Len(history) - undoOffer.target <= 2
  /\ undoOffer.mode = "opening" => snapshots # << >>

\* A row along an axis, whichever of its stones came last: a smallest set of
\* stones of colour k that no step leaves for another of them.
Path(axis, s, c) == Walk[<<axis, s>>][c]

Step(axis, s, c, d) == Path(axis, s, c) # << >> /\ Path(axis, s, c)[1] = d

Closed(b, axis, k, S) ==
  \A c \in S, d \in Cells, s \in {1, -1} : Step(axis, s, c, d) /\ b[d] = k => d \in S

IsRow(b, axis, k, S) ==
  /\ S # {}
  /\ Closed(b, axis, k, S)
  /\ \A T \in SUBSET S : T # {} /\ Closed(b, axis, k, T) => T = S

\* It wins by its length and, in Caro, if no opponent's stone stops it one way.
RowWins(b, axis, k, S) ==
  /\ LengthWins(Cardinality(S))
  /\ Rule = "caro" => \E s \in {1, -1} : \A c \in S : ~Blocks(b, <<axis, s>>, c, k)

HasWinningRow(b, k) ==
  \E axis \in Axes, S \in SUBSET {c \in Cells : b[c] = k} :
    IsRow(b, axis, k, S) /\ RowWins(b, axis, k, S)

\* The game is decided exactly when the board says so: it is won iff there is a
\* row that wins anywhere, by the player of that colour, and a full board ends
\* it.  _checkWin looks from the last stone only, which joins or blocks others;
\* an undo may free an end or take an overline back to five.
OutcomeMatchesBoard ==
  /\ result.reason = "win" <=> \E k \in Colours : HasWinningRow(board, k)
  /\ result.reason = "win" => HasWinningRow(board, colour[result.winner])
  /\ phase = "play" /\ BoardFull(board) => status = "finished"

\* A board whose rows read the same from each of their stones: a walk is made of
\* single steps, ends where there is none or at its start, and each step can be
\* taken back.  Every board without portals is one; the lines of two portal
\* pairs that interlock on one axis are not.
Straight ==
  /\ Walk \in [Ways -> [Cells -> Seq(Cells)]]
  /\ \A axis \in Axes, s \in {1, -1}, c, d \in Cells :
       Step(axis, s, c, d) => Step(axis, -s, d, c)
  /\ \A axis \in Axes, s \in {1, -1}, c \in Cells :
       \A i \in 1..(Len(Path(axis, s, c)) - 1) :
         Step(axis, s, Path(axis, s, c)[i], Path(axis, s, c)[i + 1])
  /\ \A axis \in Axes, s \in {1, -1}, c, d \in Cells :
       /\ Path(axis, s, c) # << >>
       /\ Step(axis, s, Path(axis, s, c)[Len(Path(axis, s, c))], d)
       => d = c
  /\ \A axis \in Axes, s \in {1, -1}, c, d \in Cells :
       Beside[<<axis, s>>][c] = d => Step(axis, s, c, d)

\* With walls and no Swap2 opening, the two WALL placement rules hold of the
\* stones on the board and not only at the moment each was laid: an undo never
\* leaves a first or third stone the rules would have refused.
WallRulesSurviveUndo ==
  [][HasWalls /\ ~Swap2 =>
       /\ Len(history') >= 1 => history'[1].cell \in FirstZone
       /\ Len(history') >= 3 => <<history'[1].cell, history'[3].cell>> \in FarApart]_vars

\* An opening undo "steps back exactly one atomic action (a stone placement or
\* a choice)": it never takes a real move back along with a choice.
OpeningUndoStepsBackOneAction ==
  [][Len(snapshots') < Len(snapshots) => NoRealMoveYet]_vars

=============================================================================
