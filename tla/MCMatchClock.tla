---------------------------- MODULE MCMatchClock ----------------------------
(***************************************************************************)
(* Bounds for MatchClock, and through it for GameEngine.                   *)
(*                                                                         *)
(* Swap2: where the stones lie matters to nothing but the board itself, so *)
(* there is no axis, the cells are interchangeable and seven of them       *)
(* leave two moves of play behind the five stones of the long opening.     *)
(* Plain: three in a row win, and the distance rule is scaled down with    *)
(* them.  Between walls five cells lie in a row, one below the second, and *)
(* a portal makes a column of the fifth, the second and that one:          *)
(*                        .  P  .  .  .                                    *)
(*                       c1 c2 c3 c4 c5                                    *)
(*                        . c6  .  .  P                                    *)
(***************************************************************************)
EXTENDS MatchClock, TLC

CONSTANTS c1, c2, c3, c4, c5, c6, c7, top, bottom

Nothing == << >>

MCSwap2Cells == {c1, c2, c3, c4, c5, c6, c7}

MCPlainCells   == {c1, c2, c3, c4, c5, c6}
MCPlainPortals == {top, bottom}
MCPlainPartner == top :> bottom @@ bottom :> top
MCPlainAxes    == {<<1, 0>>, <<0, 1>>, <<1, 1>>, <<1, -1>>}

\* Column and row of what is not a wall.
At == top :> <<2, 1>> @@ bottom :> <<5, 3>> @@ c6 :> <<2, 3>>
      @@ c1 :> <<1, 2>> @@ c2 :> <<2, 2>> @@ c3 :> <<3, 2>> @@ c4 :> <<4, 2>> @@ c5 :> <<5, 2>>

MCPlainBeside ==
  [way \in MCPlainAxes \X {1, -1} |->
    [d \in DOMAIN At |->
      LET next == {e \in DOMAIN At : \A i \in 1..2 : At[e][i] = At[d][i] + way[2] * way[1][i]}
      IN  IF next = {} THEN None ELSE CHOOSE e \in next : TRUE]]

Apart(i, j) == i - j >= 2 \/ j - i >= 2

MCZone == {c2, c5}
MCFar  == {p \in MCPlainCells \X MCPlainCells : \E i \in 1..2 : Apart(At[p[1]][i], At[p[2]][i])}

\* What OutcomeCorrect asks of a board is true of this one.
ASSUME BoardIsStraight == Straight

MCCellSymmetry == Permutations(Cells)
=============================================================================
