-------------------------- MODULE MCTournamentMatch --------------------------
(***************************************************************************)
(* Bounds for TournamentMatch.  The cells are interchangeable: no line is  *)
(* filled, so that every game is decided by a full board, by word or by    *)
(* the clock.                                                              *)
(***************************************************************************)
EXTENDS TournamentMatch

CONSTANTS c1, c2, c3, c4, c5, c6

Nothing == << >>

MCCells == {c1, c2, c3, c4, c5, c6}
MCFewCells == {c1, c2, c3, c4}
=============================================================================
