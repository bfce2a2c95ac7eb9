-------------------------- MODULE MCMoveDelivery --------------------------
(***************************************************************************)
(* Two players, a board of three cells, and a packet or two that are lost. *)
(***************************************************************************)
EXTENDS MoveDelivery

CONSTANTS black, white, cell1, cell2, cell3
=============================================================================
