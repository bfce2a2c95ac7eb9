------------------------- MODULE MCChallengeSeries -------------------------
(***************************************************************************)
(* Challenges of one and three games and three games in all: a series that  *)
(* is decided early, one that goes the distance, and games beside them.    *)
(***************************************************************************)
EXTENDS ChallengeSeries
=============================================================================
