-------------------------- MODULE MCTournamentRounds --------------------------
(***************************************************************************)
(* Bounds for TournamentRounds.  The life of a pairing has no part here.   *)
(***************************************************************************)
EXTENDS TournamentRounds

MCFields == {<<"swiss", 3>>, <<"swiss", 4>>, <<"swiss", 5>>, <<"round_robin", 3>>,
             <<"round_robin", 4>>, <<"double_elim", 2>>, <<"double_elim", 4>>}

MCThreePlayers == {<<"double_elim", 3>>}
=============================================================================
