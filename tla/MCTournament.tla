----------------------------- MODULE MCTournament -----------------------------
(***************************************************************************)
(* Bounds for Tournament: the smallest field of each format that has a     *)
(* second round or a bye, and a series of two games, which may be tied.    *)
(***************************************************************************)
EXTENDS Tournament

MCFields == {<<"swiss", 3>>, <<"round_robin", 2>>, <<"double_elim", 2>>}
MCRuleSets ==
  {[seriesMode |-> "fixedCount", count |-> 2, target |-> 0, margin |-> 0],
   [seriesMode |-> "raceToMargin", count |-> 0, target |-> 2, margin |-> 1]}
MCCrashFormats == {"swiss", "round_robin"}

MCFieldOfFour == {<<"double_elim", 4>>}
MCSingle == {[seriesMode |-> "single", count |-> 1, target |-> 0, margin |-> 0]}
MCBrackets == {"double_elim"}
=============================================================================
