------------------------------ MODULE MCLobby ------------------------------
(***************************************************************************)
(* Three users, one of them a guest, whose ratings are one and three       *)
(* windows apart; two rooms, and two addresses that may have one each,     *)
(* beside one that was left: a pair may be refused while a room is free.   *)
(***************************************************************************)
EXTENDS Lobby, TLC

CONSTANTS ann, bob, guest, home, away

MCChip(t, r) == [pool |-> "freestyle", time |-> t, rated |-> r]
MCChips      == {MCChip("auto", FALSE), MCChip("3+2", FALSE), MCChip("5+3", FALSE),
                 MCChip("3+2", TRUE)}
MCRatings    == ann :> 1 @@ bob :> 4 @@ guest :> 1
MCAddressOf  == ann :> home @@ bob :> away @@ guest :> home
=============================================================================
