---------------------------- MODULE MCCasualRoom ----------------------------
(***************************************************************************)
(* Small instances of CasualRoom.  Users are interchangeable, and so are   *)
(* room ids.                                                               *)
(***************************************************************************)
EXTENDS CasualRoom, TLC

MCSymmetry == Permutations(Users) \cup Permutations(Rooms)

=============================================================================
