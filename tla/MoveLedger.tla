----------------------------- MODULE MoveLedger -----------------------------
(***************************************************************************)
(* What the delivery of moves promises: a ledger of the game that players  *)
(* write into by number.  A move a player made once is entered at most     *)
(* once in a game, however often its packet arrives; a player who is told  *)
(* that a move was accepted finds it was entered, and one who is told it   *)
(* was refused can be sure that the game being played does not have it and *)
(* that no game will.                                                      *)
(***************************************************************************)
EXTENDS Integers, Sequences

CONSTANTS
  Ids,    \* the numbers a move can have
  Cells   \* the cells of the board

VARIABLES
  open,     \* the game is on
  entries,  \* its moves that stand, as [id, cell]
  entered,  \* the numbers entered in this game, taken back or not
  ever,     \* the numbers entered in any game
  accepted, \* the numbers whose players were told they were accepted
  refused   \* and those whose players were told they were refused

ledger == <<open, entries, entered, ever, accepted, refused>>

Init ==
  /\ open = TRUE
  /\ entries = <<>>
  /\ entered = {} /\ ever = {} /\ accepted = {} /\ refused = {}

\* A move is entered; one that decides the game closes the book on it.
Enter ==
  \E id \in Ids \ (entered \cup refused), cell \in Cells :
    /\ open
    /\ entries' = Append(entries, [id |-> id, cell |-> cell])
    /\ ever' = ever \cup {id}
    /\ open' \in BOOLEAN
    /\ entered' = IF open' THEN entered \cup {id} ELSE {}
    /\ UNCHANGED <<accepted, refused>>

TakeBack ==
  \E n \in 0..Len(entries) :
    /\ open
    /\ entries' = SubSeq(entries, 1, n)
    /\ UNCHANGED <<open, entered, ever, accepted, refused>>

Accept ==
  \E id \in ever :
    /\ accepted' = accepted \cup {id}
    /\ UNCHANGED <<open, entries, entered, ever, refused>>

Refuse ==
  \E id \in Ids \ entered :
    /\ refused' = refused \cup {id}
    /\ UNCHANGED <<open, entries, entered, ever, accepted>>

NewGame ==
  /\ ~open
  /\ open' = TRUE
  /\ entries' = <<>> /\ entered' = {}
  /\ UNCHANGED <<ever, accepted, refused>>

Next == Enter \/ TakeBack \/ Accept \/ Refuse \/ NewGame

Spec == Init /\ [][Next]_ledger
=============================================================================
