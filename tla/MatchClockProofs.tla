-------------------------- MODULE MatchClockProofs --------------------------
(***************************************************************************)
(* Proofs about GameEngine, MatchClock and TournamentMatch.                *)
(*                                                                         *)
(* First the engine: its invariants for every board, every pair of         *)
(* players and games of any length.  None of TypeOK, BoardMatchesHistory,  *)
(* ColoursAlternate, TurnFollowsStones, OpeningWellFormed and              *)
(* UndoRequestApplies is inductive alone: a roll-back is only as good as   *)
(* the request and the snapshot it follows, which is what SnapshotsSound   *)
(* adds.                                                                   *)
(*                                                                         *)
(* Then its clock: the handlers only ever take the engine's own steps, so  *)
(* IInv carries over, and with it the clock is shown to run for the player *)
(* to move.  The last part is about the handlers of a tournament's games.  *)
(***************************************************************************)
EXTENDS TournamentMatch, SubsequenceProofs, SequenceTheorems, TLAPS

-----------------------------------------------------------------------------
(* The engine. *)

\* The engine's inductive invariant.
IInv ==
  /\ TypeOK
  /\ BoardMatchesHistory
  /\ ColoursAlternate
  /\ TurnFollowsStones
  /\ OpeningWellFormed
  /\ UndoRequestApplies
  /\ SnapshotsSound

-----------------------------------------------------------------------------

\* What Append does to a sequence, entry by entry.
LEMMA AppendFacts ==
  ASSUME NEW S, NEW s \in Seq(S), NEW e \in S
  PROVE  /\ Append(s, e) \in Seq(S)
         /\ Len(Append(s, e)) = Len(s) + 1
         /\ \A i \in 1..Len(s) : Append(s, e)[i] = s[i]
         /\ Append(s, e)[Len(s) + 1] = e
  OBVIOUS

\* What cutting a sequence down to its first n entries does.
LEMMA PrefixFacts ==
  ASSUME NEW S, NEW s \in Seq(S), NEW n \in 0..Len(s)
  PROVE  /\ SubSeq(s, 1, n) \in Seq(S)
         /\ Len(SubSeq(s, 1, n)) = n
         /\ \A i \in 1..n : SubSeq(s, 1, n)[i] = s[i]
<1>1. Len(s) \in Nat /\ \A i \in 1..Len(s) : s[i] \in S
  BY ElementOfSeq, LenProperties
<1>2. \A i \in 1..n : s[i] \in S
  BY <1>1
<1> QED
  BY <1>1, <1>2, SubSeqProperties

\* The colour that the i-th stone of a game has.
ColourAt(i) == IF i % 2 = 1 THEN "BLACK" ELSE "WHITE"

\* Laying a stone of the next colour on a free cell keeps the board and the
\* history together and the colours alternating.
LEMMA PutStoneKeeps ==
  ASSUME TypeOK, BoardMatchesHistory, ColoursAlternate,
         NEW c \in Cells, NEW k \in Colours,
         k = ColourAt(Len(history) + 1), PutStone(c, k)
  PROVE  /\ board' \in [Cells -> Colours \cup {"EMPTY"}]
         /\ history' \in Seq(Stone)
         /\ Len(history') = Len(history) + 1
         /\ \A i \in 1..Len(history) : history'[i] = history[i]
         /\ history'[Len(history) + 1].colour = k
         /\ BoardMatchesHistory'
         /\ ColoursAlternate'
<1> DEFINE st == [cell |-> c, colour |-> k]
           n  == Len(history)
<1>1. st \in Stone
  BY DEF Stone
<1>2. history \in Seq(Stone) /\ n \in Nat
  BY LenProperties DEF TypeOK
<1>3. /\ history' \in Seq(Stone)
      /\ Len(history') = n + 1
      /\ \A i \in 1..n : history'[i] = history[i]
      /\ history'[n + 1] = st
  BY <1>1, <1>2, AppendFacts DEF PutStone
<1>4. board' \in [Cells -> Colours \cup {"EMPTY"}]
  BY DEF TypeOK, PutStone
<1>5. \A i \in 1..n : history[i] \in Stone /\ history[i].cell # c
  <2> TAKE i \in 1..n
  <2>1. history[i] \in Stone
    BY <1>2, ElementOfSeq
  <2>2. board[history[i].cell] = history[i].colour
    BY DEF BoardMatchesHistory
  <2> QED
    BY <2>1, <2>2 DEF Stone, Colours, PutStone
<1>6. BoardMatchesHistory'
  <2>1. \A i \in 1..Len(history') : board'[history'[i].cell] = history'[i].colour
    BY <1>2, <1>3, <1>5 DEF BoardMatchesHistory, PutStone, Stone, TypeOK
  <2>2. \A i, j \in 1..Len(history') : history'[i].cell = history'[j].cell => i = j
    BY <1>2, <1>3, <1>5 DEF BoardMatchesHistory
  <2>3. ASSUME NEW d \in Cells, board'[d] # "EMPTY"
        PROVE  \E i \in 1..Len(history') : history'[i].cell = d
    <3>1. CASE d = c
      BY <3>1, <1>2, <1>3
    <3>2. CASE d # c
      <4>1. board[d] # "EMPTY"
        BY <3>2, <2>3 DEF PutStone, TypeOK
      <4>2. PICK i \in 1..n : history[i].cell = d
        BY <4>1 DEF BoardMatchesHistory
      <4> QED
        BY <4>2, <1>2, <1>3
    <3> QED
      BY <3>1, <3>2
  <2> QED
    BY <2>1, <2>2, <2>3 DEF BoardMatchesHistory
<1>7. ColoursAlternate'
  <2> SUFFICES ASSUME NEW i \in 1..(n + 1)
               PROVE  history'[i].colour = ColourAt(i)
    BY <1>3 DEF ColoursAlternate, ColourAt
  <2>1. CASE i = n + 1
    BY <2>1, <1>3
  <2>2. CASE i \in 1..n
    BY <2>2, <1>3 DEF ColoursAlternate, ColourAt
  <2> QED
    BY <2>1, <2>2, <1>2
<1> QED
  BY <1>3, <1>4, <1>6, <1>7

\* Rolling the game back to its first n stones keeps both as well.
LEMMA RollBackKeeps ==
  ASSUME TypeOK, BoardMatchesHistory, ColoursAlternate,
         NEW n \in 0..Len(history), RollBackTo(n)
  PROVE  /\ board' \in [Cells -> Colours \cup {"EMPTY"}]
         /\ history' \in Seq(Stone)
         /\ Len(history') = n
         /\ \A i \in 1..n : history'[i] = history[i]
         /\ BoardMatchesHistory'
         /\ ColoursAlternate'
<1>1. history \in Seq(Stone) /\ Len(history) \in Nat
  BY LenProperties DEF TypeOK
<1>2. /\ history' \in Seq(Stone)
      /\ Len(history') = n
      /\ \A i \in 1..n : history'[i] = history[i]
  BY <1>1, PrefixFacts DEF RollBackTo
<1>3. board' \in [Cells -> Colours \cup {"EMPTY"}]
  BY DEF TypeOK, RollBackTo
<1>4. \A i \in 1..Len(history) : history[i].cell \in Cells
  <2> TAKE i \in 1..Len(history)
  <2>1. history[i] \in Stone
    BY <1>1, ElementOfSeq
  <2> QED
    BY <2>1 DEF Stone
<1>5. BoardMatchesHistory'
  <2>1. ASSUME NEW i \in 1..n
        PROVE  board'[history'[i].cell] = history'[i].colour
    <3>1. ASSUME NEW j \in (n + 1)..Len(history)
          PROVE  history[j].cell # history[i].cell
      <4>1. i \in 1..Len(history) /\ j \in 1..Len(history) /\ i # j
        BY <1>1
      <4> QED
        BY <4>1 DEF BoardMatchesHistory
    <3>2. board'[history[i].cell] = board[history[i].cell]
      BY <3>1, <1>1, <1>4 DEF RollBackTo
    <3> QED
      BY <3>2, <1>1, <1>2 DEF BoardMatchesHistory
  <2>2. \A i, j \in 1..n : history'[i].cell = history'[j].cell => i = j
    BY <1>1, <1>2 DEF BoardMatchesHistory
  <2>3. ASSUME NEW d \in Cells, board'[d] # "EMPTY"
        PROVE  \E i \in 1..n : history'[i].cell = d
    <3>1. board[d] # "EMPTY" /\ \A i \in (n + 1)..Len(history) : history[i].cell # d
      BY <2>3 DEF RollBackTo
    <3>2. PICK i \in 1..Len(history) : history[i].cell = d
      BY <3>1 DEF BoardMatchesHistory
    <3>3. i \in 1..n
      BY <3>1, <3>2, <1>1
    <3> QED
      BY <3>2, <3>3, <1>2
  <2> QED
    BY <1>2, <2>1, <2>2, <2>3 DEF BoardMatchesHistory
<1>6. ColoursAlternate'
  BY <1>1, <1>2 DEF ColoursAlternate
<1> QED
  BY <1>2, <1>3, <1>5, <1>6

-----------------------------------------------------------------------------

\* Initially there is no stone, no offer and no snapshot.
LEMMA InitInv == Init => IInv
<1> SUFFICES ASSUME Init PROVE IInv
  OBVIOUS
<1> USE DEF Init
<1>1. history = << >> /\ Len(history) = 0 /\ history \in Seq(Stone)
  OBVIOUS
<1>2. snapshots = << >> /\ Len(snapshots) = 0 /\ snapshots \in Seq(Snapshot)
  OBVIOUS
<1>3. First \in Players /\ Second \in Players
  BY DEF Players
<1>4. TypeOK
  BY <1>1, <1>2, <1>3 DEF TypeOK, Colours, Phases, Offers, NoOffer
<1>5. BoardMatchesHistory
  BY <1>1 DEF BoardMatchesHistory
<1>6. ColoursAlternate
  BY <1>1 DEF ColoursAlternate
<1>7. TurnFollowsStones
  <2>1. CASE Swap2
    BY <2>1 DEF TurnFollowsStones
  <2>2. CASE ~Swap2
    <3>1. colour[First] = "BLACK" /\ colour[Second] = "WHITE"
      BY <2>2, <1>3, PlayersAssumption
    <3> QED
      BY <3>1, <1>1 DEF TurnFollowsStones, Colours
  <2> QED
    BY <2>1, <2>2
<1>8. OpeningWellFormed
  BY <1>1 DEF OpeningWellFormed, InOpeningState
<1>9. UndoRequestApplies
  BY DEF UndoRequestApplies, NoOffer
<1>10. SnapshotsSound
  BY <1>2 DEF SnapshotsSound
<1> QED
  BY <1>4, <1>5, <1>6, <1>7, <1>8, <1>9, <1>10 DEF IInv

\* The invariant depends on the status only in that the game may be over.
LEMMA TalkKeepsInv ==
  ASSUME IInv, UNCHANGED <<stones, turn, undoOffer, opening>>,
         status' \in {"ongoing", "finished"}, status' = "ongoing" => status = "ongoing",
         drawOffer' \in Players \cup {None},
         result' \in [winner : Players \cup {None, "draw"},
                      reason : {"none", "win", "board_full", "resign", "agreement", "timeout"}]
  PROVE  IInv'
<1>1. UNCHANGED <<board, history, turn, undoOffer, phase, placed, colour, playStart, snapshots>>
  BY DEF stones, opening
<1>2. TypeOK'
  BY <1>1 DEF IInv, TypeOK
<1>3. BoardMatchesHistory' /\ ColoursAlternate'
  BY <1>1 DEF IInv, BoardMatchesHistory, ColoursAlternate
<1>4. TurnFollowsStones'
  BY <1>1 DEF IInv, TurnFollowsStones
<1>5. OpeningWellFormed' /\ SnapshotsSound'
  BY <1>1 DEF IInv, OpeningWellFormed, InOpeningState, SnapshotsSound
<1>6. UndoRequestApplies'
  BY <1>1 DEF IInv, UndoRequestApplies, OwnPlayMoves
<1> QED
  BY <1>2, <1>3, <1>4, <1>5, <1>6 DEF IInv

\* Nor does anything but UndoRequestApplies depend on the undo request.
LEMMA UndoTalkKeepsInv ==
  ASSUME IInv, UNCHANGED <<stones, turn, outcome, drawOffer, opening>>,
         undoOffer' \in Offers \cup {NoOffer}, UndoRequestApplies'
  PROVE  IInv'
<1>1. UNCHANGED <<board, history, turn, status, result, drawOffer, phase, placed, colour,
                  playStart, snapshots>>
  BY DEF stones, opening, outcome
<1>2. TypeOK'
  BY <1>1 DEF IInv, TypeOK
<1>3. BoardMatchesHistory' /\ ColoursAlternate'
  BY <1>1 DEF IInv, BoardMatchesHistory, ColoursAlternate
<1>4. TurnFollowsStones'
  BY <1>1 DEF IInv, TurnFollowsStones
<1>5. OpeningWellFormed' /\ SnapshotsSound'
  BY <1>1 DEF IInv, OpeningWellFormed, InOpeningState, SnapshotsSound
<1> QED
  BY <1>2, <1>3, <1>4, <1>5 DEF IInv

\* The other player, and the other colour, are what one expects.
LEMMA OpponentFacts ==
  /\ \A p \in Players : Opponent(p) \in Players /\ Opponent(p) # p
  /\ \A p, q \in Players : q # p => q = Opponent(p)
BY PlayersAssumption DEF Players, Opponent

\* In the play phase the colours are those of a game, one each.
LEMMA ColoursInPlay ==
  ASSUME TypeOK, TurnFollowsStones, phase = "play"
  PROVE  /\ \A p \in Players : colour[p] \in Colours
         /\ \A p, q \in Players : colour[p] = colour[q] => p = q
<1>1. {colour[First], colour[Second]} = {"BLACK", "WHITE"}
  BY DEF TurnFollowsStones, Colours
<1>2. "BLACK" # "WHITE"
  OBVIOUS
<1>3. colour[First] # colour[Second]
  BY <1>1, <1>2
<1> QED
  BY <1>1, <1>3 DEF Players, Colours

-----------------------------------------------------------------------------
(***************************************************************************)
(* Asking for an undo.                                                     *)
(***************************************************************************)

\* The last own stone of a player has at most one reply after it: the stone
\* two places on would be of the same colour.
LEMMA LastOwnStone ==
  ASSUME IInv, ~NoRealMoveYet, NEW p \in Players, NEW i \in OwnPlayMoves(p),
         \A j \in OwnPlayMoves(p) : j <= i
  PROVE  phase = "play" /\ i \in Nat /\ Len(history) - i <= 2
<1>1. history \in Seq(Stone) /\ Len(history) \in Nat /\ playStart \in Int
  BY LenProperties DEF IInv, TypeOK
<1>2. phase = "play"
  BY DEF IInv, OpeningWellFormed, NoRealMoveYet
<1>3. i \in 0..(Len(history) - 1) /\ i >= playStart /\ history[i + 1].colour = colour[p]
  BY DEF OwnPlayMoves
<1>4. ASSUME i + 3 <= Len(history) PROVE FALSE
  <2>1. history[i + 3].colour = history[i + 1].colour
    <3>1. i + 1 \in 1..Len(history) /\ i + 3 \in 1..Len(history) /\ (i + 3) % 2 = (i + 1) % 2
      BY <1>1, <1>3, <1>4
    <3> QED
      BY <3>1 DEF IInv, ColoursAlternate
  <2>2. i + 2 \in OwnPlayMoves(p)
    BY <2>1, <1>1, <1>3, <1>4 DEF OwnPlayMoves
  <2> QED
    BY <2>2, <1>3
<1> QED
  BY <1>1, <1>2, <1>3, <1>4

LEMMA RequestUndoKeepsInv ==
  ASSUME IInv, NEW p \in Players, RequestOpeningUndo(p) \/ RequestPlayUndo(p)
  PROVE  IInv'
<1>1. CASE RequestOpeningUndo(p)
  <2>1. undoOffer' \in Offers /\ undoOffer'.mode = "opening"
    BY <1>1 DEF RequestOpeningUndo, Offers
  <2>2. UNCHANGED snapshots /\ snapshots # << >>
    BY <1>1 DEF RequestOpeningUndo, opening
  <2>3. UndoRequestApplies'
    BY <2>1, <2>2 DEF UndoRequestApplies
  <2> QED
    BY <1>1, <2>1, <2>3, UndoTalkKeepsInv DEF RequestOpeningUndo
<1>2. CASE RequestPlayUndo(p)
  <2>1. PICK i \in OwnPlayMoves(p) :
          /\ \A j \in OwnPlayMoves(p) : j <= i
          /\ undoOffer' = [from |-> p, mode |-> "play", target |-> i]
    BY <1>2 DEF RequestPlayUndo
  <2>2. phase = "play" /\ i \in Nat /\ Len(history) - i <= 2
    BY <1>2, <2>1, LastOwnStone DEF RequestPlayUndo
  <2>3. undoOffer' \in Offers
    BY <2>1, <2>2 DEF Offers
  <2>4. UNCHANGED <<history, phase, playStart, colour>>
    BY <1>2 DEF RequestPlayUndo, opening, stones
  <2>5. UndoRequestApplies'
    BY <2>1, <2>2, <2>4 DEF UndoRequestApplies, OwnPlayMoves
  <2> QED
    BY <1>2, <2>3, <2>5, UndoTalkKeepsInv DEF RequestPlayUndo
<1> QED
  BY <1>1, <1>2

LEMMA DeclineUndoKeepsInv ==
  ASSUME IInv, NEW p \in Players, DeclineUndo(p)
  PROVE  IInv'
<1>1. undoOffer' = NoOffer /\ NoOffer.mode = "none"
  BY DEF DeclineUndo, NoOffer
<1>2. UndoRequestApplies'
  BY <1>1 DEF UndoRequestApplies
<1> QED
  BY <1>1, <1>2, UndoTalkKeepsInv DEF DeclineUndo

(***************************************************************************)
(* A move.                                                                 *)
(***************************************************************************)
LEMMA MakeMoveKeepsInv ==
  ASSUME IInv, NEW p \in Players, NEW c \in Cells, MakeMove(p, c)
  PROVE  IInv'
<1> DEFINE n == Len(history)
<1>1. /\ TypeOK /\ BoardMatchesHistory /\ ColoursAlternate /\ TurnFollowsStones
      /\ OpeningWellFormed /\ UndoRequestApplies /\ SnapshotsSound
  BY DEF IInv
<1>2. history \in Seq(Stone) /\ n \in Nat /\ playStart \in Int
  BY <1>1, LenProperties DEF TypeOK
<1>3. phase = "play" /\ status = "ongoing" /\ turn = p /\ PutStone(c, colour[p])
  BY DEF MakeMove
<1>4. /\ UNCHANGED <<phase, placed, colour, playStart, snapshots>>
      /\ drawOffer' = None
      /\ undoOffer' = IF undoOffer.from = p THEN NoOffer ELSE undoOffer
  BY DEF MakeMove, opening, CancelOwnUndo
<1>5. colour[p] \in Colours /\ colour[p] = ColourAt(n + 1)
  BY <1>1, <1>2, <1>3, ColoursInPlay DEF TurnFollowsStones, ColourAt
<1>6. /\ board' \in [Cells -> Colours \cup {"EMPTY"}]
      /\ history' \in Seq(Stone)
      /\ Len(history') = n + 1
      /\ \A i \in 1..n : history'[i] = history[i]
      /\ BoardMatchesHistory'
      /\ ColoursAlternate'
  BY <1>1, <1>3, <1>5, PutStoneKeeps
<1>7. \/ turn' = turn /\ status' = "finished" /\ result' = [winner |-> p, reason |-> "win"]
      \/ turn' = turn /\ status' = "finished" /\ result' = [winner |-> "draw", reason |-> "board_full"]
      \/ turn' = Opponent(p) /\ UNCHANGED <<status, result>>
  BY <1>3 DEF MakeMove, Finish, outcome
<1>8. TypeOK'
  <2>1. turn' \in Players /\ status' \in {"ongoing", "finished"}
    BY <1>1, <1>3, <1>7, OpponentFacts DEF TypeOK
  <2>2. result' \in [winner : Players \cup {None, "draw"},
                     reason : {"none", "win", "board_full", "resign", "agreement", "timeout"}]
    BY <1>1, <1>7 DEF TypeOK
  <2>3. undoOffer' \in Offers \cup {NoOffer}
    BY <1>1, <1>4 DEF TypeOK
  <2> QED
    BY <1>1, <1>4, <1>6, <2>1, <2>2, <2>3 DEF TypeOK
<1>9. TurnFollowsStones'
  <2>1. {colour'[First], colour'[Second]} = Colours
    BY <1>1, <1>3, <1>4 DEF TurnFollowsStones
  <2>2. ASSUME status' = "ongoing"
        PROVE  colour'[turn'] = IF Len(history') % 2 = 0 THEN "BLACK" ELSE "WHITE"
    <3>1. turn' = Opponent(p)
      BY <2>2, <1>7
    <3>2. colour[Opponent(p)] \in Colours /\ colour[Opponent(p)] # colour[p]
      BY <1>1, <1>3, ColoursInPlay, OpponentFacts
    <3> QED
      BY <3>1, <3>2, <1>2, <1>4, <1>5, <1>6 DEF Colours, ColourAt
  <2> QED
    BY <2>1, <2>2 DEF TurnFollowsStones
<1>10. OpeningWellFormed'
  BY <1>1, <1>2, <1>3, <1>4, <1>6 DEF OpeningWellFormed
<1>11. SnapshotsSound'
  BY <1>1, <1>3, <1>4 DEF SnapshotsSound, InOpeningState
<1>12. UndoRequestApplies'
  <2>1. CASE undoOffer.mode # "play" \/ undoOffer.from = p
    BY <2>1, <1>1, <1>4 DEF UndoRequestApplies, NoOffer
  <2>2. CASE undoOffer.mode = "play" /\ undoOffer.from # p
    <3> DEFINE q == undoOffer.from
               t == undoOffer.target
    <3>1. q \in Players /\ q # p /\ t \in Nat
      BY <2>2, <1>1 DEF TypeOK, Offers, NoOffer
    <3>2. t \in 0..(n - 1) /\ t >= playStart /\ history[t + 1].colour = colour[q] /\ n - t <= 2
      BY <2>2, <1>1 DEF UndoRequestApplies, OwnPlayMoves
    <3>3. n - t = 1
      <4>1. colour[q] # colour[p]
        BY <3>1, <1>1, <1>3, ColoursInPlay
      <4>2. history[t + 1].colour = ColourAt(t + 1)
        BY <3>2, <1>1, <1>2 DEF ColoursAlternate, ColourAt
      <4>3. t # n - 2
        BY <4>1, <4>2, <3>2, <1>2, <1>5 DEF ColourAt
      <4> QED
        BY <4>3, <3>2, <1>2
    <3>4. undoOffer' = undoOffer
      BY <2>2, <1>4
    <3>5. t \in 0..(Len(history') - 1) /\ t >= playStart' /\ history'[t + 1].colour = colour'[q]
      <4>1. t + 1 \in 1..n
        BY <3>2, <1>2
      <4>2. history'[t + 1] = history[t + 1]
        BY <4>1, <1>6
      <4> QED
        BY <4>2, <3>2, <1>2, <1>4, <1>6
    <3>6. Len(history') - t <= 2
      BY <3>1, <3>3, <1>2, <1>6
    <3> QED
      BY <3>4, <3>5, <3>6, <2>2, <1>3, <1>4 DEF UndoRequestApplies, OwnPlayMoves
  <2> QED
    BY <2>1, <2>2
<1> QED
  BY <1>6, <1>8, <1>9, <1>10, <1>11, <1>12 DEF IInv

(***************************************************************************)
(* The opening.                                                            *)
(***************************************************************************)

\* Where the opening stands, as OpeningWellFormed tells it.
LEMMA InTheOpening ==
  ASSUME IInv, phase # "play"
  PROVE  /\ Swap2 /\ playStart = -1 /\ undoOffer.mode # "play"
         /\ InOpeningState(phase, Len(history), placed, turn, colour)
BY DEF IInv, OpeningWellFormed, UndoRequestApplies

\* A pushed snapshot leaves a sound stack, whatever the action does next.
LEMMA PushKeeps ==
  ASSUME IInv, phase # "play", PushSnapshot
  PROVE  /\ snapshots' \in Seq(Snapshot)
         /\ snapshots' # << >>
         /\ \A i \in 1..Len(snapshots') :
              LET s == snapshots'[i] IN
              /\ InOpeningState(s.phase, s.length, s.placed, s.turn, s.colour)
              /\ s.length <= Len(history)
              /\ \A j \in 1..Len(snapshots') : i <= j => s.length <= snapshots'[j].length
<1> DEFINE n   == Len(snapshots)
           top == [length |-> Len(history), phase |-> phase, turn |-> turn,
                   placed |-> placed, colour |-> colour]
<1>1. Len(history) \in Nat
  BY LenProperties DEF IInv, TypeOK
<1>2. top \in Snapshot
  BY <1>1 DEF IInv, TypeOK, Snapshot
<1>3. snapshots \in Seq(Snapshot) /\ n \in Nat
  BY LenProperties DEF IInv, TypeOK
<1>4. /\ snapshots' \in Seq(Snapshot)
      /\ Len(snapshots') = n + 1
      /\ \A i \in 1..n : snapshots'[i] = snapshots[i]
      /\ snapshots'[n + 1] = top
  BY <1>2, <1>3, AppendFacts DEF PushSnapshot
<1>5. snapshots' # << >>
  BY <1>3, <1>4
<1>6. \A i \in 1..n :
        /\ InOpeningState(snapshots[i].phase, snapshots[i].length, snapshots[i].placed,
                          snapshots[i].turn, snapshots[i].colour)
        /\ snapshots[i].length <= Len(history)
        /\ \A j \in 1..n : i <= j => snapshots[i].length <= snapshots[j].length
  BY DEF IInv, SnapshotsSound
<1>7. InOpeningState(top.phase, top.length, top.placed, top.turn, top.colour)
  BY InTheOpening
<1>8. ASSUME NEW i \in 1..(n + 1)
      PROVE  /\ InOpeningState(snapshots'[i].phase, snapshots'[i].length, snapshots'[i].placed,
                               snapshots'[i].turn, snapshots'[i].colour)
             /\ snapshots'[i].length <= Len(history)
             /\ \A j \in 1..(n + 1) : i <= j => snapshots'[i].length <= snapshots'[j].length
  <2>1. CASE i \in 1..n
    <3>1. \A j \in 1..(n + 1) : j \in 1..n \/ j = n + 1
      BY <1>3
    <3> QED
      BY <2>1, <3>1, <1>4, <1>6
  <2>2. CASE i = n + 1
    <3>1. \A j \in 1..(n + 1) : i <= j => j = n + 1
      BY <2>2, <1>3
    <3> QED
      BY <2>2, <3>1, <1>1, <1>4, <1>7
  <2> QED
    BY <2>1, <2>2, <1>3
<1> QED
  BY <1>4, <1>5, <1>8

\* Withdrawing one's own request leaves none, or an opening request that still
\* has a snapshot.
LEMMA CancelKeeps ==
  ASSUME IInv, NEW p \in Players, CancelOwnUndo(p), undoOffer.mode # "play", snapshots' # << >>
  PROVE  undoOffer' \in Offers \cup {NoOffer} /\ UndoRequestApplies'
<1>1. undoOffer' \in {undoOffer, NoOffer} /\ NoOffer.mode = "none"
  BY DEF CancelOwnUndo, NoOffer
<1>2. undoOffer' \in Offers \cup {NoOffer} /\ undoOffer'.mode # "play"
  BY <1>1 DEF IInv, TypeOK
<1> QED
  BY <1>2 DEF UndoRequestApplies

LEMMA OpeningStoneKeepsInv ==
  ASSUME IInv, NEW p \in Players, NEW c \in Cells, PlaceOpeningStone(p, c)
  PROVE  IInv'
<1> DEFINE n == Len(history)
           k == PhaseColours(phase)[placed + 1]
<1>1. TypeOK /\ BoardMatchesHistory /\ ColoursAlternate
  BY DEF IInv
<1>2. n \in Nat /\ placed \in Int
  BY <1>1, LenProperties DEF TypeOK
<1>3. /\ phase \in {"place3", "place2"} /\ status = "ongoing" /\ turn = p
      /\ CancelOwnUndo(p) /\ PushSnapshot /\ PutStone(c, k)
      /\ UNCHANGED <<status, result, drawOffer, colour, playStart>>
  BY DEF PlaceOpeningStone, BeginOpeningAction, outcome
<1>4. /\ Swap2 /\ playStart = -1 /\ undoOffer.mode # "play"
      /\ \A q \in Players : colour[q] = None
      /\ \/ phase = "place3" /\ placed = n     /\ n < 3           /\ turn = First
         \/ phase = "place2" /\ placed = n - 3 /\ n >= 3 /\ n < 5 /\ turn = Second
  BY <1>3, InTheOpening DEF InOpeningState
<1>5. k \in Colours /\ k = ColourAt(n + 1)
  <2>1. CASE phase = "place3"
    <3>1. PhaseColours(phase) = <<"BLACK", "WHITE", "BLACK">> /\ placed = n /\ n \in {0, 1, 2}
      BY <2>1, <1>2, <1>4 DEF PhaseColours
    <3> QED
      BY <3>1 DEF Colours, ColourAt
  <2>2. CASE phase = "place2"
    <3>1. PhaseColours(phase) = <<"WHITE", "BLACK">>
      BY <2>2 DEF PhaseColours
    <3>2. placed = n - 3 /\ n >= 3 /\ n < 5
      BY <2>2, <1>4
    <3>3. (n = 3 /\ placed = 0) \/ (n = 4 /\ placed = 1)
      BY <3>2, <1>2
    <3>4. CASE n = 3 /\ placed = 0
      BY <3>1, <3>4 DEF Colours, ColourAt
    <3>5. CASE n = 4 /\ placed = 1
      BY <3>1, <3>5 DEF Colours, ColourAt
    <3> QED
      BY <3>3, <3>4, <3>5
  <2> QED
    BY <2>1, <2>2, <1>3
<1>6. /\ board' \in [Cells -> Colours \cup {"EMPTY"}]
      /\ history' \in Seq(Stone)
      /\ Len(history') = n + 1
      /\ BoardMatchesHistory'
      /\ ColoursAlternate'
  BY <1>1, <1>3, <1>5, PutStoneKeeps
<1>7. PushSnapshot /\ phase # "play"
  BY <1>3
<1>8. \/ phase = "place3" /\ n = 2 /\ placed' = 0 /\ phase' = "p2choice" /\ turn' = Second
      \/ phase = "place3" /\ n < 2 /\ placed' = n + 1 /\ phase' = "place3" /\ turn' = First
      \/ phase = "place2" /\ n = 4 /\ placed' = 0 /\ phase' = "p1choice" /\ turn' = First
      \/ phase = "place2" /\ n = 3 /\ placed' = 1 /\ phase' = "place2" /\ turn' = Second
  <2>1. IF placed + 1 = Len(PhaseColours(phase))
        THEN /\ placed' = 0
             /\ phase' = IF phase = "place3" THEN "p2choice" ELSE "p1choice"
             /\ turn'  = IF phase = "place3" THEN Second ELSE First
        ELSE placed' = placed + 1 /\ UNCHANGED <<phase, turn>>
    BY DEF PlaceOpeningStone
  <2>2. CASE phase = "place3"
    <3>1. Len(PhaseColours(phase)) = 3
      BY <2>2 DEF PhaseColours
    <3> QED
      BY <3>1, <2>1, <2>2, <1>2, <1>4
  <2>3. CASE phase = "place2"
    <3>1. Len(PhaseColours(phase)) = 2
      BY <2>3 DEF PhaseColours
    <3>2. placed = n - 3 /\ n >= 3 /\ n < 5 /\ turn = Second
      BY <2>3, <1>4
    <3>3. (n = 3 /\ placed = 0) \/ (n = 4 /\ placed = 1)
      BY <3>2, <1>2
    <3> QED
      BY <3>1, <3>2, <3>3, <2>1, <2>3, <1>4
  <2> QED
    BY <2>2, <2>3, <1>3
<1>9. InOpeningState(phase', n + 1, placed', turn', colour') /\ phase' # "play"
  <2>1. \A q \in Players : colour'[q] = None
    BY <1>3, <1>4
  <2>2. \/ phase' = "place3"   /\ placed' = n + 1       /\ n + 1 < 3 /\ turn' = First
        \/ phase' = "p2choice" /\ placed' = 0           /\ n + 1 = 3 /\ turn' = Second
        \/ phase' = "place2"   /\ placed' = (n + 1) - 3 /\ n + 1 >= 3 /\ n + 1 < 5 /\ turn' = Second
        \/ phase' = "p1choice" /\ placed' = 0           /\ n + 1 = 5 /\ turn' = First
    <3>1. CASE phase = "place3" /\ n = 2
      BY <3>1, <1>8
    <3>2. CASE phase = "place3" /\ n < 2
      BY <3>2, <1>2, <1>8
    <3>3. CASE phase = "place2" /\ n = 4
      BY <3>3, <1>8
    <3>4. CASE phase = "place2" /\ n = 3
      BY <3>4, <1>8
    <3> QED
      BY <3>1, <3>2, <3>3, <3>4, <1>8
  <2> QED
    BY <2>1, <2>2 DEF InOpeningState
<1>10. OpeningWellFormed'
  BY <1>3, <1>4, <1>6, <1>9 DEF OpeningWellFormed, InOpeningState
<1>11. SnapshotsSound'
  <2>1. \A i \in 1..Len(snapshots') : snapshots'[i].length \in Nat
    <3> TAKE i \in 1..Len(snapshots')
    <3>1. snapshots'[i] \in Snapshot
      BY <1>7, PushKeeps, ElementOfSeq
    <3> QED
      BY <3>1 DEF Snapshot
  <2> QED
    BY <2>1, <1>2, <1>4, <1>6, <1>7, <1>9, PushKeeps DEF SnapshotsSound, InOpeningState
<1>12. undoOffer' \in Offers \cup {NoOffer} /\ UndoRequestApplies'
  BY <1>3, <1>4, <1>7, PushKeeps, CancelKeeps
<1>13. TypeOK'
  <2>1. placed' \in 0..2 /\ phase' \in Phases /\ turn' \in Players
    BY <1>2, <1>8 DEF Phases, Players
  <2> QED
    BY <2>1, <1>1, <1>3, <1>6, <1>7, <1>12, PushKeeps DEF TypeOK
<1>14. TurnFollowsStones'
  BY <1>9 DEF TurnFollowsStones
<1> QED
  BY <1>6, <1>10, <1>11, <1>12, <1>13, <1>14 DEF IInv

LEMMA ChoosePlaceKeepsInv ==
  ASSUME IInv, NEW p \in Players, Swap2ChoosePlace(p)
  PROVE  IInv'
<1>1. /\ phase = "p2choice" /\ CancelOwnUndo(p) /\ PushSnapshot
      /\ phase' = "place2" /\ turn' = Second /\ placed' = 0
      /\ UNCHANGED <<board, history, status, result, drawOffer, colour, playStart>>
  BY DEF Swap2ChoosePlace, BeginOpeningAction, stones, outcome
<1>2. /\ Swap2 /\ playStart = -1 /\ undoOffer.mode # "play" /\ Len(history) = 3
      /\ \A q \in Players : colour[q] = None
  BY <1>1, InTheOpening DEF InOpeningState
<1>3. PushSnapshot /\ phase # "play"
  BY <1>1
<1>4. BoardMatchesHistory' /\ ColoursAlternate'
  BY <1>1 DEF IInv, BoardMatchesHistory, ColoursAlternate
<1>5. TurnFollowsStones'
  BY <1>1 DEF TurnFollowsStones
<1>6. OpeningWellFormed'
  BY <1>1, <1>2 DEF OpeningWellFormed, InOpeningState
<1>7. SnapshotsSound'
  BY <1>1, <1>2, <1>3, PushKeeps DEF SnapshotsSound, InOpeningState
<1>8. undoOffer' \in Offers \cup {NoOffer} /\ UndoRequestApplies'
  BY <1>1, <1>2, <1>3, PushKeeps, CancelKeeps
<1>9. TypeOK'
  <2>1. placed' \in 0..2 /\ phase' \in Phases /\ turn' \in Players
    BY <1>1 DEF Phases, Players
  <2> QED
    BY <2>1, <1>1, <1>3, <1>8, PushKeeps DEF IInv, TypeOK
<1> QED
  BY <1>4, <1>5, <1>6, <1>7, <1>8, <1>9 DEF IInv

\* The colour that is left.
LEMMA OtherColour ==
  ASSUME NEW k \in Colours
  PROVE  /\ (CHOOSE o \in Colours : o # k) \in Colours
         /\ (CHOOSE o \in Colours : o # k) # k
<1>1. \E o \in Colours : o # k
  BY DEF Colours
<1> QED
  BY <1>1

LEMMA ChooseColourKeepsInv ==
  ASSUME IInv, NEW p \in Players, NEW k \in Colours, Swap2ChooseColour(p, k)
  PROVE  IInv'
<1> DEFINE n  == Len(history)
           fc == IF p = First THEN k ELSE CHOOSE o \in Colours : o # k
<1>1. /\ \/ phase = "p2choice" /\ p = Second
         \/ phase = "p1choice" /\ p = First
      /\ CancelOwnUndo(p) /\ PushSnapshot /\ AssignColours(fc)
      /\ UNCHANGED <<board, history, status, result, drawOffer>>
  BY DEF Swap2ChooseColour, BeginOpeningAction, stones, outcome
<1>2. PushSnapshot /\ phase # "play"
  BY <1>1
<1>3. /\ Swap2 /\ undoOffer.mode # "play"
      /\ n = 3 \/ n = 5
  BY <1>1, InTheOpening DEF InOpeningState
<1>4. fc \in Colours
  BY OtherColour
<1>5. /\ phase' = "play" /\ playStart' = n /\ placed' = placed
      /\ turn' = IF fc = "WHITE" THEN First ELSE Second
      /\ colour' = [q \in Players |-> IF q = First THEN fc ELSE CHOOSE o \in Colours : o # fc]
  BY <1>1 DEF AssignColours
<1>6. colour' \in [Players -> Colours]
  BY <1>4, <1>5, OtherColour
<1>7. /\ colour'[First] = fc
      /\ colour'[Second] \in Colours /\ colour'[Second] # fc
  BY <1>4, <1>5, OtherColour, PlayersAssumption DEF Players
<1>8. colour'[turn'] = "WHITE"
  BY <1>4, <1>5, <1>7, PlayersAssumption DEF Colours
<1>9. BoardMatchesHistory' /\ ColoursAlternate'
  BY <1>1 DEF IInv, BoardMatchesHistory, ColoursAlternate
<1>10. TurnFollowsStones'
  <2>1. {colour'[First], colour'[Second]} = Colours
    BY <1>4, <1>7 DEF Colours
  <2>2. Len(history') % 2 = 1
    <3>1. history' = history
      BY <1>1
    <3>2. CASE n = 3
      BY <3>1, <3>2
    <3>3. CASE n = 5
      BY <3>1, <3>3
    <3> QED
      BY <1>3, <3>2, <3>3
  <2> QED
    BY <2>1, <2>2, <1>8 DEF TurnFollowsStones
<1>11. OpeningWellFormed'
  BY <1>1, <1>3, <1>5 DEF OpeningWellFormed
<1>12. SnapshotsSound'
  BY <1>2, <1>3, <1>5, PushKeeps DEF SnapshotsSound, InOpeningState
<1>13. undoOffer' \in Offers \cup {NoOffer} /\ UndoRequestApplies'
  BY <1>1, <1>2, <1>3, PushKeeps, CancelKeeps
<1>14. TypeOK'
  <2>1. phase' \in Phases /\ turn' \in Players /\ playStart' \in Nat
    BY <1>3, <1>5 DEF Phases, Players
  <2> QED
    BY <2>1, <1>1, <1>2, <1>5, <1>6, <1>13, PushKeeps DEF IInv, TypeOK
<1> QED
  BY <1>9, <1>10, <1>11, <1>12, <1>13, <1>14 DEF IInv

(***************************************************************************)
(* Accepting an undo.                                                      *)
(***************************************************************************)
LEMMA AcceptPlayUndoKeepsInv ==
  ASSUME IInv, NEW p \in Players, AcceptPlayUndo(p)
  PROVE  IInv'
<1> DEFINE q == undoOffer.from
           t == undoOffer.target
<1>1. /\ q = Opponent(p) /\ undoOffer.mode = "play" /\ undoOffer' = NoOffer
      /\ RollBackTo(t) /\ turn' = q /\ status = "ongoing"
      /\ UNCHANGED <<status, result, drawOffer, phase, placed, colour, playStart, snapshots>>
  BY DEF AcceptPlayUndo, outcome, opening
<1>2. /\ TypeOK /\ BoardMatchesHistory /\ ColoursAlternate /\ TurnFollowsStones
      /\ OpeningWellFormed /\ UndoRequestApplies /\ SnapshotsSound
  BY DEF IInv
<1>3. Len(history) \in Nat /\ playStart \in Int
  BY <1>2, LenProperties DEF TypeOK
<1>4. /\ phase = "play" /\ t \in 0..(Len(history) - 1) /\ t >= playStart
      /\ history[t + 1].colour = colour[q]
  BY <1>1, <1>2 DEF UndoRequestApplies, OwnPlayMoves
<1>5. t \in 0..Len(history) /\ t + 1 \in 1..Len(history)
  BY <1>3, <1>4
<1>6. /\ board' \in [Cells -> Colours \cup {"EMPTY"}]
      /\ history' \in Seq(Stone)
      /\ Len(history') = t
      /\ BoardMatchesHistory'
      /\ ColoursAlternate'
  BY <1>1, <1>2, <1>5, RollBackKeeps
<1>7. q \in Players
  BY <1>1, OpponentFacts
<1>8. TypeOK'
  BY <1>1, <1>2, <1>6, <1>7 DEF TypeOK
<1>9. TurnFollowsStones'
  <2>1. colour[q] = IF (t + 1) % 2 = 1 THEN "BLACK" ELSE "WHITE"
    BY <1>2, <1>4, <1>5 DEF ColoursAlternate
  <2>2. colour[q] = IF t % 2 = 0 THEN "BLACK" ELSE "WHITE"
    BY <2>1, <1>5
  <2> QED
    BY <2>2, <1>1, <1>2, <1>4, <1>6 DEF TurnFollowsStones
<1>10. OpeningWellFormed'
  BY <1>1, <1>2, <1>4, <1>6 DEF OpeningWellFormed
<1>11. SnapshotsSound'
  BY <1>1, <1>2, <1>4 DEF SnapshotsSound, InOpeningState
<1>12. UndoRequestApplies'
  BY <1>1 DEF UndoRequestApplies, NoOffer
<1> QED
  BY <1>6, <1>8, <1>9, <1>10, <1>11, <1>12 DEF IInv

LEMMA AcceptOpeningUndoKeepsInv ==
  ASSUME IInv, NEW p \in Players, AcceptOpeningUndo(p)
  PROVE  IInv'
<1> DEFINE n   == Len(snapshots)
           top == snapshots[n]
<1>1. /\ TypeOK /\ BoardMatchesHistory /\ ColoursAlternate /\ TurnFollowsStones
      /\ OpeningWellFormed /\ UndoRequestApplies /\ SnapshotsSound
  BY DEF IInv
<1>2. /\ undoOffer.mode = "opening" /\ undoOffer' = NoOffer
      /\ RollBackTo(top.length)
      /\ phase' = top.phase /\ turn' = top.turn /\ placed' = top.placed /\ colour' = top.colour
      /\ snapshots' = SubSeq(snapshots, 1, n - 1)
      /\ playStart' = -1
      /\ UNCHANGED <<status, result, drawOffer>>
  BY DEF AcceptOpeningUndo, outcome
<1>3. Len(history) \in Nat /\ n \in Nat /\ snapshots \in Seq(Snapshot)
  BY <1>1, LenProperties DEF TypeOK
<1>4. snapshots # << >> /\ n \in 1..n
  BY <1>1, <1>2, <1>3, EmptySeq DEF UndoRequestApplies
<1>5. /\ Swap2
      /\ InOpeningState(top.phase, top.length, top.placed, top.turn, top.colour)
      /\ top.length <= IF phase = "play" THEN playStart ELSE Len(history)
  BY <1>1, <1>4 DEF SnapshotsSound
<1>6. top \in Snapshot
  BY <1>3, <1>4, ElementOfSeq
<1>7. top.length \in 0..Len(history)
  <2>1. top.length \in Nat
    BY <1>6 DEF Snapshot
  <2>2. phase = "play" => playStart <= Len(history) /\ playStart \in Int
    BY <1>1 DEF OpeningWellFormed, TypeOK
  <2> QED
    BY <2>1, <2>2, <1>3, <1>5
<1>8. /\ board' \in [Cells -> Colours \cup {"EMPTY"}]
      /\ history' \in Seq(Stone)
      /\ Len(history') = top.length
      /\ BoardMatchesHistory'
      /\ ColoursAlternate'
  BY <1>1, <1>2, <1>7, RollBackKeeps
<1>9. /\ snapshots' \in Seq(Snapshot)
      /\ Len(snapshots') = n - 1
      /\ \A i \in 1..(n - 1) : snapshots'[i] = snapshots[i]
  <2>1. n - 1 \in 0..n
    BY <1>3, <1>4
  <2> QED
    BY <2>1, <1>2, <1>3, PrefixFacts
<1>10. phase' # "play" /\ phase' \in Phases
  BY <1>2, <1>6 DEF Snapshot
<1>11. TypeOK'
  <2>1. turn' \in Players /\ placed' \in 0..2 /\ colour' \in [Players -> Colours \cup {None}]
    BY <1>2, <1>6 DEF Snapshot
  <2> QED
    BY <2>1, <1>1, <1>2, <1>8, <1>9, <1>10 DEF TypeOK
<1>12. TurnFollowsStones'
  BY <1>10 DEF TurnFollowsStones
<1>13. OpeningWellFormed'
  BY <1>2, <1>5, <1>8, <1>10 DEF OpeningWellFormed, InOpeningState
<1>14. SnapshotsSound'
  <2>1. ASSUME NEW i \in 1..(n - 1)
        PROVE  /\ InOpeningState(snapshots[i].phase, snapshots[i].length, snapshots[i].placed,
                                 snapshots[i].turn, snapshots[i].colour)
               /\ snapshots[i].length <= top.length
               /\ \A j \in 1..(n - 1) : i <= j => snapshots[i].length <= snapshots[j].length
    <3>1. i \in 1..n /\ i <= n /\ \A j \in 1..(n - 1) : j \in 1..n
      BY <1>3, <1>4
    <3> QED
      BY <3>1, <1>1, <1>4 DEF SnapshotsSound
  <2> QED
    BY <2>1, <1>5, <1>8, <1>9, <1>10 DEF SnapshotsSound, InOpeningState
<1>15. UndoRequestApplies'
  BY <1>2 DEF UndoRequestApplies, NoOffer
<1> QED
  BY <1>8, <1>11, <1>12, <1>13, <1>14, <1>15 DEF IInv

-----------------------------------------------------------------------------

\* Resigning, running out of time and all talk about a draw.
LEMMA TalkStepKeepsInv ==
  ASSUME IInv, NEW p \in Players,
         \/ Resign(p) \/ HandleTimeout(p)
         \/ OfferDraw(p) \/ AcceptDraw(p) \/ DeclineDraw(p)
  PROVE  IInv'
<1>1. Opponent(p) \in Players
  BY OpponentFacts
<1>2. /\ drawOffer \in Players \cup {None}
      /\ result \in [winner : Players \cup {None, "draw"},
                     reason : {"none", "win", "board_full", "resign", "agreement", "timeout"}]
      /\ status \in {"ongoing", "finished"}
  BY DEF IInv, TypeOK
<1>3. CASE Resign(p) \/ HandleTimeout(p)
  <2>1. /\ UNCHANGED <<stones, turn, undoOffer, opening, drawOffer>>
        /\ status' = "finished"
        /\ result'.winner = Opponent(p)
        /\ \/ result' = [winner |-> Opponent(p), reason |-> "resign"]
           \/ result' = [winner |-> Opponent(p), reason |-> "timeout"]
    BY <1>3 DEF Resign, HandleTimeout, Finish
  <2> QED
    BY <2>1, <1>1, <1>2, TalkKeepsInv
<1>4. CASE OfferDraw(p)
  BY <1>4, <1>2, TalkKeepsInv DEF OfferDraw, outcome
<1>5. CASE AcceptDraw(p)
  BY <1>5, <1>2, TalkKeepsInv DEF AcceptDraw, Finish
<1>6. CASE DeclineDraw(p)
  BY <1>6, <1>2, TalkKeepsInv DEF DeclineDraw, outcome
<1> QED
  BY <1>3, <1>4, <1>5, <1>6

\* Every step keeps the invariant.
LEMMA NextInv == IInv /\ [Next]_vars => IInv'
<1> SUFFICES ASSUME IInv, [Next]_vars PROVE IInv'
  OBVIOUS
<1>1. ASSUME NEW p \in Players, NEW c \in Cells, MakeMove(p, c) PROVE IInv'
  BY <1>1, MakeMoveKeepsInv
<1>2. ASSUME NEW p \in Players, NEW c \in Cells, PlaceOpeningStone(p, c) PROVE IInv'
  BY <1>2, OpeningStoneKeepsInv
<1>3. ASSUME NEW p \in Players, Swap2ChoosePlace(p) PROVE IInv'
  BY <1>3, ChoosePlaceKeepsInv
<1>4. ASSUME NEW p \in Players, NEW k \in Colours, Swap2ChooseColour(p, k) PROVE IInv'
  BY <1>4, ChooseColourKeepsInv
<1>5. ASSUME NEW p \in Players,
             \/ Resign(p) \/ HandleTimeout(p)
             \/ OfferDraw(p) \/ AcceptDraw(p) \/ DeclineDraw(p)
      PROVE  IInv'
  BY <1>5, TalkStepKeepsInv
<1>6. ASSUME NEW p \in Players, RequestOpeningUndo(p) \/ RequestPlayUndo(p) PROVE IInv'
  BY <1>6, RequestUndoKeepsInv
<1>7. ASSUME NEW p \in Players, AcceptPlayUndo(p) PROVE IInv'
  BY <1>7, AcceptPlayUndoKeepsInv
<1>8. ASSUME NEW p \in Players, AcceptOpeningUndo(p) PROVE IInv'
  BY <1>8, AcceptOpeningUndoKeepsInv
<1>9. ASSUME NEW p \in Players, DeclineUndo(p) PROVE IInv'
  BY <1>9, DeclineUndoKeepsInv
<1>10. CASE UNCHANGED vars
  BY <1>10, TalkKeepsInv DEF vars, outcome, IInv, TypeOK
<1> QED
  BY <1>1, <1>2, <1>3, <1>4, <1>5, <1>6, <1>7, <1>8, <1>9, <1>10 DEF Next

\* All of it holds in every reachable state.
THEOREM Invariance == Spec => []IInv
BY InitInv, NextInv, PTL DEF Spec

\* Every variable keeps its type: no snapshot, roll-back or colour choice ever
\* puts the engine in a state its fields cannot have.
THEOREM TypeCorrect == Spec => []TypeOK
<1>1. IInv => TypeOK
  BY DEF IInv
<1> QED
  BY <1>1, Invariance, PTL

\* The board and moveHistory tell the same game after every move and undo.
THEOREM BoardCorrect == Spec => [](BoardMatchesHistory /\ ColoursAlternate)
<1>1. IInv => BoardMatchesHistory /\ ColoursAlternate
  BY DEF IInv
<1> QED
  BY <1>1, Invariance, PTL

\* The player to move is the one whose colour comes next, in every game and
\* after every undo.
THEOREM TurnCorrect == Spec => []TurnFollowsStones
<1>1. IInv => TurnFollowsStones
  BY DEF IInv
<1> QED
  BY <1>1, Invariance, PTL

\* Every opening state is one of the Swap2 procedure, and so is every state an
\* undo can restore.
THEOREM OpeningCorrect == Spec => [](OpeningWellFormed /\ SnapshotsSound)
<1>1. IInv => OpeningWellFormed /\ SnapshotsSound
  BY DEF IInv
<1> QED
  BY <1>1, Invariance, PTL

\* An undo request that is pending can be carried out.
THEOREM UndoCorrect == Spec => []UndoRequestApplies
<1>1. IInv => UndoRequestApplies
  BY DEF IInv
<1> QED
  BY <1>1, Invariance, PTL

-----------------------------------------------------------------------------
(***************************************************************************)
(* Rows.  _checkWin walks both ways from one stone.  On a board that is    *)
(* Straight what it finds is the row of that stone, the same from each     *)
(* stone of the row, and the cells at the ends of its walks are the ones   *)
(* that block the row.                                                     *)
(***************************************************************************)
Stones(b) == b \in [Cells -> Colours \cup {"EMPTY"}]

Met(b, axis, s, c) == Reach(b, <<axis, s>>, c)

LEMMA PathFacts ==
  ASSUME Straight, NEW axis \in Axes, NEW s \in {1, -1}, NEW c \in Cells
  PROVE  /\ -s \in {1, -1} /\ -(-s) = s
         /\ Path(axis, s, c) \in Seq(Cells)
         /\ Len(Path(axis, s, c)) \in Nat
         /\ Path(axis, s, c) # << >> <=> Len(Path(axis, s, c)) >= 1
         /\ \A i \in 1..Len(Path(axis, s, c)) : Path(axis, s, c)[i] \in Cells
<1>1. <<axis, s>> \in Ways /\ -s \in {1, -1} /\ -(-s) = s
  BY DEF Ways
<1>2. Path(axis, s, c) \in Seq(Cells)
  BY <1>1 DEF Straight, Path
<1> QED
  BY <1>1, <1>2, ElementOfSeq, LenProperties, EmptySeq

\* Where a step leads.
LEMMA StepForward ==
  ASSUME Straight, NEW axis \in Axes, NEW s \in {1, -1}, NEW c \in Cells,
         NEW d, Step(axis, s, c, d)
  PROVE  /\ d \in Cells /\ d = Path(axis, s, c)[1]
         /\ Len(Path(axis, s, c)) >= 1 /\ Len(Path(axis, s, c)) \in Nat
<1>1. Path(axis, s, c) # << >> /\ Path(axis, s, c)[1] = d
  BY DEF Step
<1>2. /\ Len(Path(axis, s, c)) >= 1 /\ Len(Path(axis, s, c)) \in Nat
      /\ \A i \in 1..Len(Path(axis, s, c)) : Path(axis, s, c)[i] \in Cells
  BY <1>1, PathFacts
<1> QED
  BY <1>1, <1>2

\* It can be taken back.
LEMMA StepBack ==
  ASSUME Straight, NEW axis \in Axes, NEW s \in {1, -1}, NEW c \in Cells,
         NEW d, Step(axis, s, c, d)
  PROVE  Step(axis, -s, d, c)
<1>1. d \in Cells
  BY StepForward
<1> QED
  BY <1>1 DEF Straight

\* A walk is made of steps.
LEMMA WalkSteps ==
  ASSUME Straight, NEW axis \in Axes, NEW s \in {1, -1}, NEW c \in Cells
  PROVE  /\ Len(Path(axis, s, c)) >= 1 => Step(axis, s, c, Path(axis, s, c)[1])
         /\ \A i \in 1..(Len(Path(axis, s, c)) - 1) :
              Step(axis, s, Path(axis, s, c)[i], Path(axis, s, c)[i + 1])
<1>1. \A i \in 1..(Len(Path(axis, s, c)) - 1) :
        Step(axis, s, Path(axis, s, c)[i], Path(axis, s, c)[i + 1])
  BY DEF Straight
<1> QED
  BY <1>1, PathFacts DEF Step

\* It ends where there is no step, or back at its start.
LEMMA WalkEnds ==
  ASSUME Straight, NEW axis \in Axes, NEW s \in {1, -1}, NEW c \in Cells,
         NEW e, Len(Path(axis, s, c)) >= 1, e = Path(axis, s, c)[Len(Path(axis, s, c))],
         NEW d, Step(axis, s, e, d)
  PROVE  d = c
<1>1. e \in Cells /\ Path(axis, s, c) # << >>
  BY PathFacts
<1>2. d \in Cells
  BY <1>1, StepForward
<1> QED
  BY <1>1, <1>2 DEF Straight

LEMMA BesideIsAStep ==
  ASSUME Straight, NEW axis \in Axes, NEW s \in {1, -1}, NEW c \in Cells,
         Beside[<<axis, s>>][c] \in Cells
  PROVE  Step(axis, s, c, Beside[<<axis, s>>][c])
  BY DEF Straight

\* Reach counts the stones of one colour that a walk meets before anything else.
LEMMA ReachFacts ==
  ASSUME Straight, NEW axis \in Axes, NEW s \in {1, -1}, NEW c \in Cells, NEW b
  PROVE  /\ Met(b, axis, s, c) \in 0..Len(Path(axis, s, c))
         /\ \A i \in 1..Met(b, axis, s, c) : b[Path(axis, s, c)[i]] = b[c]
         /\ Met(b, axis, s, c) < Len(Path(axis, s, c)) =>
              b[Path(axis, s, c)[Met(b, axis, s, c) + 1]] # b[c]
<1> DEFINE walk == Path(axis, s, c)
           stops == {m \in 0..Len(walk) : m < Len(walk) => b[walk[m + 1]] # b[c]}
<1>1. Len(walk) \in Nat
  BY PathFacts
<1> HIDE DEF walk
<1>2. Len(walk) \in stops /\ stops \subseteq Nat
  BY <1>1
<1>3. PICK m \in stops : \A k \in stops : m <= k
  <2> HIDE DEF stops
  <2> QED
    BY <1>2, LeastNatural
<1>4. ASSUME NEW i \in 1..m
      PROVE  b[walk[i]] = b[c]
  <2>1. i - 1 \in 0..Len(walk) /\ i - 1 < Len(walk) /\ i - 1 < m
    BY <1>1, <1>3
  <2>2. i - 1 \notin stops
    BY <1>3, <2>1
  <2>3. b[walk[(i - 1) + 1]] = b[c]
    BY <2>1, <2>2
  <2> QED
    BY <2>3
<1>5. /\ m \in 0..Len(walk)
      /\ \A i \in 1..m : b[walk[i]] = b[c]
      /\ m < Len(walk) => b[walk[m + 1]] # b[c]
  BY <1>3, <1>4
<1>6. Met(b, axis, s, c) =
        CHOOSE n \in 0..Len(walk) :
          /\ \A i \in 1..n : b[walk[i]] = b[c]
          /\ n < Len(walk) => b[walk[n + 1]] # b[c]
  BY DEF Met, Reach, walk, Path
<1> HIDE DEF stops
<1> QED
  BY <1>5, <1>6 DEF walk

LEMMA InLineMembers ==
  ASSUME NEW b, NEW axis, NEW c, NEW x
  PROVE  x \in InLine(b, axis, c) <=>
           \/ x = c
           \/ \E s \in {1, -1} : \E i \in 1..Met(b, axis, s, c) : x = Path(axis, s, c)[i]
  BY DEF InLine, Path, Met

\* A stone in line with c is preceded, one step back, by another, or by c.
LEMMA Predecessor ==
  ASSUME Straight, NEW axis \in Axes, NEW s \in {1, -1}, NEW c \in Cells, NEW b,
         NEW i \in 1..Met(b, axis, s, c)
  PROVE  LET walk == Path(axis, s, c)
             prev == IF i = 1 THEN c ELSE walk[i - 1]
         IN  /\ walk[i] \in Cells /\ prev \in Cells
             /\ b[walk[i]] = b[c] /\ b[prev] = b[c]
             /\ Step(axis, s, prev, walk[i])
             /\ Step(axis, -s, walk[i], prev)
             /\ i > 1 => i - 1 \in 1..Met(b, axis, s, c)
<1> DEFINE walk == Path(axis, s, c)
           prev == IF i = 1 THEN c ELSE walk[i - 1]
           n == Met(b, axis, s, c)
<1>1. n \in 0..Len(walk) /\ \A j \in 1..n : b[walk[j]] = b[c]
  BY ReachFacts
<1>2. Len(walk) \in Nat /\ \A j \in 1..Len(walk) : walk[j] \in Cells
  BY PathFacts
<1>3. /\ Len(walk) >= 1 => Step(axis, s, c, walk[1])
      /\ \A j \in 1..(Len(walk) - 1) : Step(axis, s, walk[j], walk[j + 1])
  BY WalkSteps
<1> HIDE DEF n, walk
<1>4. i \in 1..n /\ n \in Nat /\ i \in 1..Len(walk)
  BY <1>1, <1>2 DEF n
<1>5. i > 1 => i - 1 \in 1..n /\ i - 1 \in 1..(Len(walk) - 1) /\ (i - 1) + 1 = i
  BY <1>1, <1>2, <1>4
<1>6. /\ walk[i] \in Cells /\ prev \in Cells
      /\ b[walk[i]] = b[c] /\ b[prev] = b[c]
  BY <1>1, <1>2, <1>4, <1>5
<1>7. Step(axis, s, prev, walk[i])
  BY <1>2, <1>3, <1>4, <1>5
<1>8. Step(axis, -s, walk[i], prev)
  BY <1>6, <1>7, StepBack
<1> QED
  BY <1>5, <1>6, <1>7, <1>8 DEF n, walk

\* The stones in line are of one colour, and no step leads on to another.
LEMMA LineIsClosed ==
  ASSUME Straight, NEW axis \in Axes, NEW c \in Cells, NEW b
  PROVE  /\ InLine(b, axis, c) \subseteq Cells
         /\ \A x \in InLine(b, axis, c) : b[x] = b[c]
         /\ Closed(b, axis, b[c], InLine(b, axis, c))
<1>1. ASSUME NEW x \in InLine(b, axis, c)
      PROVE  x \in Cells /\ b[x] = b[c]
  BY <1>1, InLineMembers, Predecessor
<1>2. ASSUME NEW x \in InLine(b, axis, c), NEW y \in Cells, NEW t \in {1, -1},
             Step(axis, t, x, y), b[y] = b[c]
      PROVE  y \in InLine(b, axis, c)
  <2>1. CASE x = c
    <3>1. /\ y = Path(axis, t, c)[1] /\ Len(Path(axis, t, c)) >= 1
          /\ Len(Path(axis, t, c)) \in Nat
      BY <1>2, <2>1, StepForward
    <3>2. 1 \in 1..Met(b, axis, t, c)
      <4>1. /\ Met(b, axis, t, c) \in 0..Len(Path(axis, t, c))
            /\ Met(b, axis, t, c) < Len(Path(axis, t, c)) =>
                 b[Path(axis, t, c)[Met(b, axis, t, c) + 1]] # b[c]
        BY ReachFacts
      <4>2. Met(b, axis, t, c) # 0
        BY <1>2, <3>1, <4>1
      <4> QED
        BY <3>1, <4>1, <4>2
    <3> QED
      BY <3>1, <3>2, InLineMembers
  <2>2. ASSUME NEW s \in {1, -1}, NEW i \in 1..Met(b, axis, s, c), x = Path(axis, s, c)[i]
        PROVE  y \in InLine(b, axis, c)
    <3> DEFINE walk == Path(axis, s, c)
               n == Met(b, axis, s, c)
    <3>1. /\ Len(walk) \in Nat /\ n \in 0..Len(walk)
          /\ n < Len(walk) => b[walk[n + 1]] # b[c]
      BY PathFacts, ReachFacts
    <3>2. CASE t = s
      <4>1. CASE i < Len(walk)
        <5>1. Step(axis, s, walk[i], walk[i + 1])
          BY <3>1, <4>1, WalkSteps
        <5>2. y = walk[i + 1]
          BY <1>2, <2>2, <3>2, <5>1 DEF Step
        <5>3. i + 1 \in 1..n
          BY <1>2, <3>1, <4>1, <5>2
        <5> QED
          BY <5>2, <5>3, InLineMembers
      <4>2. CASE i = Len(walk)
        <5>1. x = walk[Len(walk)] /\ Len(walk) >= 1 /\ Step(axis, s, x, y)
          BY <1>2, <2>2, <3>1, <3>2, <4>2
        <5>2. y = c
          BY <5>1, WalkEnds
        <5> QED
          BY <5>2, InLineMembers
      <4> QED
        BY <3>1, <4>1, <4>2
    <3>3. CASE t = -s
      <4> DEFINE prev == IF i = 1 THEN c ELSE walk[i - 1]
      <4>1. Step(axis, -s, x, prev) /\ (i > 1 => i - 1 \in 1..n)
        BY <2>2, Predecessor
      <4>2. y = prev
        BY <1>2, <3>3, <4>1 DEF Step
      <4>3. i = 1 \/ i > 1
        BY <3>1
      <4> QED
        BY <4>1, <4>2, <4>3, InLineMembers
    <3> QED
      BY <3>2, <3>3
  <2> QED
    BY <2>1, <2>2, InLineMembers
<1>3. Closed(b, axis, b[c], InLine(b, axis, c))
  BY <1>2 DEF Closed
<1> QED
  BY <1>1, <1>3

\* They are in every closed set with c in it.
LEMMA LineIsLeast ==
  ASSUME Straight, NEW axis \in Axes, NEW c \in Cells, NEW b, NEW T,
         c \in T, Closed(b, axis, b[c], T)
  PROVE  InLine(b, axis, c) \subseteq T
<1>1. ASSUME NEW s \in {1, -1}, NEW i \in 1..Met(b, axis, s, c),
             Path(axis, s, c)[i] \notin T
      PROVE  FALSE
  <2> DEFINE walk == Path(axis, s, c)
             n == Met(b, axis, s, c)
             out == {j \in 1..n : walk[j] \notin T}
  <2>1. i \in out /\ out \subseteq Nat
    BY <1>1
  <2>2. PICK m \in out : \A j \in out : m <= j
    <3> HIDE DEF out
    <3> QED
      BY <2>1, LeastNatural
  <2> DEFINE prev == IF m = 1 THEN c ELSE walk[m - 1]
  <2>3. /\ walk[m] \in Cells /\ b[walk[m]] = b[c]
        /\ Step(axis, s, prev, walk[m]) /\ (m > 1 => m - 1 \in 1..n)
    BY Predecessor
  <2>4. prev \in T
    BY <2>2, <2>3
  <2>5. walk[m] \in T
    BY <2>3, <2>4 DEF Closed
  <2> QED
    BY <2>2, <2>5
<1> QED
  BY <1>1, InLineMembers

\* Whoever starts from another stone in line finds the same stones.
LEMMA LineOfAny ==
  ASSUME Straight, NEW axis \in Axes, NEW c \in Cells, NEW b, NEW x \in InLine(b, axis, c)
  PROVE  InLine(b, axis, x) = InLine(b, axis, c)
<1> DEFINE R == InLine(b, axis, c)
           Q == InLine(b, axis, x)
<1>1. x \in Cells /\ b[x] = b[c] /\ R \subseteq Cells /\ Closed(b, axis, b[c], R)
      /\ \A y \in R : b[y] = b[c]
  BY LineIsClosed
<1>2. Q \subseteq Cells /\ Closed(b, axis, b[c], Q)
  BY <1>1, LineIsClosed
<1>3. c \in R /\ x \in Q
  BY InLineMembers
<1>4. Q \subseteq R
  BY <1>1, LineIsLeast
<1>5. c \in Q
  <2> SUFFICES ASSUME c \notin Q PROVE FALSE
    OBVIOUS
  <2> HIDE DEF R, Q
  <2>1. ASSUME NEW z \in R \ Q, NEW y \in Cells, NEW s \in {1, -1}, Step(axis, s, z, y), b[y] = b[c]
        PROVE  y \in R \ Q
    <3>1. y \in R
      BY <1>1, <2>1 DEF Closed
    <3>2. Step(axis, -s, y, z) /\ -s \in {1, -1} /\ z \in Cells /\ b[z] = b[c]
      BY <1>1, <2>1, StepBack, PathFacts
    <3>3. y \in Q => z \in Q
      BY <1>2, <3>2 DEF Closed
    <3> QED
      BY <2>1, <3>1, <3>3
  <2>2. Closed(b, axis, b[c], R \ Q)
    BY <2>1 DEF Closed
  <2>3. R \subseteq R \ Q
    BY <1>3, <2>2, LineIsLeast DEF R
  <2> QED
    BY <1>3, <1>4, <2>3
<1>6. R \subseteq Q
  BY <1>1, <1>2, <1>5, LineIsLeast
<1> QED
  BY <1>4, <1>6

\* The rows of the board are what is found from their stones.
LEMMA RowsAreLines ==
  ASSUME Straight, NEW axis \in Axes, NEW b, NEW k, NEW S \in SUBSET {c \in Cells : b[c] = k}
  PROVE  /\ \A c \in S : IsRow(b, axis, k, S) => S = InLine(b, axis, c)
         /\ \A c \in S : S = InLine(b, axis, c) => IsRow(b, axis, k, S)
<1>1. ASSUME NEW c \in S, IsRow(b, axis, k, S)
      PROVE  S = InLine(b, axis, c)
  <2>1. c \in Cells /\ b[c] = k
    OBVIOUS
  <2>2. InLine(b, axis, c) \subseteq S
    BY <1>1, <2>1, LineIsLeast DEF IsRow
  <2>3. InLine(b, axis, c) # {} /\ Closed(b, axis, k, InLine(b, axis, c))
    BY <2>1, LineIsClosed, InLineMembers
  <2> QED
    BY <1>1, <2>2, <2>3 DEF IsRow
<1>2. ASSUME NEW c \in S, S = InLine(b, axis, c)
      PROVE  IsRow(b, axis, k, S)
  <2>1. c \in Cells /\ b[c] = k /\ Closed(b, axis, k, S)
    BY <1>2, LineIsClosed
  <2>2. ASSUME NEW T \in SUBSET S, T # {}, Closed(b, axis, k, T)
        PROVE  T = S
    <3>1. PICK x : x \in T
      BY <2>2
    <3>2. x \in Cells /\ b[x] = k /\ x \in InLine(b, axis, c)
      BY <1>2, <3>1
    <3>3. InLine(b, axis, x) \subseteq T
      BY <2>2, <3>1, <3>2, LineIsLeast
    <3> QED
      BY <1>2, <2>1, <3>2, <3>3, LineOfAny
  <2> QED
    BY <2>1, <2>2 DEF IsRow
<1> QED
  BY <1>1, <1>2

\* A row is blocked one way exactly if the cell beyond its last stone that way is
\* an opponent's.
LEMMA BlockedAtTheEnd ==
  ASSUME Straight, NEW axis \in Axes, NEW s \in {1, -1}, NEW c \in Cells, NEW b
  PROVE  EndBlocked(b, <<axis, s>>, c) <=>
           \E x \in InLine(b, axis, c) : Blocks(b, <<axis, s>>, x, b[c])
<1> DEFINE walk == Path(axis, s, c)
           n == Met(b, axis, s, c)
           last == IF n = 0 THEN c ELSE walk[n]
<1>1. /\ Len(walk) \in Nat /\ n \in 0..Len(walk)
      /\ n < Len(walk) => b[walk[n + 1]] # b[c]
      /\ \A i \in 1..n : b[walk[i]] = b[c]
  BY PathFacts, ReachFacts
<1>2. last \in InLine(b, axis, c)
  BY <1>1, InLineMembers
<1>3. EndBlocked(b, <<axis, s>>, c) <=> Blocks(b, <<axis, s>>, last, b[c])
  BY DEF EndBlocked, Path, Met
<1>4. ASSUME NEW x \in InLine(b, axis, c), Blocks(b, <<axis, s>>, x, b[c])
      PROVE  x = last
  <2> DEFINE y == Beside[<<axis, s>>][x]
  <2>1. x \in Cells /\ y \in Cells /\ b[y] # b[c] /\ Step(axis, s, x, y)
    <3>1. x \in Cells
      BY LineIsClosed
    <3>2. y \in Cells /\ b[y] # b[c]
      BY <1>4 DEF Blocks
    <3> QED
      BY <3>1, <3>2, BesideIsAStep
  <2> HIDE DEF y
  <2>2. CASE x = c
    <3>1. y = walk[1] /\ Len(walk) >= 1
      BY <2>1, <2>2, StepForward
    <3>2. n = 0
      BY <1>1, <2>1, <3>1
    <3> QED
      BY <2>2, <3>2
  <2>3. ASSUME NEW i \in 1..n, x = walk[i]
        PROVE  x = last
    <3>1. i < Len(walk)
      <4>1. CASE i = Len(walk)
        <5>1. x = walk[Len(walk)] /\ Len(walk) >= 1
          BY <1>1, <2>3, <4>1
        <5>2. y = c
          BY <2>1, <5>1, WalkEnds
        <5> QED
          BY <2>1, <5>2
      <4> QED
        BY <1>1, <4>1
    <3>2. Step(axis, s, walk[i], walk[i + 1])
      BY <1>1, <3>1, WalkSteps
    <3>3. y = walk[i + 1]
      BY <2>1, <2>3, <3>2 DEF Step
    <3>4. i = n
      BY <1>1, <2>1, <3>3
    <3> QED
      BY <1>1, <2>3, <3>4
  <2>4. ASSUME NEW i \in 1..Met(b, axis, -s, c), x = Path(axis, -s, c)[i]
        PROVE  FALSE
    <3> DEFINE prev == IF i = 1 THEN c ELSE Path(axis, -s, c)[i - 1]
    <3>1. -s \in {1, -1} /\ -(-s) = s
      BY PathFacts
    <3>2. Step(axis, -(-s), x, prev) /\ b[prev] = b[c]
      BY <2>4, <3>1, Predecessor
    <3>3. y = prev
      BY <2>1, <3>1, <3>2 DEF Step
    <3> QED
      BY <2>1, <3>2, <3>3
  <2>5. \A t \in {1, -1} : t = s \/ t = -s
    OBVIOUS
  <2> QED
    BY <2>2, <2>3, <2>4, <2>5, InLineMembers
<1> QED
  BY <1>2, <1>3, <1>4

\* _checkWin finds a row through the stone that wins, if there is one.
LEMMA CompletesARow ==
  ASSUME Straight, NEW c \in Cells, NEW b
  PROVE  CompletesLine(b, c) <=>
           \E axis \in Axes, S \in SUBSET {d \in Cells : b[d] = b[c]} :
             c \in S /\ IsRow(b, axis, b[c], S) /\ RowWins(b, axis, b[c], S)
<1>1. ASSUME NEW axis \in Axes
      PROVE  RowWins(b, axis, b[c], InLine(b, axis, c)) <=>
               /\ LengthWins(Cardinality(InLine(b, axis, c)))
               /\ Rule = "caro" => \E s \in {1, -1} : ~EndBlocked(b, <<axis, s>>, c)
  <2>1. \A s \in {1, -1} : EndBlocked(b, <<axis, s>>, c) <=>
          \E x \in InLine(b, axis, c) : Blocks(b, <<axis, s>>, x, b[c])
    BY BlockedAtTheEnd
  <2> QED
    BY <2>1 DEF RowWins
<1>2. ASSUME NEW axis \in Axes
      PROVE  /\ c \in InLine(b, axis, c)
             /\ InLine(b, axis, c) \in SUBSET {d \in Cells : b[d] = b[c]}
             /\ IsRow(b, axis, b[c], InLine(b, axis, c))
  <2>1. /\ c \in InLine(b, axis, c)
        /\ InLine(b, axis, c) \in SUBSET {d \in Cells : b[d] = b[c]}
    BY InLineMembers, LineIsClosed
  <2> QED
    BY <2>1, RowsAreLines
<1>3. ASSUME NEW axis \in Axes, NEW S \in SUBSET {d \in Cells : b[d] = b[c]},
             c \in S, IsRow(b, axis, b[c], S)
      PROVE  S = InLine(b, axis, c)
  BY <1>3, RowsAreLines
<1> QED
  BY <1>1, <1>2, <1>3 DEF CompletesLine

-----------------------------------------------------------------------------
(***************************************************************************)
(* Who wins.  Without the Swap2 opening every stone goes through makeMove, *)
(* which looks for a row through the cell just filled only.  That this     *)
(* misses none is inductive if it is said of every board the game may be   *)
(* taken back to: an undo frees ends of rows and shortens overlines, and   *)
(* leaves a board that had no winning row when it was reached.             *)
(***************************************************************************)
NoWinOn(b) == \A k \in Colours : ~HasWinningRow(b, k)

\* The board b of the moves h with only the first n of them.
TakenBack(b, h, n) ==
  [c \in Cells |-> IF \E i \in (n + 1)..Len(h) : h[i].cell = c THEN "EMPTY" ELSE b[c]]

Decided ==
  /\ status = "ongoing" => result.reason # "win" /\ ~BoardFull(board)
  /\ \A n \in 0..Len(history) :
       n < Len(history) \/ result.reason # "win" => NoWinOn(TakenBack(board, history, n))
  /\ result.reason = "win" =>
       HasWinningRow(board, colour[result.winner]) /\ colour[result.winner] \in Colours

LEMMA NoOpening ==
  ASSUME IInv, ~Swap2
  PROVE  phase = "play" /\ snapshots = << >> /\ undoOffer.mode # "opening"
  BY DEF IInv, OpeningWellFormed, SnapshotsSound, UndoRequestApplies

\* Taking nothing back leaves the board.
LEMMA NothingTakenBack ==
  ASSUME NEW b, Stones(b), NEW h, Len(h) \in Nat
  PROVE  TakenBack(b, h, Len(h)) = b
  BY DEF TakenBack, Stones

LEMMA InitDecided ==
  ASSUME Init, ~Swap2
  PROVE  Decided
<1>1. /\ board = [c \in Cells |-> "EMPTY"] /\ history = << >>
      /\ status = "ongoing" /\ result.reason = "none"
  BY DEF Init
<1>2. ~BoardFull(board)
  BY <1>1, BoardAssumption DEF BoardFull
<1>3. Stones(board) /\ Len(history) = 0
  BY <1>1 DEF Stones
<1>4. NoWinOn(board)
  BY <1>1 DEF NoWinOn, HasWinningRow, IsRow, Colours
<1>5. \A n \in 0..Len(history) : TakenBack(board, history, n) = board
  BY <1>3, NothingTakenBack
<1> QED
  BY <1>1, <1>2, <1>4, <1>5 DEF Decided

\* What neither lays nor lifts a stone nor ends the game.
LEMMA TalkKeepsDecided ==
  ASSUME Decided, UNCHANGED <<stones, outcome, opening>>
  PROVE  Decided'
<1>1. /\ board' = board /\ history' = history /\ status' = status
      /\ result' = result /\ colour' = colour
  BY DEF stones, outcome, opening
<1> QED
  BY <1>1 DEF Decided, BoardFull

\* Resignation, timeout and agreement leave the board without a winning row.
LEMMA WordKeepsDecided ==
  ASSUME Decided, UNCHANGED <<stones, opening>>, status = "ongoing",
         NEW w, NEW reason, Finish(w, reason), reason # "win"
  PROVE  Decided'
<1>1. /\ board' = board /\ history' = history /\ status' = "finished"
      /\ result'.reason = reason
  BY DEF stones, Finish
<1>2. \A n \in 0..Len(history) : NoWinOn(TakenBack(board, history, n))
  BY DEF Decided
<1> QED
  BY <1>1, <1>2 DEF Decided

\* A row that a stone is not part of was there before, and was as free.
LEMMA OtherRows ==
  ASSUME NEW b, Stones(b), NEW c \in Cells, b[c] = "EMPTY", NEW k \in Colours,
         NEW e, e = [b EXCEPT ![c] = k], NEW j \in Colours, NEW axis \in Axes,
         NEW S \in SUBSET {d \in Cells : e[d] = j}, c \notin S,
         IsRow(e, axis, j, S), RowWins(e, axis, j, S)
  PROVE  HasWinningRow(b, j)
<1>1. /\ \A d \in Cells : d # c => e[d] = b[d]
      /\ e[c] = k /\ b[c] \notin Colours
  BY DEF Stones, Colours
<1>2. S \in SUBSET {d \in Cells : b[d] = j}
  BY <1>1
<1>3. ASSUME NEW T \in SUBSET S
      PROVE  Closed(b, axis, j, T) <=> Closed(e, axis, j, T)
  <2>1. ASSUME Closed(e, axis, j, T)
        PROVE  Closed(b, axis, j, T)
    BY <1>1, <2>1 DEF Closed
  <2>2. ASSUME Closed(b, axis, j, T)
        PROVE  Closed(e, axis, j, T)
    <3>1. ASSUME NEW x \in T, NEW d \in Cells, NEW s \in {1, -1}, Step(axis, s, x, d), e[d] = j
          PROVE  d \in T
      <4>1. d \in S
        BY <3>1 DEF IsRow, Closed
      <4>2. b[d] = j
        BY <1>2, <4>1
      <4> QED
        BY <2>2, <3>1, <4>2 DEF Closed
    <3> QED
      BY <3>1 DEF Closed
  <2> QED
    BY <2>1, <2>2
<1>4. IsRow(b, axis, j, S)
  BY <1>3 DEF IsRow
<1>5. \A way, d : Blocks(b, way, d, j) => Blocks(e, way, d, j)
  BY <1>1 DEF Blocks
<1>6. RowWins(b, axis, j, S)
  BY <1>5 DEF RowWins
<1> QED
  BY <1>2, <1>4, <1>6 DEF HasWinningRow

\* A stone makes a winning row only through the cell it was put on.
LEMMA NewRows ==
  ASSUME Straight, TypeOK, NoWinOn(board), NEW c \in Cells, NEW k \in Colours, PutStone(c, k)
  PROVE  /\ CompletesLine(board', c) => HasWinningRow(board', k)
         /\ ~CompletesLine(board', c) => NoWinOn(board')
<1>1. board' = [board EXCEPT ![c] = k] /\ board[c] = "EMPTY" /\ Stones(board)
  BY DEF PutStone, TypeOK, Stones
<1>2. board'[c] = k
  BY <1>1 DEF Stones
<1>3. CompletesLine(board', c) <=>
        \E axis \in Axes, S \in SUBSET {d \in Cells : board'[d] = k} :
          c \in S /\ IsRow(board', axis, k, S) /\ RowWins(board', axis, k, S)
  BY <1>2, CompletesARow
<1>4. CompletesLine(board', c) => HasWinningRow(board', k)
  BY <1>3 DEF HasWinningRow
<1>5. ASSUME NEW j \in Colours, HasWinningRow(board', j)
      PROVE  CompletesLine(board', c)
  <2>1. PICK axis \in Axes, S \in SUBSET {d \in Cells : board'[d] = j} :
          IsRow(board', axis, j, S) /\ RowWins(board', axis, j, S)
    BY <1>5 DEF HasWinningRow
  <2>2. CASE c \in S
    <3>1. j = k
      BY <1>2, <2>2
    <3> QED
      BY <1>3, <2>1, <2>2, <3>1
  <2>3. CASE c \notin S
    <3>1. HasWinningRow(board, j)
      BY <1>1, <2>1, <2>3, OtherRows
    <3> QED
      BY <3>1 DEF NoWinOn
  <2> QED
    BY <2>2, <2>3
<1> QED
  BY <1>4, <1>5 DEF NoWinOn

LEMMA MoveKeepsDecided ==
  ASSUME IInv, Straight, ~Swap2, Decided, NEW p \in Players, NEW c \in Cells, MakeMove(p, c)
  PROVE  Decided'
<1>1. /\ TypeOK /\ colour' = colour /\ status = "ongoing" /\ phase = "play"
      /\ result.reason # "win" /\ Stones(board) /\ Len(history) \in Nat
  BY DEF IInv, Decided, MakeMove, opening, TypeOK, Stones
<1>2. colour[p] \in Colours
  BY <1>1 DEF IInv, TurnFollowsStones, Players, Colours
<1>3. PutStone(c, colour[p])
  BY DEF MakeMove
<1>4. NoWinOn(board)
  BY <1>1, NothingTakenBack DEF Decided
<1>5. /\ CompletesLine(board', c) => HasWinningRow(board', colour[p])
      /\ ~CompletesLine(board', c) => NoWinOn(board')
  BY <1>1, <1>2, <1>3, <1>4, NewRows
<1>6. /\ Len(history') = Len(history) + 1
      /\ history'[Len(history) + 1].cell = c
      /\ \A i \in 1..Len(history) : history'[i] = history[i]
      /\ board[c] = "EMPTY" /\ board' = [board EXCEPT ![c] = colour[p]]
      /\ Stones(board')
  <2>1. history' = Append(history, [cell |-> c, colour |-> colour[p]]) /\ history \in Seq(Stone)
    BY <1>1, <1>3 DEF PutStone, TypeOK
  <2>2. [cell |-> c, colour |-> colour[p]] \in Stone
    BY <1>2 DEF Stone
  <2> QED
    BY <1>1, <1>2, <1>3, <2>1, <2>2, AppendFacts DEF PutStone, Stones
<1>7. TakenBack(board', history', Len(history')) = board'
  BY <1>1, <1>6, NothingTakenBack
<1>8. ASSUME NEW n \in 0..Len(history)
      PROVE  NoWinOn(TakenBack(board', history', n))
  <2>1. ASSUME NEW d \in Cells
        PROVE  TakenBack(board', history', n)[d] = TakenBack(board, history, n)[d]
    <3>1. CASE d = c
      <4>1. Len(history) + 1 \in (n + 1)..Len(history')
        BY <1>1, <1>6
      <4>2. TakenBack(board', history', n)[d] = "EMPTY"
        BY <1>6, <3>1, <4>1 DEF TakenBack
      <4>3. TakenBack(board, history, n)[d] = "EMPTY"
        BY <1>6, <3>1 DEF TakenBack
      <4> QED
        BY <4>2, <4>3
    <3>2. CASE d # c
      <4>1. board'[d] = board[d]
        BY <1>1, <1>6, <3>2 DEF Stones
      <4>2. (\E i \in (n + 1)..Len(history') : history'[i].cell = d) <=>
              \E i \in (n + 1)..Len(history) : history[i].cell = d
        BY <1>1, <1>6, <3>2
      <4> QED
        BY <4>1, <4>2 DEF TakenBack
    <3> QED
      BY <3>1, <3>2
  <2>2. TakenBack(board', history', n) = TakenBack(board, history, n)
    BY <2>1 DEF TakenBack
  <2> QED
    BY <1>1, <2>2 DEF Decided
<1>9. ASSUME NEW n \in 0..Len(history'), n < Len(history') \/ ~CompletesLine(board', c)
      PROVE  NoWinOn(TakenBack(board', history', n))
  <2>1. n \in 0..Len(history) \/ n = Len(history')
    BY <1>1, <1>6
  <2>2. CASE n \in 0..Len(history)
    BY <1>8, <2>2
  <2>3. CASE n = Len(history')
    BY <1>5, <1>6, <1>7, <1>9, <2>3
  <2> QED
    BY <2>1, <2>2, <2>3
<1>10. CASE CompletesLine(board', c)
  <2>1. status' = "finished" /\ result' = [winner |-> p, reason |-> "win"]
    BY <1>10 DEF MakeMove, Finish
  <2> QED
    BY <1>1, <1>2, <1>5, <1>9, <1>10, <2>1 DEF Decided
<1>11. CASE ~CompletesLine(board', c) /\ BoardFull(board')
  <2>1. status' = "finished" /\ result'.reason = "board_full"
    BY <1>11 DEF MakeMove, Finish
  <2> QED
    BY <1>9, <1>11, <2>1 DEF Decided
<1>12. CASE ~CompletesLine(board', c) /\ ~BoardFull(board')
  <2>1. status' = status /\ result' = result
    BY <1>12 DEF MakeMove, outcome
  <2> QED
    BY <1>1, <1>9, <1>12, <2>1 DEF Decided
<1> QED
  BY <1>10, <1>11, <1>12

\* An undo goes back to a board the game has had.
LEMMA UndoKeepsDecided ==
  ASSUME IInv, Decided, NEW p \in Players, AcceptPlayUndo(p)
  PROVE  Decided'
<1> DEFINE t == undoOffer.target
<1>1. /\ status = "ongoing" /\ status' = status /\ result' = result
      /\ result.reason # "win" /\ Stones(board)
      /\ board' = TakenBack(board, history, t)
      /\ history' = SubSeq(history, 1, t)
  BY DEF AcceptPlayUndo, RollBackTo, outcome, IInv, TypeOK, Stones, Decided, TakenBack
<1>2. t \in 0..(Len(history) - 1) /\ Len(history) \in Nat
  BY DEF AcceptPlayUndo, IInv, UndoRequestApplies, OwnPlayMoves, TypeOK
<1>3. Len(history') = t /\ \A i \in 1..t : history'[i] = history[i]
  BY <1>1, <1>2, PrefixFacts DEF IInv, TypeOK
<1>4. ~BoardFull(board')
  BY <1>1 DEF Decided, BoardFull, TakenBack
<1>5. ASSUME NEW n \in 0..t
      PROVE  NoWinOn(TakenBack(board', history', n))
  <2>1. n \in 0..Len(history)
    BY <1>2
  <2>2. ASSUME NEW d \in Cells
        PROVE  TakenBack(board', history', n)[d] = TakenBack(board, history, n)[d]
    <3>1. TakenBack(board', history', n)[d] =
            IF \E i \in (n + 1)..t : history[i].cell = d THEN "EMPTY" ELSE board'[d]
      BY <1>2, <1>3 DEF TakenBack
    <3>2. board'[d] = IF \E i \in (t + 1)..Len(history) : history[i].cell = d
                      THEN "EMPTY" ELSE board[d]
      BY <1>1 DEF TakenBack
    <3>3. (\E i \in (n + 1)..Len(history) : history[i].cell = d) <=>
            \/ \E i \in (n + 1)..t : history[i].cell = d
            \/ \E i \in (t + 1)..Len(history) : history[i].cell = d
      BY <1>2
    <3>4. TakenBack(board, history, n)[d] =
            IF \E i \in (n + 1)..Len(history) : history[i].cell = d THEN "EMPTY" ELSE board[d]
      BY DEF TakenBack
    <3> QED
      BY <3>1, <3>2, <3>3, <3>4
  <2>3. TakenBack(board', history', n) = TakenBack(board, history, n)
    BY <2>2 DEF TakenBack
  <2> QED
    BY <1>1, <2>1, <2>3 DEF Decided
<1> QED
  BY <1>1, <1>3, <1>4, <1>5 DEF Decided

LEMMA NextDecided ==
  ASSUME IInv, Straight, ~Swap2, Decided, [Next]_vars
  PROVE  Decided'
<1>1. CASE UNCHANGED vars
  BY <1>1, TalkKeepsDecided DEF vars
<1>2. CASE Next
  <2>1. PICK p \in Players :
          \/ \E c \in Cells : MakeMove(p, c) \/ PlaceOpeningStone(p, c)
          \/ Swap2ChoosePlace(p)
          \/ \E k \in Colours : Swap2ChooseColour(p, k)
          \/ Resign(p) \/ HandleTimeout(p)
          \/ OfferDraw(p) \/ AcceptDraw(p) \/ DeclineDraw(p)
          \/ RequestOpeningUndo(p) \/ RequestPlayUndo(p)
          \/ AcceptPlayUndo(p) \/ AcceptOpeningUndo(p) \/ DeclineUndo(p)
    BY <1>2 DEF Next
  <2>2. ASSUME NEW c \in Cells, MakeMove(p, c)
        PROVE  Decided'
    BY <2>2, MoveKeepsDecided
  <2>3. /\ \A c \in Cells : ~PlaceOpeningStone(p, c)
        /\ ~Swap2ChoosePlace(p)
        /\ \A k \in Colours : ~Swap2ChooseColour(p, k)
        /\ ~AcceptOpeningUndo(p)
    BY NoOpening DEF PlaceOpeningStone, Swap2ChoosePlace, Swap2ChooseColour, AcceptOpeningUndo
  <2>4. CASE Resign(p) \/ HandleTimeout(p) \/ AcceptDraw(p)
    <3>1. /\ UNCHANGED <<stones, opening>> /\ status = "ongoing"
          /\ \E w, reason : Finish(w, reason) /\ reason # "win"
      BY <2>4 DEF Resign, HandleTimeout, AcceptDraw
    <3> QED
      BY <3>1, WordKeepsDecided
  <2>5. CASE \/ OfferDraw(p) \/ DeclineDraw(p)
             \/ RequestOpeningUndo(p) \/ RequestPlayUndo(p) \/ DeclineUndo(p)
    <3>1. UNCHANGED <<stones, outcome, opening>>
      BY <2>5 DEF OfferDraw, DeclineDraw, RequestOpeningUndo, RequestPlayUndo, DeclineUndo
    <3> QED
      BY <3>1, TalkKeepsDecided
  <2>6. CASE AcceptPlayUndo(p)
    BY <2>6, UndoKeepsDecided
  <2> QED
    BY <2>1, <2>2, <2>3, <2>4, <2>5, <2>6
<1> QED
  BY <1>1, <1>2

\* The board decides, by every winning rule: without the Swap2 opening a game is
\* won exactly when there is a row that wins, by the player of its colour, and a
\* full board ends it.  Straight is what walking from the last stone relies on.
THEOREM OutcomeCorrect ==
  ASSUME Straight, ~Swap2
  PROVE  Spec => []OutcomeMatchesBoard
<1>1. Init => Decided
  BY InitDecided
<1>2. IInv /\ Decided /\ [Next]_vars => Decided'
  BY NextDecided
<1>3. IInv /\ Decided => OutcomeMatchesBoard
  <2> SUFFICES ASSUME IInv, Decided
               PROVE  OutcomeMatchesBoard
    OBVIOUS
  <2>1. Stones(board) /\ Len(history) \in Nat
    BY DEF IInv, TypeOK, Stones
  <2>2. result.reason # "win" => NoWinOn(board)
    BY <2>1, NothingTakenBack DEF Decided
  <2>3. result.reason = "win" =>
          HasWinningRow(board, colour[result.winner]) /\ colour[result.winner] \in Colours
    BY DEF Decided
  <2>4. BoardFull(board) => status = "finished"
    BY DEF Decided, IInv, TypeOK
  <2> QED
    BY <2>2, <2>3, <2>4 DEF OutcomeMatchesBoard, NoWinOn
<1> QED
  BY <1>1, <1>2, <1>3, Invariance, PTL DEF Spec

-----------------------------------------------------------------------------
(***************************************************************************)
(* The WALL rules.  makeMove asks who moves and counts that player's       *)
(* stones; that the stones meant are the first and the third of the board  *)
(* follows from the colours alternating and from First holding Black.      *)
(***************************************************************************)
WallsObeyed ==
  /\ Len(history) >= 1 => history[1].cell \in FirstZone
  /\ Len(history) >= 3 => <<history[1].cell, history[3].cell>> \in FarApart

WallInv == colour[First] = "BLACK" /\ WallsObeyed

\* The stones left on the board keep to the rules if there are fewer of them.
LEMMA PrefixObeys ==
  ASSUME WallsObeyed, Len(history) \in Nat, Len(history') \in 0..Len(history),
         \A i \in 1..Len(history') : history'[i] = history[i]
  PROVE  WallsObeyed'
<1>1. Len(history') >= 1 => Len(history) >= 1 /\ history'[1] = history[1]
  OBVIOUS
<1>2. Len(history') >= 3 => Len(history) >= 3 /\ history'[3] = history[3] /\ history'[1] = history[1]
  OBVIOUS
<1> QED
  BY <1>1, <1>2 DEF WallsObeyed

LEMMA MoveObeysWalls ==
  ASSUME IInv, HasWalls, WallInv, NEW p \in Players, NEW c \in Cells, MakeMove(p, c)
  PROVE  WallInv'
<1> DEFINE n == Len(history)
<1>1. /\ TypeOK /\ BoardMatchesHistory /\ ColoursAlternate /\ n \in Nat
      /\ phase = "play" /\ status = "ongoing" /\ turn = p /\ colour' = colour
      /\ WallRule(p, c) /\ PutStone(c, colour[p])
  BY LenProperties DEF IInv, TypeOK, MakeMove, opening
<1>2. /\ {colour[First], colour[Second]} = Colours
      /\ colour[p] = IF n % 2 = 0 THEN "BLACK" ELSE "WHITE"
  BY <1>1 DEF IInv, TurnFollowsStones
<1>3. colour[p] = ColourAt(n + 1) /\ colour[p] \in Colours
  BY <1>1, <1>2 DEF ColourAt, Colours
<1>4. /\ Len(history') = n + 1
      /\ \A i \in 1..n : history'[i] = history[i]
      /\ history'[n + 1].cell = c
  BY <1>1, <1>3, PutStoneKeeps, AppendFacts DEF PutStone
<1>5. CASE n = 0
  <2>1. history = << >>
    BY <1>1, <1>5 DEF TypeOK
  <2>2. c \in FirstZone
    BY <1>1, <2>1 DEF WallRule
  <2> QED
    BY <1>1, <1>4, <1>5, <2>2 DEF WallInv, WallsObeyed
<1>6. CASE n = 2
  <2>1. p = First
    BY <1>2, <1>6, PlayersAssumption DEF WallInv, Players, Colours
  <2>2. history[1].colour = "BLACK" /\ history[2].colour = "WHITE" /\ colour[p] = "BLACK"
    BY <1>1, <1>6, <2>1 DEF ColoursAlternate, WallInv
  <2>3. <<history[1].cell, c>> \in FarApart
    <3>1. 1 \in 1..n /\ \A j \in 1..n : history[j].colour = colour[p] => j = 1
      BY <1>6, <2>2
    <3> QED
      BY <1>1, <2>1, <2>2, <3>1 DEF WallRule
  <2> QED
    BY <1>1, <1>4, <1>6, <2>3 DEF WallInv, WallsObeyed
<1>7. CASE n # 0 /\ n # 2
  <2>1. \A m \in Nat : m # 0 /\ m # 2 => 1 \in 1..m /\ (m + 1 >= 3 => 3 \in 1..m)
    OBVIOUS
  <2>2. n \in Nat /\ 1 \in 1..n /\ (n + 1 >= 3 => 3 \in 1..n)
    BY <1>1, <1>7, <2>1
  <2> QED
    BY <1>1, <1>4, <2>2 DEF WallInv, WallsObeyed
<1> QED
  BY <1>5, <1>6, <1>7

LEMMA UndoObeysWalls ==
  ASSUME IInv, WallInv, NEW p \in Players, AcceptPlayUndo(p)
  PROVE  WallInv'
<1> DEFINE n == undoOffer.target
<1>1. /\ n \in 0..Len(history) /\ Len(history) \in Nat
      /\ TypeOK /\ BoardMatchesHistory /\ ColoursAlternate
      /\ RollBackTo(n) /\ colour' = colour
  <2>1. n \in OwnPlayMoves(undoOffer.from)
    BY DEF AcceptPlayUndo, IInv, UndoRequestApplies
  <2> QED
    BY <2>1, LenProperties DEF OwnPlayMoves, AcceptPlayUndo, opening, IInv, TypeOK
<1>2. Len(history') = n /\ \A i \in 1..n : history'[i] = history[i]
  BY <1>1, RollBackKeeps
<1> QED
  BY <1>1, <1>2, PrefixObeys DEF WallInv

LEMMA NextObeysWalls ==
  ASSUME IInv, HasWalls, ~Swap2, WallInv, [Next]_vars
  PROVE  WallInv'
<1>1. CASE UNCHANGED <<stones, opening>>
  BY <1>1 DEF stones, opening, WallInv, WallsObeyed
<1>2. ASSUME NEW p \in Players, NEW c \in Cells, MakeMove(p, c)
      PROVE  WallInv'
  BY <1>2, MoveObeysWalls
<1>3. ASSUME NEW p \in Players, AcceptPlayUndo(p)
      PROVE  WallInv'
  BY <1>3, UndoObeysWalls
<1>4. ASSUME NEW p \in Players
      PROVE  /\ \A c \in Cells : ~PlaceOpeningStone(p, c)
             /\ ~Swap2ChoosePlace(p)
             /\ \A k \in Colours : ~Swap2ChooseColour(p, k)
             /\ ~AcceptOpeningUndo(p)
  BY NoOpening DEF PlaceOpeningStone, Swap2ChoosePlace, Swap2ChooseColour, AcceptOpeningUndo
<1>5. ASSUME NEW p \in Players,
             \/ Resign(p) \/ HandleTimeout(p)
             \/ OfferDraw(p) \/ AcceptDraw(p) \/ DeclineDraw(p)
             \/ RequestOpeningUndo(p) \/ RequestPlayUndo(p) \/ DeclineUndo(p)
      PROVE  UNCHANGED <<stones, opening>>
  BY <1>5 DEF Resign, HandleTimeout, OfferDraw, AcceptDraw, DeclineDraw, RequestOpeningUndo,
       RequestPlayUndo, DeclineUndo
<1>6. CASE UNCHANGED vars
  BY <1>1, <1>6 DEF vars
<1> QED
  BY <1>1, <1>2, <1>3, <1>4, <1>5, <1>6 DEF Next

\* Boards with walls: the stones on the board keep the two WALL rules after
\* every move and every undo, not only when each was laid.
THEOREM WallsCorrect == Spec => WallRulesSurviveUndo
<1>1. ASSUME IInv, HasWalls, ~Swap2, Init
      PROVE  WallInv
  BY <1>1, PlayersAssumption DEF Init, WallInv, WallsObeyed, Players
<1> DEFINE Obeyed == HasWalls /\ ~Swap2 => WallInv
<1>2. Init => Obeyed
  BY <1>1, InitInv
<1>3. IInv /\ Obeyed /\ [Next]_vars => Obeyed'
  BY NextObeysWalls
<1>4. Obeyed' => [HasWalls /\ ~Swap2 =>
                    /\ Len(history') >= 1 => history'[1].cell \in FirstZone
                    /\ Len(history') >= 3 => <<history'[1].cell, history'[3].cell>> \in FarApart]_vars
  BY DEF WallInv, WallsObeyed
<1> QED
  BY <1>2, <1>3, <1>4, Invariance, PTL DEF Spec, WallRulesSurviveUndo

-----------------------------------------------------------------------------
(* The clock of a game. *)

\* What the clock needs to know of itself besides what the engine knows.
ClockInv == ClockTypeOK /\ SidesAreLabelled /\ ClockOnMover

MatchInv == IInv /\ ClockInv

-----------------------------------------------------------------------------

\* A step of the handlers is a step of the engine, or none at all.
LEMMA StepsAreGameSteps ==
  ASSUME ClockTypeOK, [MatchNext]_matchVars
  PROVE  [Next]_vars
<1>1. CASE UNCHANGED matchVars
  BY <1>1 DEF matchVars
<1>2. ASSUME NEW p \in Players, NEW c \in Cells, PlayMove(p, c) \/ LayOpeningStone(p, c)
      PROVE  Next
  BY <1>2 DEF PlayMove, LayOpeningStone, Next
<1>3. ASSUME NEW p \in Players, ChooseMore(p)
      PROVE  Next
  BY <1>3 DEF ChooseMore, Next
<1>4. ASSUME NEW p \in Players, NEW k \in Colours, ChooseColour(p, k)
      PROVE  Next
  BY <1>4 DEF ChooseColour, Next
<1>5. ASSUME NEW p \in Players, EndByWord(p) \/ TalkDraw(p) \/ AskUndo(p) \/ RefuseUndo(p)
      PROVE  Next
  BY <1>5 DEF EndByWord, TalkDraw, AskUndo, RefuseUndo, Next
<1>6. ASSUME NEW p \in Players, GrantPlayUndo(p) \/ GrantOpeningUndo(p)
      PROVE  Next
  BY <1>6 DEF GrantPlayUndo, GrantOpeningUndo, Next
<1>7. ASSUME NEW p \in Players, TakeFreeTime(p) \/ AskTime(p) \/ GrantTime(p) \/ RefuseTime(p)
      PROVE  UNCHANGED vars
  BY <1>7 DEF TakeFreeTime, AskTime, GrantTime, RefuseTime
<1>8. CASE Tick \/ Pause \/ Resume
  BY <1>8 DEF Tick, Pause, Resume
<1>9. CASE TimeUp
  <2>1. owner[active] \in Players
    BY DEF ClockTypeOK
  <2> QED
    BY <1>9, <2>1 DEF TimeUp, Next
<1> QED
  BY <1>1, <1>2, <1>3, <1>4, <1>5, <1>6, <1>7, <1>8, <1>9 DEF MatchNext

LEMMA MatchInitInv == MatchInit => MatchInv
<1> SUFFICES ASSUME MatchInit PROVE MatchInv
  OBVIOUS
<1>1. IInv
  BY InitInv DEF MatchInit
<1>2. ClockTypeOK
  BY ClockAssumption DEF MatchInit, ClockTypeOK, Sides, Players
<1>3. SidesAreLabelled
  BY PlayersAssumption DEF MatchInit, Init, SidesAreLabelled, Sides, Players
<1>4. ClockOnMover
  BY DEF MatchInit, Init, ClockOnMover, Sides
<1> QED
  BY <1>1, <1>2, <1>3, <1>4 DEF MatchInv, ClockInv

(***************************************************************************)
(* Sides and players.                                                      *)
(***************************************************************************)

\* A side of either name, credited or relabelled, still holds a number.
LEMMA ClocksStayNumbers ==
  /\ \A s \in Sides : Other(s) \in Sides
  /\ \A f \in [Sides -> Nat] : \A s \in Sides : Credited(f, s) \in [Sides -> Nat]
  /\ left \in [Sides -> Nat] => \A p \in Players : Relabelled(p) \in [Sides -> Nat]
<1>1. \A s \in Sides : Other(s) \in Sides
  BY DEF Sides, Other
<1>2. ASSUME NEW f \in [Sides -> Nat], NEW s \in Sides
      PROVE  Credited(f, s) \in [Sides -> Nat]
  <2>1. f[s] + Increment \in Nat /\ Seconds \in Nat
    BY ClockAssumption
  <2> QED
    BY <2>1 DEF Credited
<1>3. ASSUME left \in [Sides -> Nat], NEW p \in Players
      PROVE  Relabelled(p) \in [Sides -> Nat]
  BY <1>1, <1>3 DEF Relabelled
<1> QED
  BY <1>1, <1>2, <1>3

\* In the play phase a player's colour names the side with their label.
LEMMA ColourSideIsOwned ==
  ASSUME IInv, ClockInv, phase = "play", NEW p \in Players
  PROVE  ColourSide(p) \in Sides /\ owner[ColourSide(p)] = p
<1>1. owner["black"] \in Players /\ owner["white"] \in Players
  BY DEF ClockInv, ClockTypeOK, Sides
<1>2. /\ owner["black"] # owner["white"]
      /\ colour[owner["black"]] = "BLACK" /\ colour[owner["white"]] = "WHITE"
  BY DEF ClockInv, SidesAreLabelled
<1>3. p = owner["black"] \/ p = owner["white"]
  BY <1>1, <1>2 DEF Players
<1> QED
  BY <1>2, <1>3 DEF ColourSide, Sides

\* Labels gives the two sides to the two players.
LEMMA LabelFacts ==
  ASSUME NEW b \in Players
  PROVE  /\ Labels(b) \in [Sides -> Players]
         /\ Labels(b)["black"] = b
         /\ Labels(b)["white"] = Opponent(b)
         /\ Labels(b)["black"] # Labels(b)["white"]
BY OpponentFacts DEF Labels, Sides

\* While the sides stand for First and Second, a player's side is theirs.
LEMMA OpeningSideIsOwned ==
  ASSUME NEW o \in [Sides -> Players], o["black"] = First, o["black"] # o["white"],
         NEW p \in Players
  PROVE  OpeningSide(p) \in Sides /\ o[OpeningSide(p)] = p
BY PlayersAssumption DEF OpeningSide, Sides, Players

(***************************************************************************)
(* The handlers.                                                           *)
(***************************************************************************)

LEMMA PlayMoveKeeps ==
  ASSUME MatchInv, IInv', NEW p \in Players, NEW c \in Cells, PlayMove(p, c)
  PROVE  ClockInv'
<1>1. phase = "play" /\ UNCHANGED <<phase, colour>>
  BY DEF PlayMove, MakeMove, opening
<1>2. CASE status' = "finished"
  BY <1>1, <1>2 DEF PlayMove, StopForGood, MatchInv, ClockInv, ClockTypeOK,
                    SidesAreLabelled, ClockOnMover, Ongoing, Sides
<1>3. CASE status' # "finished"
  <2>1. turn' \in Players
    BY DEF IInv, TypeOK
  <2>2. SwitchTurn(ColourSide(turn')) /\ UNCHANGED requests
    BY <1>3 DEF PlayMove
  <2>3. ColourSide(turn') \in Sides /\ owner[ColourSide(turn')] = turn'
    BY <1>1, <2>1, ColourSideIsOwned DEF MatchInv
  <2>4. left' \in [Sides -> Nat]
    BY <2>2, <2>3, ClocksStayNumbers DEF SwitchTurn, MatchInv, ClockInv, ClockTypeOK
  <2> QED
    BY <1>1, <2>2, <2>3, <2>4 DEF SwitchTurn, requests, MatchInv, ClockInv, ClockTypeOK,
                                  SidesAreLabelled, ClockOnMover
<1> QED
  BY <1>2, <1>3

LEMMA OpeningStoneKeeps ==
  ASSUME MatchInv, IInv', NEW p \in Players, NEW c \in Cells, LayOpeningStone(p, c)
  PROVE  ClockInv'
<1>1. /\ phase # "play" /\ phase' # "play" /\ turn = p
      /\ status = "ongoing"
  BY DEF LayOpeningStone, PlaceOpeningStone
<1>2. turn' \in Players
  BY DEF IInv, TypeOK
<1>3. /\ owner \in [Sides -> Players]
      /\ owner["black"] = First /\ owner["black"] # owner["white"]
  BY <1>1 DEF MatchInv, ClockInv, ClockTypeOK, SidesAreLabelled
<1>4. OpeningSide(turn') \in Sides /\ owner[OpeningSide(turn')] = turn'
  BY <1>2, <1>3, OpeningSideIsOwned
<1>5. CASE turn' # p
  <2>1. SwitchTurn(OpeningSide(turn')) /\ UNCHANGED requests
    BY <1>5 DEF LayOpeningStone, HandOver
  <2>2. left' \in [Sides -> Nat]
    BY <1>4, <2>1, ClocksStayNumbers DEF SwitchTurn, MatchInv, ClockInv, ClockTypeOK
  <2> QED
    BY <1>1, <1>3, <1>4, <2>1, <2>2 DEF SwitchTurn, requests, MatchInv, ClockInv, ClockTypeOK,
                                        SidesAreLabelled, ClockOnMover
<1>6. CASE turn' = p
  BY <1>1, <1>3, <1>6 DEF LayOpeningStone, HandOver, timer, requests, MatchInv, ClockInv,
                          ClockTypeOK, SidesAreLabelled, ClockOnMover, Ongoing
<1> QED
  BY <1>5, <1>6

LEMMA ChooseMoreKeeps ==
  ASSUME MatchInv, NEW p \in Players, ChooseMore(p)
  PROVE  ClockInv'
<1>1. /\ phase = "p2choice" /\ phase' = "place2" /\ turn' = Second /\ status = "ongoing"
      /\ UNCHANGED <<timer, requests>>
  BY DEF ChooseMore, Swap2ChoosePlace
<1>2. turn = Second
  BY <1>1, InTheOpening DEF MatchInv, InOpeningState
<1> QED
  BY <1>1, <1>2 DEF timer, requests, MatchInv, ClockInv, ClockTypeOK, SidesAreLabelled,
                    ClockOnMover, Ongoing

\* White moves after the choice, and the clock that runs is White's.
LEMMA ChooseColourKeeps ==
  ASSUME MatchInv, IInv', NEW p \in Players, NEW k \in Colours, ChooseColour(p, k)
  PROVE  ClockInv'
<1> DEFINE fc == IF p = First THEN k ELSE CHOOSE o \in Colours : o # k
           b  == CHOOSE q \in Players : colour'[q] = "BLACK"
<1>1. /\ phase' = "play" /\ UNCHANGED <<running, requests>>
      /\ left' = Relabelled(b) /\ owner' = Labels(b) /\ active' = "white"
      /\ turn' = IF fc = "WHITE" THEN First ELSE Second
      /\ colour' = [q \in Players |->
                      IF q = First THEN fc ELSE CHOOSE o \in Colours : o # fc]
  BY DEF ChooseColour, Swap2ChooseColour, AssignColours
<1>2. fc \in Colours /\ \A o \in Colours : (CHOOSE x \in Colours : x # o) \in Colours \ {o}
  BY OtherColour
<1>3. /\ colour'[First] = fc
      /\ colour'[Second] \in Colours \ {fc}
  BY <1>1, <1>2, PlayersAssumption DEF Players
<1>4. \E q \in Players : colour'[q] = "BLACK"
  BY <1>2, <1>3 DEF Colours, Players
<1>5. b \in Players /\ colour'[b] = "BLACK"
  BY <1>4
<1>6. colour'[Opponent(b)] = "WHITE" /\ turn' = Opponent(b)
  BY <1>1, <1>2, <1>3, <1>5, PlayersAssumption DEF Opponent, Players, Colours
<1>7. left' \in [Sides -> Nat]
  BY <1>1, <1>5, ClocksStayNumbers DEF MatchInv, ClockInv, ClockTypeOK
<1>8. /\ owner' \in [Sides -> Players] /\ owner'["black"] # owner'["white"]
      /\ owner'["black"] = b /\ owner'["white"] = Opponent(b)
  BY <1>1, <1>5, LabelFacts
<1>9. ClockTypeOK'
  BY <1>1, <1>7, <1>8 DEF requests, MatchInv, ClockInv, ClockTypeOK, Sides
<1>10. SidesAreLabelled' /\ ClockOnMover'
  BY <1>1, <1>5, <1>6, <1>8 DEF SidesAreLabelled, ClockOnMover
<1> QED
  BY <1>9, <1>10 DEF ClockInv

LEMMA PlayUndoKeeps ==
  ASSUME MatchInv, NEW p \in Players, GrantPlayUndo(p)
  PROVE  ClockInv'
<1>1. /\ undoOffer.mode = "play" /\ undoOffer.from = Opponent(p)
      /\ turn' = undoOffer.from /\ UNCHANGED opening
      /\ SwitchTurn(ColourSide(undoOffer.from)) /\ UNCHANGED requests
  BY DEF GrantPlayUndo, AcceptPlayUndo
<1>2. phase = "play" /\ undoOffer.from \in Players
  BY <1>1, OpponentFacts DEF MatchInv, IInv, UndoRequestApplies
<1>3. ColourSide(undoOffer.from) \in Sides /\ owner[ColourSide(undoOffer.from)] = undoOffer.from
  BY <1>2, ColourSideIsOwned DEF MatchInv
<1>4. left' \in [Sides -> Nat]
  BY <1>1, <1>3, ClocksStayNumbers DEF SwitchTurn, MatchInv, ClockInv, ClockTypeOK
<1> QED
  BY <1>1, <1>2, <1>3, <1>4 DEF SwitchTurn, requests, opening, MatchInv, ClockInv,
                                ClockTypeOK, SidesAreLabelled, ClockOnMover

\* An opening undo lands where the sides stand for First and Second.
LEMMA OpeningUndoKeeps ==
  ASSUME MatchInv, IInv', NEW p \in Players, GrantOpeningUndo(p)
  PROVE  ClockInv'
<1>1. /\ undoOffer.mode = "opening"
      /\ phase' = snapshots[Len(snapshots)].phase
      /\ left' = Credited(Relabelled(First), Other(OpeningSide(turn')))
      /\ active' = OpeningSide(turn')
      /\ owner' = Labels(First)
      /\ UNCHANGED <<running, requests>>
  BY DEF GrantOpeningUndo, AcceptOpeningUndo, OpeningLabels
<1>2. phase' # "play"
  <2>1. snapshots \in Seq(Snapshot) /\ snapshots # << >>
    BY <1>1 DEF MatchInv, IInv, TypeOK, UndoRequestApplies
  <2>2. snapshots[Len(snapshots)] \in Snapshot
    BY <2>1
  <2> QED
    BY <1>1, <2>2 DEF Snapshot
<1>3. turn' \in Players /\ First \in Players
  BY DEF IInv, TypeOK, Players
<1>4. /\ owner' \in [Sides -> Players] /\ owner'["black"] = First
      /\ owner'["black"] # owner'["white"]
  BY <1>1, <1>3, LabelFacts
<1>5. OpeningSide(turn') \in Sides /\ owner'[OpeningSide(turn')] = turn'
  BY <1>3, <1>4, OpeningSideIsOwned
<1>6. left' \in [Sides -> Nat]
  BY <1>1, <1>3, <1>5, ClocksStayNumbers DEF MatchInv, ClockInv, ClockTypeOK
<1> QED
  BY <1>1, <1>2, <1>4, <1>5, <1>6 DEF requests, MatchInv, ClockInv, ClockTypeOK,
                                      SidesAreLabelled, ClockOnMover

\* Talk, and the end of the game by word.
LEMMA TalkKeepsClock ==
  ASSUME MatchInv, NEW p \in Players,
         EndByWord(p) \/ TalkDraw(p) \/ AskUndo(p) \/ RefuseUndo(p)
  PROVE  ClockInv'
<1>1. CASE EndByWord(p)
  <2>1. StopForGood /\ status' = "finished" /\ UNCHANGED opening
    BY <1>1 DEF EndByWord, Resign, AcceptDraw, Finish
  <2> QED
    BY <2>1 DEF StopForGood, opening, MatchInv, ClockInv, ClockTypeOK, SidesAreLabelled,
                ClockOnMover, Ongoing
<1>2. CASE TalkDraw(p) \/ AskUndo(p) \/ RefuseUndo(p)
  <2>1. UNCHANGED <<turn, outcome, opening, timer, requests>>
    BY <1>2 DEF TalkDraw, AskUndo, RefuseUndo, OfferDraw, DeclineDraw, RequestOpeningUndo,
                RequestPlayUndo, DeclineUndo
  <2> QED
    BY <2>1 DEF outcome, opening, timer, requests, MatchInv, ClockInv, ClockTypeOK,
                SidesAreLabelled, ClockOnMover, Ongoing
<1> QED
  BY <1>1, <1>2

LEMMA TimeRequestKeepsClock ==
  ASSUME MatchInv, NEW p \in Players,
         TakeFreeTime(p) \/ AskTime(p) \/ GrantTime(p) \/ RefuseTime(p)
  PROVE  ClockInv'
<1>1. ASSUME NEW q \in Players, AddTime(q)
      PROVE  left' \in [Sides -> Nat] /\ UNCHANGED <<owner, active, running>>
  <2>1. ColourSide(q) \in Sides /\ left \in [Sides -> Nat] /\ Bonus \in Nat
    BY ClockAssumption DEF ColourSide, Sides, MatchInv, ClockInv, ClockTypeOK
  <2> QED
    BY <1>1, <2>1 DEF AddTime
<1>2. CASE TakeFreeTime(p)
  <2>1. used' \in [Players -> 0..FreeRequests]
    BY <1>2, ClockAssumption DEF TakeFreeTime, MatchInv, ClockInv, ClockTypeOK
  <2> QED
    BY <1>1, <1>2, <2>1 DEF TakeFreeTime, vars, outcome, opening, MatchInv, ClockInv,
         ClockTypeOK, SidesAreLabelled, ClockOnMover, Ongoing
<1>3. CASE GrantTime(p)
  <2>1. asking \in Players
    BY <1>3, OpponentFacts DEF GrantTime
  <2> QED
    BY <1>1, <1>3, <2>1 DEF GrantTime, vars, outcome, opening, MatchInv, ClockInv,
         ClockTypeOK, SidesAreLabelled, ClockOnMover, Ongoing
<1>4. CASE AskTime(p) \/ RefuseTime(p)
  BY <1>4 DEF AskTime, RefuseTime, timer, vars, outcome, opening, MatchInv, ClockInv,
       ClockTypeOK, SidesAreLabelled, ClockOnMover, Ongoing
<1> QED
  BY <1>2, <1>3, <1>4

LEMMA ClockStepKeepsClock ==
  ASSUME MatchInv, Tick \/ TimeUp \/ Pause \/ Resume
  PROVE  ClockInv'
<1>1. left' \in [Sides -> Nat]
  <2>1. left \in [Sides -> Nat] /\ active \in Sides
    BY DEF MatchInv, ClockInv, ClockTypeOK
  <2> QED
    BY <2>1 DEF Tick, TimeUp, Pause, Resume
<1>2. CASE TimeUp
  <2>1. status' = "finished" /\ UNCHANGED opening
    BY <1>2 DEF TimeUp, HandleTimeout, Finish
  <2> QED
    BY <1>1, <1>2, <2>1 DEF TimeUp, opening, MatchInv, ClockInv, ClockTypeOK,
         SidesAreLabelled, ClockOnMover, Ongoing
<1>3. CASE Tick \/ Pause \/ Resume
  BY <1>1, <1>3 DEF Tick, Pause, Resume, requests, vars, outcome, opening, MatchInv,
       ClockInv, ClockTypeOK, SidesAreLabelled, ClockOnMover, Ongoing
<1> QED
  BY <1>2, <1>3

LEMMA MatchNextInv == MatchInv /\ [MatchNext]_matchVars => MatchInv'
<1> SUFFICES ASSUME MatchInv, [MatchNext]_matchVars PROVE MatchInv'
  OBVIOUS
<1>1. IInv'
  BY StepsAreGameSteps, NextInv DEF MatchInv, ClockInv
<1>2. ClockInv'
  <2>1. CASE UNCHANGED matchVars
    BY <2>1 DEF matchVars, vars, outcome, opening, timer, requests, MatchInv, ClockInv,
         ClockTypeOK, SidesAreLabelled, ClockOnMover, Ongoing
  <2>2. ASSUME NEW p \in Players, NEW c \in Cells, PlayMove(p, c) PROVE ClockInv'
    BY <1>1, <2>2, PlayMoveKeeps
  <2>3. ASSUME NEW p \in Players, NEW c \in Cells, LayOpeningStone(p, c) PROVE ClockInv'
    BY <1>1, <2>3, OpeningStoneKeeps
  <2>4. ASSUME NEW p \in Players, ChooseMore(p) PROVE ClockInv'
    BY <2>4, ChooseMoreKeeps
  <2>5. ASSUME NEW p \in Players, NEW k \in Colours, ChooseColour(p, k) PROVE ClockInv'
    BY <1>1, <2>5, ChooseColourKeeps
  <2>6. ASSUME NEW p \in Players, GrantPlayUndo(p) PROVE ClockInv'
    BY <2>6, PlayUndoKeeps
  <2>7. ASSUME NEW p \in Players, GrantOpeningUndo(p) PROVE ClockInv'
    BY <1>1, <2>7, OpeningUndoKeeps
  <2> QED
    BY <2>1, <2>2, <2>3, <2>4, <2>5, <2>6, <2>7, TalkKeepsClock, TimeRequestKeepsClock,
       ClockStepKeepsClock DEF MatchNext
<1> QED
  BY <1>1, <1>2 DEF MatchInv

-----------------------------------------------------------------------------
(***************************************************************************)
(* The theorems.                                                           *)
(***************************************************************************)

THEOREM MatchInvariance == MatchSpec => []MatchInv
BY MatchInitInv, MatchNextInv, PTL DEF MatchSpec

\* The handlers and the clock together play the engine's game: whatever is
\* proved of GameEngine's Spec holds in a match.
THEOREM MatchPlaysTheGame == MatchSpec => Spec
<1>1. MatchInit => Init
  BY DEF MatchInit
<1>2. MatchInv /\ [MatchNext]_matchVars => [Next]_vars
  BY StepsAreGameSteps DEF MatchInv, ClockInv
<1> QED
  BY <1>1, <1>2, MatchInvariance, PTL DEF MatchSpec, Spec

\* In every match the clock that is set to run is that of the player to move.
THEOREM ClockOnMoverCorrect == MatchSpec => []ClockOnMover
<1>1. MatchInv => ClockOnMover
  BY DEF MatchInv, ClockInv
<1> QED
  BY <1>1, MatchInvariance, PTL

\* The sides of the clock carry the right players' labels through the opening,
\* the choice of colours and its undoing.
THEOREM SidesCorrect == MatchSpec => []SidesAreLabelled
<1>1. MatchInv => SidesAreLabelled
  BY DEF MatchInv, ClockInv
<1> QED
  BY <1>1, MatchInvariance, PTL

\* Only a clock that runs out ends a game by timeout, and it is the loss of the
\* player who was to move.
THEOREM TimeoutCorrect == MatchSpec => TimeoutLosesTurn
<1>1. ASSUME MatchInv, MatchNext, result.reason # "timeout", result'.reason = "timeout"
      PROVE  result'.winner = Opponent(turn)
  <2>1. CASE TimeUp
    <3>1. status = "ongoing" /\ result'.winner = Opponent(owner[active])
      BY <2>1 DEF TimeUp, HandleTimeout, Finish
    <3>2. owner[active] = turn
      BY <1>1, <3>1 DEF MatchInv, ClockInv, ClockOnMover, Ongoing
    <3> QED
      BY <3>1, <3>2
  <2>2. ASSUME NEW p \in Players, NEW c \in Cells, PlayMove(p, c)
        PROVE  FALSE
    BY <1>1, <2>2 DEF PlayMove, MakeMove, Finish, outcome
  <2>3. ASSUME NEW p \in Players, EndByWord(p)
        PROVE  FALSE
    BY <1>1, <2>3 DEF EndByWord, Resign, AcceptDraw, Finish
  <2>4. ASSUME NEW p \in Players,
               \/ \E c \in Cells : LayOpeningStone(p, c)
               \/ ChooseMore(p) \/ \E k \in Colours : ChooseColour(p, k)
               \/ TalkDraw(p) \/ AskUndo(p) \/ RefuseUndo(p)
               \/ GrantPlayUndo(p) \/ GrantOpeningUndo(p)
        PROVE  UNCHANGED result
    BY <2>4 DEF LayOpeningStone, PlaceOpeningStone, ChooseMore, Swap2ChoosePlace, ChooseColour,
         Swap2ChooseColour, TalkDraw, OfferDraw, DeclineDraw, AskUndo, RequestOpeningUndo,
         RequestPlayUndo, RefuseUndo, DeclineUndo, GrantPlayUndo, AcceptPlayUndo,
         GrantOpeningUndo, AcceptOpeningUndo, outcome
  <2>5. ASSUME NEW p \in Players, TakeFreeTime(p) \/ AskTime(p) \/ GrantTime(p) \/ RefuseTime(p)
        PROVE  UNCHANGED result
    BY <2>5 DEF TakeFreeTime, AskTime, GrantTime, RefuseTime, vars, outcome
  <2>6. CASE Tick \/ Pause \/ Resume
    BY <1>1, <2>6 DEF Tick, Pause, Resume, vars, outcome
  <2> QED
    BY <1>1, <2>1, <2>2, <2>3, <2>4, <2>5, <2>6 DEF MatchNext
<1>2. MatchInv /\ [MatchNext]_matchVars =>
        [result.reason # "timeout" /\ result'.reason = "timeout" =>
           result'.winner = Opponent(turn)]_matchVars
  BY <1>1
<1> QED
  BY <1>2, MatchInvariance, PTL DEF MatchSpec, TimeoutLosesTurn

-----------------------------------------------------------------------------
(***************************************************************************)
(* Whose seconds are spent.  Only a game that goes on has a clock that     *)
(* runs, which Tick does not ask again.                                    *)
(***************************************************************************)
RunsWhileOngoing == running => Ongoing

LEMMA RunsWhileOngoingKept ==
  ASSUME RunsWhileOngoing, [MatchNext]_matchVars
  PROVE  RunsWhileOngoing'
<1>1. CASE UNCHANGED matchVars
  BY <1>1 DEF matchVars, vars, outcome, timer, RunsWhileOngoing, Ongoing
<1>2. ASSUME NEW p \in Players, NEW c \in Cells, PlayMove(p, c)
      PROVE  RunsWhileOngoing'
  BY <1>2 DEF PlayMove, MakeMove, Finish, outcome, StopForGood, SwitchTurn, RunsWhileOngoing, Ongoing
<1>3. ASSUME NEW p \in Players, NEW c \in Cells, LayOpeningStone(p, c)
      PROVE  RunsWhileOngoing'
  BY <1>3 DEF LayOpeningStone, PlaceOpeningStone, outcome, HandOver, SwitchTurn, timer,
       RunsWhileOngoing, Ongoing
<1>4. ASSUME NEW p \in Players, ChooseMore(p) \/ \E k \in Colours : ChooseColour(p, k)
      PROVE  RunsWhileOngoing'
  BY <1>4 DEF ChooseMore, Swap2ChoosePlace, ChooseColour, Swap2ChooseColour, outcome, timer,
       RunsWhileOngoing, Ongoing
<1>5. ASSUME NEW p \in Players, EndByWord(p)
      PROVE  RunsWhileOngoing'
  BY <1>5 DEF EndByWord, StopForGood, RunsWhileOngoing
<1>6. ASSUME NEW p \in Players, TalkDraw(p) \/ AskUndo(p) \/ RefuseUndo(p)
      PROVE  RunsWhileOngoing'
  BY <1>6 DEF TalkDraw, OfferDraw, DeclineDraw, AskUndo, RequestOpeningUndo, RequestPlayUndo,
       RefuseUndo, DeclineUndo, outcome, timer, RunsWhileOngoing, Ongoing
<1>7. ASSUME NEW p \in Players, GrantPlayUndo(p) \/ GrantOpeningUndo(p)
      PROVE  RunsWhileOngoing'
  BY <1>7 DEF GrantPlayUndo, AcceptPlayUndo, GrantOpeningUndo, AcceptOpeningUndo, SwitchTurn,
       outcome, RunsWhileOngoing, Ongoing
<1>8. ASSUME NEW p \in Players, TakeFreeTime(p) \/ AskTime(p) \/ GrantTime(p) \/ RefuseTime(p)
      PROVE  RunsWhileOngoing'
  BY <1>8 DEF TakeFreeTime, AskTime, GrantTime, RefuseTime, AddTime, timer, vars, outcome,
       RunsWhileOngoing, Ongoing
<1>9. CASE Tick \/ TimeUp \/ Pause \/ Resume
  BY <1>9 DEF Tick, TimeUp, Pause, Resume, vars, outcome, RunsWhileOngoing, Ongoing
<1> QED
  BY <1>1, <1>2, <1>3, <1>4, <1>5, <1>6, <1>7, <1>8, <1>9 DEF MatchNext

\* A player's time is that of the one side with their label.
LEMMA TimeOfOwner ==
  ASSUME ClockTypeOK, owner["black"] # owner["white"]
  PROVE  /\ TimeOf(owner["black"]) = left["black"]
         /\ TimeOf(owner["white"]) = left["white"]
         /\ \A s \in Sides : TimeOf(owner[s]) = left[s]
         /\ \A p \in Players : \E s \in Sides : owner[s] = p
<1>1. owner["black"] \in Players /\ owner["white"] \in Players /\ owner["black"] # owner["white"]
  BY DEF ClockTypeOK, Sides
<1>2. /\ (CHOOSE s \in Sides : owner[s] = owner["black"]) = "black"
      /\ (CHOOSE s \in Sides : owner[s] = owner["white"]) = "white"
  BY <1>1 DEF Sides
<1>3. \A p \in Players : p = owner["black"] \/ p = owner["white"]
  BY <1>1 DEF Players
<1> QED
  BY <1>2, <1>3 DEF TimeOf, Sides

\* Steps that keep the labels take no player's seconds if they take no side's.
LEMMA SameLabelsSameTime ==
  ASSUME ClockTypeOK, owner["black"] # owner["white"], owner' = owner,
         NEW p \in Players
  PROVE  \E s \in Sides : owner[s] = p /\ TimeOf(p) = left[s] /\ TimeOf(p)' = left'[s]
<1>1. PICK s \in Sides : owner[s] = p
  BY TimeOfOwner
<1>2. TimeOf(p) = left[s]
  BY <1>1, TimeOfOwner
<1>3. TimeOf(p)' = left'[s]
  <2>1. /\ (CHOOSE t \in Sides : owner'[t] = owner'["black"]) = "black"
        /\ (CHOOSE t \in Sides : owner'[t] = owner'["white"]) = "white"
    BY DEF ClockTypeOK, Sides
  <2> QED
    BY <1>1, <2>1 DEF TimeOf, Sides
<1> QED
  BY <1>1, <1>2, <1>3

\* Relabelling takes the seconds along.
LEMMA RelabellingKeepsTime ==
  ASSUME ClockTypeOK, owner["black"] # owner["white"], NEW b \in Players, owner' = Labels(b),
         NEW p \in Players
  PROVE  \E s \in Sides : /\ owner'[s] = p
                          /\ TimeOf(p) = Relabelled(b)[s]
                          /\ TimeOf(p)' = left'[s]
<1>1. /\ owner'["black"] = b /\ owner'["white"] = Opponent(b)
      /\ Opponent(b) \in Players /\ Opponent(b) # b /\ (p = b \/ p = Opponent(b))
  BY LabelFacts, OpponentFacts DEF Players
<1>2. /\ owner["black"] \in Players /\ owner["white"] \in Players
      /\ owner["black"] # owner["white"]
      /\ owner["black"] = b => owner["white"] = Opponent(b)
      /\ owner["black"] # b => owner["black"] = Opponent(b) /\ owner["white"] = b
  BY <1>1 DEF ClockTypeOK, Sides, Players
<1>3. /\ (CHOOSE t \in Sides : owner'[t] = b) = "black"
      /\ (CHOOSE t \in Sides : owner'[t] = Opponent(b)) = "white"
  BY <1>1 DEF Sides
<1>4. TimeOf(b)' = left'["black"] /\ TimeOf(Opponent(b))' = left'["white"]
  BY <1>3 DEF TimeOf
<1>5. /\ TimeOf(b) = Relabelled(b)["black"]
      /\ TimeOf(Opponent(b)) = Relabelled(b)["white"]
  <2>1. CASE owner["black"] = b
    BY <1>2, <2>1, TimeOfOwner DEF Relabelled
  <2>2. CASE owner["black"] # b
    BY <1>2, <2>2, TimeOfOwner DEF Relabelled, Other, Sides
  <2> QED
    BY <2>1, <2>2
<1>6. "black" \in Sides /\ "white" \in Sides
  BY DEF Sides
<1>7. CASE p = b
  BY <1>1, <1>4, <1>5, <1>6, <1>7
<1>8. CASE p = Opponent(b)
  BY <1>1, <1>4, <1>5, <1>6, <1>8
<1> QED
  BY <1>1, <1>7, <1>8

\* Unless each move starts afresh a credit takes nothing from either side.
LEMMA CreditGives ==
  ASSUME Mode # "per_move", NEW f \in [Sides -> Nat], NEW s \in Sides, NEW t \in Sides
  PROVE  Credited(f, s)[t] >= f[t]
<1>1. f[t] \in Nat /\ f[s] \in Nat /\ Increment \in Nat
  BY ClockAssumption
<1> QED
  BY <1>1 DEF Credited

\* The clock ticks, or no side of it loses anything but by being relabelled.
LEMMA HandlersTakeNoTime ==
  ASSUME MatchInv, MatchInv', Mode # "per_move", MatchNext, ~Tick, ~TimeUp
  PROVE  \/ owner' = owner /\ \A s \in Sides : left'[s] >= left[s]
         \/ \E b \in Players : /\ owner' = Labels(b)
                               /\ \A s \in Sides : left'[s] >= Relabelled(b)[s]
<1> DEFINE Goal == \/ owner' = owner /\ \A s \in Sides : left'[s] >= left[s]
                   \/ \E b \in Players : /\ owner' = Labels(b)
                                         /\ \A s \in Sides : left'[s] >= Relabelled(b)[s]
<1>1. /\ left \in [Sides -> Nat] /\ \A s \in Sides : left[s] \in Nat
      /\ \A s \in Sides : Other(s) \in Sides
      /\ \A b \in Players : Relabelled(b) \in [Sides -> Nat]
  BY ClocksStayNumbers DEF MatchInv, ClockInv, ClockTypeOK
<1>2. ASSUME UNCHANGED timer \/ UNCHANGED <<left, owner>> PROVE Goal
  BY <1>1, <1>2 DEF timer
<1>3. ASSUME NEW s \in Sides, SwitchTurn(s) PROVE Goal
  BY <1>1, <1>3, CreditGives DEF SwitchTurn
<1>4. ASSUME NEW p \in Players, AddTime(p) PROVE Goal
  <2>1. Bonus \in Nat /\ ColourSide(p) \in Sides
    BY ClockAssumption DEF ColourSide, Sides
  <2> QED
    BY <1>1, <1>4, <2>1 DEF AddTime
<1>5. ASSUME NEW p \in Players, NEW c \in Cells, PlayMove(p, c) PROVE Goal
  <2>1. ColourSide(turn') \in Sides
    BY DEF ColourSide, Sides
  <2> QED
    BY <1>2, <1>3, <1>5, <2>1 DEF PlayMove, StopForGood
<1>6. ASSUME NEW p \in Players, NEW c \in Cells, LayOpeningStone(p, c) PROVE Goal
  <2>1. OpeningSide(turn') \in Sides
    BY DEF OpeningSide, Sides
  <2> QED
    BY <1>2, <1>3, <1>6, <2>1 DEF LayOpeningStone, HandOver
<1>7. ASSUME NEW p \in Players, NEW k \in Colours, ChooseColour(p, k) PROVE Goal
  <2> DEFINE b == CHOOSE q \in Players : colour'[q] = "BLACK"
  <2>1. left' = Relabelled(b) /\ owner' = Labels(b)
    BY <1>7 DEF ChooseColour
  <2>2. phase' = "play"
    BY <1>7 DEF ChooseColour, Swap2ChooseColour, AssignColours
  <2>3. owner'["black"] \in Players /\ colour'[owner'["black"]] = "BLACK"
    BY <2>2 DEF MatchInv, ClockInv, ClockTypeOK, SidesAreLabelled, Sides
  <2>4. b \in Players
    BY <2>3
  <2> HIDE DEF b
  <2>5. \A s \in Sides : Relabelled(b)[s] \in Nat
    BY <1>1, <2>4
  <2>6. \A s \in Sides : left'[s] >= Relabelled(b)[s]
    BY <2>1, <2>5
  <2> QED
    BY <2>1, <2>4, <2>6
<1>8. ASSUME NEW p \in Players, GrantPlayUndo(p) PROVE Goal
  <2>1. ColourSide(undoOffer.from) \in Sides
    BY DEF ColourSide, Sides
  <2> QED
    BY <1>3, <1>8, <2>1 DEF GrantPlayUndo
<1>9. ASSUME NEW p \in Players, GrantOpeningUndo(p) PROVE Goal
  <2>1. First \in Players /\ Other(OpeningSide(turn')) \in Sides
    BY <1>1 DEF Players, OpeningSide, Sides
  <2>2. /\ left' = Credited(Relabelled(First), Other(OpeningSide(turn')))
        /\ owner' = Labels(First)
    BY <1>9 DEF GrantOpeningUndo, OpeningLabels
  <2>3. \A s \in Sides : left'[s] >= Relabelled(First)[s]
    BY <1>1, <2>1, <2>2, CreditGives
  <2> QED
    BY <2>1, <2>2, <2>3
<1>10. ASSUME NEW p \in Players, GrantTime(p) PROVE Goal
  <2>1. asking \in Players
    BY <1>10, OpponentFacts DEF GrantTime
  <2> QED
    BY <1>4, <1>10, <2>1 DEF GrantTime
<1>11. ASSUME NEW p \in Players,
              \/ ChooseMore(p) \/ EndByWord(p) \/ TalkDraw(p) \/ AskUndo(p) \/ RefuseUndo(p)
              \/ AskTime(p) \/ RefuseTime(p)
       PROVE  UNCHANGED timer \/ UNCHANGED <<left, owner>>
  BY <1>11 DEF ChooseMore, EndByWord, StopForGood, TalkDraw, AskUndo, RefuseUndo, AskTime,
       RefuseTime
<1>12. ASSUME Pause \/ Resume PROVE UNCHANGED <<left, owner>>
  BY <1>12 DEF Pause, Resume
<1>13. ASSUME NEW p \in Players, TakeFreeTime(p) PROVE Goal
  BY <1>4, <1>13 DEF TakeFreeTime
<1> HIDE DEF Goal
<1>14. Goal
  BY <1>2, <1>5, <1>6, <1>7, <1>8, <1>9, <1>10, <1>11, <1>12, <1>13 DEF MatchNext
<1> QED
  BY <1>14 DEF Goal

\* ... and the clock that ticks is that of the player to move.
LEMMA TickTakesMoversSecond ==
  ASSUME MatchInv, MatchInv', RunsWhileOngoing, Tick \/ TimeUp, NEW p \in Players,
         TimeOf(p)' < TimeOf(p)
  PROVE  p = turn /\ TimeOf(p)' = TimeOf(p) - 1
<1>1. /\ ClockTypeOK /\ owner["black"] # owner["white"]
      /\ left \in [Sides -> Nat] /\ active \in Sides
  BY DEF MatchInv, ClockInv, ClockTypeOK, SidesAreLabelled
<1>2. owner' = owner
  BY DEF Tick, TimeUp
<1>3. PICK s \in Sides : owner[s] = p /\ TimeOf(p) = left[s] /\ TimeOf(p)' = left'[s]
  BY <1>1, <1>2, SameLabelsSameTime
<1>4. owner[active] = turn
  <2>1. running
    BY DEF Tick, TimeUp
  <2> QED
    BY <2>1 DEF RunsWhileOngoing, MatchInv, ClockInv, ClockOnMover
<1>5. left[s] \in Nat /\ left[active] \in Nat
  BY <1>1, <1>3
<1>6. CASE Tick
  <2>1. left' = [left EXCEPT ![active] = left[active] - 1]
    BY <1>6 DEF Tick
  <2>2. s = active /\ left'[s] = left[s] - 1
    BY <1>1, <1>3, <1>5, <2>1
  <2> QED
    BY <1>3, <1>4, <2>2
<1>7. CASE TimeUp
  <2>1. left' = [left EXCEPT ![active] = 0] /\ left[active] <= 1
    BY <1>7 DEF TimeUp
  <2>2. s = active /\ left'[s] = left[s] - 1
    BY <1>1, <1>3, <1>5, <2>1
  <2> QED
    BY <1>3, <1>4, <2>2
<1> QED
  BY <1>6, <1>7

LEMMA SecondsAreSpentOnTurn ==
  ASSUME MatchInv, MatchInv', RunsWhileOngoing, Mode # "per_move", MatchNext,
         NEW p \in Players, TimeOf(p)' < TimeOf(p)
  PROVE  p = turn /\ TimeOf(p)' = TimeOf(p) - 1
<1>1. CASE Tick \/ TimeUp
  BY <1>1, TickTakesMoversSecond
<1>2. CASE ~Tick /\ ~TimeUp
  <2>1. /\ ClockTypeOK /\ owner["black"] # owner["white"]
        /\ \A s \in Sides : left[s] \in Nat /\ left'[s] \in Nat
        /\ \A b \in Players, s \in Sides : Relabelled(b)[s] \in Nat
    BY ClocksStayNumbers DEF MatchInv, ClockInv, ClockTypeOK, SidesAreLabelled
  <2>2. CASE owner' = owner /\ \A s \in Sides : left'[s] >= left[s]
    <3>1. PICK s \in Sides : TimeOf(p) = left[s] /\ TimeOf(p)' = left'[s]
      BY <2>1, <2>2, SameLabelsSameTime
    <3> QED
      BY <2>1, <2>2, <3>1
  <2>3. ASSUME NEW b \in Players, owner' = Labels(b),
               \A s \in Sides : left'[s] >= Relabelled(b)[s]
        PROVE  FALSE
    <3>1. PICK s \in Sides : TimeOf(p) = Relabelled(b)[s] /\ TimeOf(p)' = left'[s]
      BY <2>1, <2>3, RelabellingKeepsTime
    <3> QED
      BY <2>1, <2>3, <3>1
  <2> QED
    BY <1>2, <2>2, <2>3, HandlersTakeNoTime
<1> QED
  BY <1>1, <1>2

LEMMA RunsWhileOngoingAlways == MatchSpec => []RunsWhileOngoing
<1>1. MatchInit => RunsWhileOngoing
  BY DEF MatchInit, Init, RunsWhileOngoing, Ongoing
<1> QED
  BY <1>1, RunsWhileOngoingKept, PTL DEF MatchSpec

\* With a clock for the whole game no player's seconds go down but one at a
\* time and while that player is to move, in a match of any length.
THEOREM TimeSpentCorrect == MatchSpec => TimeIsSpentOnTurn
<1>1. MatchInv /\ MatchInv' /\ RunsWhileOngoing /\ [MatchNext]_matchVars =>
        [Mode # "per_move" =>
           \A p \in Players : TimeOf(p)' < TimeOf(p) =>
             p = turn /\ TimeOf(p)' = TimeOf(p) - 1]_matchVars
  BY SecondsAreSpentOnTurn
<1> QED
  BY <1>1, MatchInvariance, RunsWhileOngoingAlways, PTL DEF MatchSpec, TimeIsSpentOnTurn

-----------------------------------------------------------------------------
(***************************************************************************)
(* The full clock of a move.  It is the side that waits which has it: a    *)
(* move and an undo fill it up as they hand the clock over.                *)
(***************************************************************************)
WaiterIsFresh == Ongoing => left[Other(active)] >= Seconds

FullClockOnTurn == turn' # turn => TimeOf(turn)' >= Seconds

LEMMA HandOverIsFresh ==
  ASSUME MatchInv, Mode = "per_move", WaiterIsFresh, Ongoing,
         NEW to \in Sides, SwitchTurn(to), owner[to] = turn'
  PROVE  WaiterIsFresh' /\ FullClockOnTurn
<1>1. /\ left \in [Sides -> Nat] /\ active \in Sides /\ Seconds \in Nat
      /\ owner \in [Sides -> Players] /\ owner["black"] # owner["white"]
      /\ owner[active] = turn
  BY ClockAssumption DEF MatchInv, ClockInv, ClockTypeOK, SidesAreLabelled, ClockOnMover
<1>2. /\ Other(to) \in Sides /\ Other(to) # to
      /\ left' = [left EXCEPT ![Other(to)] = Seconds] /\ active' = to /\ owner' = owner
  BY DEF SwitchTurn, Credited, Sides, Other
<1>3. left'[Other(active')] >= Seconds
  BY <1>1, <1>2
<1>4. ASSUME turn' # turn
      PROVE  TimeOf(turn)' >= Seconds
  <2>1. to = Other(active)
    BY <1>1, <1>4 DEF Other, Sides
  <2>2. left'[to] = left[to] /\ left[to] >= Seconds
    BY <1>1, <1>2, <2>1 DEF WaiterIsFresh
  <2>3. (CHOOSE s \in Sides : owner'[s] = turn') = to
    BY <1>1, <1>2 DEF Sides
  <2> QED
    BY <2>2, <2>3 DEF TimeOf
<1> QED
  BY <1>3, <1>4 DEF WaiterIsFresh, FullClockOnTurn

LEMMA NextIsFresh ==
  ASSUME MatchInv, ~Swap2, Mode = "per_move", WaiterIsFresh, [MatchNext]_matchVars
  PROVE  WaiterIsFresh' /\ FullClockOnTurn
<1>1. /\ left \in [Sides -> Nat] /\ active \in Sides /\ Seconds \in Nat
      /\ Other(active) \in Sides /\ Other(active) # active
      /\ phase = "play" /\ undoOffer.mode # "opening" /\ snapshots = << >>
  BY ClockAssumption, NoOpening DEF MatchInv, ClockInv, ClockTypeOK, Other, Sides
<1>2. ASSUME UNCHANGED <<turn, status, left, active>>
      PROVE  WaiterIsFresh' /\ FullClockOnTurn
  BY <1>2 DEF WaiterIsFresh, FullClockOnTurn, Ongoing
<1>3. ASSUME NEW p \in Players, NEW c \in Cells, PlayMove(p, c)
      PROVE  WaiterIsFresh' /\ FullClockOnTurn
  <2>1. CASE status' = "finished"
    <3>1. turn' = turn
      BY <1>3, <2>1 DEF PlayMove, MakeMove, outcome
    <3> QED
      BY <2>1, <3>1 DEF WaiterIsFresh, FullClockOnTurn, Ongoing
  <2>2. CASE status' # "finished"
    <3>1. turn' = Opponent(p) /\ Ongoing /\ SwitchTurn(ColourSide(turn'))
      BY <1>3, <2>2 DEF PlayMove, MakeMove, Finish, Ongoing
    <3>2. turn' \in Players /\ UNCHANGED colour
      BY <1>3, <3>1, OpponentFacts DEF PlayMove, MakeMove, opening
    <3>3. (ColourSide(turn') \in Sides /\ owner[ColourSide(turn')] = turn')
      BY <1>1, <3>2, ColourSideIsOwned DEF MatchInv
    <3> QED
      BY <3>1, <3>3, HandOverIsFresh
  <2> QED
    BY <2>1, <2>2
<1>4. ASSUME NEW p \in Players, GrantPlayUndo(p)
      PROVE  WaiterIsFresh' /\ FullClockOnTurn
  <2>1. /\ turn' = undoOffer.from /\ undoOffer.from = Opponent(p) /\ Ongoing
        /\ SwitchTurn(ColourSide(undoOffer.from))
    BY <1>4 DEF GrantPlayUndo, AcceptPlayUndo, Ongoing
  <2>2. undoOffer.from \in Players
    BY <2>1, OpponentFacts
  <2>3. ColourSide(undoOffer.from) \in Sides /\ owner[ColourSide(undoOffer.from)] = turn'
    BY <1>1, <2>1, <2>2, ColourSideIsOwned DEF MatchInv
  <2> QED
    BY <2>1, <2>3, HandOverIsFresh
<1>5. ASSUME NEW p \in Players
      PROVE  /\ \A c \in Cells : ~LayOpeningStone(p, c)
             /\ ~ChooseMore(p)
             /\ \A k \in Colours : ~ChooseColour(p, k)
             /\ ~GrantOpeningUndo(p)
  BY <1>1 DEF LayOpeningStone, PlaceOpeningStone, ChooseMore, Swap2ChoosePlace, ChooseColour,
       Swap2ChooseColour, GrantOpeningUndo, AcceptOpeningUndo
<1>6. ASSUME NEW p \in Players, EndByWord(p)
      PROVE  WaiterIsFresh' /\ FullClockOnTurn
  BY <1>6 DEF EndByWord, Resign, AcceptDraw, Finish, WaiterIsFresh, FullClockOnTurn, Ongoing
<1>7. ASSUME NEW p \in Players, TalkDraw(p) \/ AskUndo(p) \/ RefuseUndo(p)
      PROVE  UNCHANGED <<turn, status, left, active>>
  BY <1>7 DEF TalkDraw, OfferDraw, DeclineDraw, AskUndo, RequestOpeningUndo, RequestPlayUndo,
       RefuseUndo, DeclineUndo, outcome, timer
<1>8. ASSUME NEW p \in Players, AskTime(p) \/ RefuseTime(p)
      PROVE  UNCHANGED <<turn, status, left, active>>
  BY <1>8 DEF AskTime, RefuseTime, vars, outcome, timer
<1>9. ASSUME NEW p \in Players, AddTime(p), UNCHANGED vars
      PROVE  WaiterIsFresh' /\ FullClockOnTurn
  <2>1. /\ UNCHANGED <<turn, status, active>> /\ Bonus \in Nat
        /\ ColourSide(p) \in Sides
        /\ left' = [left EXCEPT ![ColourSide(p)] = left[ColourSide(p)] + Bonus]
    BY <1>9, ClockAssumption DEF AddTime, vars, outcome, ColourSide, Sides
  <2>2. left'[Other(active)] >= left[Other(active)]
    BY <1>1, <2>1
  <2>3. left[Other(active)] \in Nat /\ left'[Other(active)] \in Nat
    BY <1>1, <2>1
  <2> QED
    BY <1>1, <2>1, <2>2, <2>3 DEF WaiterIsFresh, FullClockOnTurn, Ongoing
<1>10. ASSUME NEW p \in Players, TakeFreeTime(p) \/ GrantTime(p)
       PROVE  WaiterIsFresh' /\ FullClockOnTurn
  <2>1. asking = Opponent(p) => asking \in Players
    BY OpponentFacts
  <2> QED
    BY <1>9, <1>10, <2>1 DEF TakeFreeTime, GrantTime
<1>11. CASE Tick
  <2>1. /\ UNCHANGED <<turn, status, active>>
        /\ left' = [left EXCEPT ![active] = left[active] - 1]
    BY <1>11 DEF Tick, vars, outcome
  <2> QED
    BY <1>1, <2>1 DEF WaiterIsFresh, FullClockOnTurn, Ongoing
<1>12. CASE TimeUp
  BY <1>12 DEF TimeUp, HandleTimeout, Finish, WaiterIsFresh, FullClockOnTurn, Ongoing
<1>13. CASE Pause \/ Resume
  BY <1>2, <1>13 DEF Pause, Resume, vars, outcome
<1>14. CASE UNCHANGED matchVars
  BY <1>2, <1>14 DEF matchVars, vars, outcome, timer
<1> QED
  BY <1>2, <1>3, <1>4, <1>5, <1>6, <1>7, <1>8, <1>10, <1>11, <1>12, <1>13, <1>14 DEF MatchNext

\* Without the Swap2 opening whoever is handed the turn has the whole time for
\* a move, after moves, undos, pauses and gifts of time in any order.
THEOREM FullClockCorrect ==
  ASSUME ~Swap2
  PROVE  MatchSpec => FullClockPerMove
<1> DEFINE Fresh == Mode = "per_move" => WaiterIsFresh
<1>1. MatchInit => Fresh
  BY ClockAssumption DEF MatchInit, WaiterIsFresh, Sides, Other
<1>2. MatchInv /\ Fresh /\ [MatchNext]_matchVars =>
        Fresh' /\ (Mode = "per_move" => FullClockOnTurn)
  BY NextIsFresh
<1>3. (Mode = "per_move" => FullClockOnTurn) =>
        [Mode = "per_move" /\ turn' # turn => TimeOf(turn)' >= Seconds]_matchVars
  BY DEF FullClockOnTurn
<1> QED
  BY <1>1, <1>2, <1>3, MatchInvariance, PTL DEF MatchSpec, FullClockPerMove

(***************************************************************************)
(* TournamentMatch.  Its handlers take the engine's steps and never an     *)
(* undo, so the engine's invariant carries over; the clock is on the right *)
(* side except where the handlers do not look at it, and what they give is *)
(* given to the side whose label never changes.                            *)
(***************************************************************************)
TmatchInv ==
  /\ IInv
  /\ ClockTypeOK
  /\ owner["black"] # owner["white"]
  /\ ClockStraysOnlyAtHandovers

\* A step of the tournament's handlers is a step of the engine, or none at all.
LEMMA TmatchStepsAreGameSteps ==
  ASSUME ClockTypeOK, [TmatchNext]_matchVars
  PROVE  [Next]_vars
<1>1. CASE UNCHANGED matchVars
  BY <1>1 DEF matchVars
<1>2. ASSUME NEW p \in Players, NEW c \in Cells, TmatchMove(p, c) \/ TmatchSwap2Place(p, c)
      PROVE  Next
  BY <1>2 DEF TmatchMove, TmatchSwap2Place, Next
<1>3. ASSUME NEW p \in Players,
             \/ TmatchSwap2Choice(p) \/ TmatchResign(p) \/ TmatchDrawAccept(p)
             \/ TmatchTalkDraw(p)
      PROVE  Next
  BY <1>3 DEF TmatchSwap2Choice, TmatchResign, TmatchDrawAccept, TmatchTalkDraw, Next
<1>4. ASSUME NEW p \in Players,
             \/ TmatchRequestFreeTime(p) \/ TmatchRequestTime(p)
             \/ TmatchTimeAccept(p) \/ TmatchTimeDecline(p)
      PROVE  UNCHANGED vars
  BY <1>4 DEF TmatchRequestFreeTime, TmatchRequestTime, TmatchTimeAccept, TmatchTimeDecline
<1>5. CASE Tick
  BY <1>5 DEF Tick
<1>6. CASE TimeUp
  <2>1. owner[active] \in Players
    BY DEF ClockTypeOK
  <2> QED
    BY <1>6, <2>1 DEF TimeUp, Next
<1> QED
  BY <1>1, <1>2, <1>3, <1>4, <1>5, <1>6 DEF TmatchNext

LEMMA StartMatchInv == StartMatch => TmatchInv
<1> SUFFICES ASSUME StartMatch PROVE TmatchInv
  OBVIOUS
<1>1. IInv
  BY InitInv DEF StartMatch
<1>2. PICK p \in Players : owner = [s \in Sides |-> IF s = "black" THEN p ELSE Opponent(p)]
  BY DEF StartMatch
<1>3. Opponent(p) \in Players /\ Opponent(p) # p
  BY OpponentFacts
<1>4. /\ owner \in [Sides -> Players]
      /\ owner["black"] = p /\ owner["white"] = Opponent(p)
  BY <1>2, <1>3 DEF Sides
<1>5. ClockTypeOK
  BY <1>4, ClockAssumption DEF StartMatch, ClockTypeOK, Sides, Players
<1>6. ClockStraysOnlyAtHandovers
  <2>1. active = "black" /\ turn = First /\ history = << >> /\ p \in {First, Second}
    BY DEF StartMatch, Init, Players
  <2>2. Len(history) = 0
    BY <2>1
  <2> QED
    BY <1>4, <2>1, <2>2 DEF ClockStraysOnlyAtHandovers, OddGame
<1> QED
  BY <1>1, <1>3, <1>4, <1>5, <1>6 DEF TmatchInv

\* The side of the clock that is a player's has their label.
LEMMA SlotIsOwned ==
  ASSUME ClockTypeOK, owner["black"] # owner["white"], NEW p \in Players
  PROVE  SlotOf(p) \in Sides /\ owner[SlotOf(p)] = p
<1>1. \E s \in Sides : owner[s] = p
  BY TimeOfOwner
<1> QED
  BY <1>1 DEF SlotOf

\* Handing the clock to a player puts it on their side.
LEMMA SwitchToPlayer ==
  ASSUME ClockTypeOK, owner["black"] # owner["white"], NEW p \in Players,
         SwitchTurn(SlotOf(p)), UNCHANGED requests
  PROVE  ClockTypeOK' /\ owner' = owner /\ owner'[active'] = p
<1>1. SlotOf(p) \in Sides /\ owner[SlotOf(p)] = p
  BY SlotIsOwned
<1>2. left' \in [Sides -> Nat]
  BY <1>1, ClocksStayNumbers DEF SwitchTurn, ClockTypeOK
<1> QED
  BY <1>1, <1>2 DEF SwitchTurn, requests, ClockTypeOK

LEMMA TmatchMoveKeeps ==
  ASSUME TmatchInv, IInv', NEW p \in Players, NEW c \in Cells, TmatchMove(p, c)
  PROVE  TmatchInv'
<1>1. CASE status' = "finished"
  BY <1>1 DEF TmatchMove, EndMatch, StopForGood, TmatchInv, ClockTypeOK,
              ClockStraysOnlyAtHandovers, Ongoing
<1>2. CASE status' # "finished"
  <2>1. turn' \in Players /\ SwitchTurn(SlotOf(turn')) /\ UNCHANGED requests
    BY <1>2 DEF TmatchMove, IInv, TypeOK
  <2>2. ClockTypeOK' /\ owner' = owner /\ owner'[active'] = turn'
    BY <2>1, SwitchToPlayer DEF TmatchInv
  <2> QED
    BY <2>2 DEF TmatchInv, ClockStraysOnlyAtHandovers
<1> QED
  BY <1>1, <1>2

\* In an odd game the clock stays on the wrong side through First's three stones.
LEMMA TmatchSwap2PlaceKeeps ==
  ASSUME TmatchInv, IInv', NEW p \in Players, NEW c \in Cells, TmatchSwap2Place(p, c)
  PROVE  TmatchInv'
<1>1. CASE turn' # p
  <2>1. turn' \in Players /\ SwitchTurn(SlotOf(turn')) /\ UNCHANGED requests
    BY <1>1 DEF TmatchSwap2Place, IInv, TypeOK
  <2>2. ClockTypeOK' /\ owner' = owner /\ owner'[active'] = turn'
    BY <2>1, SwitchToPlayer DEF TmatchInv
  <2> QED
    BY <2>2 DEF TmatchInv, ClockStraysOnlyAtHandovers
<1>2. CASE turn' = p
  <2>1. /\ UNCHANGED <<timer, requests>> /\ turn' = turn
        /\ status = "ongoing" /\ phase \in {"place3", "place2"}
    BY <1>2 DEF TmatchSwap2Place, PlaceOpeningStone
  <2>2. /\ InOpeningState(phase, Len(history), placed, turn, colour) /\ Swap2
        /\ Len(history) \in Nat
    BY <2>1, InTheOpening, LenProperties DEF TmatchInv, IInv, TypeOK
  <2>3. CASE phase = "place2"
    <3>1. turn = Second /\ turn # First
      BY <2>2, <2>3, PlayersAssumption DEF InOpeningState
    <3>2. owner[active] = turn
      BY <2>1, <3>1 DEF TmatchInv, ClockStraysOnlyAtHandovers, Ongoing
    <3> QED
      BY <2>1, <3>2 DEF TmatchInv, timer, requests, ClockTypeOK, ClockStraysOnlyAtHandovers
  <2>4. CASE phase = "place3"
    <3>1. turn = First /\ turn' # Second
      BY <2>1, <2>2, <2>4, PlayersAssumption DEF InOpeningState
    <3>2. phase' = "place3"
      BY <2>4, <3>1 DEF TmatchSwap2Place, PlaceOpeningStone
    <3>3. Len(history') < 3
      BY <3>2, InTheOpening DEF IInv, OpeningWellFormed, InOpeningState
    <3>4. owner[active] # turn => OddGame
      BY <2>1, <2>4 DEF TmatchInv, ClockStraysOnlyAtHandovers, Ongoing
    <3> QED
      BY <2>1, <2>2, <3>1, <3>3, <3>4 DEF TmatchInv, timer, requests, ClockTypeOK,
           ClockStraysOnlyAtHandovers, OddGame
  <2> QED
    BY <2>1, <2>3, <2>4
<1> QED
  BY <1>1, <1>2

\* ... and when a colour is taken the clock is not looked at.
LEMMA TmatchSwap2ChoiceKeeps ==
  ASSUME TmatchInv, IInv', NEW p \in Players, TmatchSwap2Choice(p)
  PROVE  TmatchInv'
<1>1. UNCHANGED <<timer, requests>> /\ owner' = owner
  BY DEF TmatchSwap2Choice, timer
<1>2. CASE Swap2ChoosePlace(p)
  <2>1. phase = "p2choice" /\ status = "ongoing" /\ turn' = Second
    BY <1>2 DEF Swap2ChoosePlace
  <2>2. turn = Second /\ turn # First
    BY <2>1, InTheOpening, PlayersAssumption DEF TmatchInv, InOpeningState
  <2>3. owner[active] = turn
    BY <2>1, <2>2 DEF TmatchInv, ClockStraysOnlyAtHandovers, Ongoing
  <2> QED
    BY <1>1, <2>1, <2>2, <2>3 DEF TmatchInv, timer, requests, ClockTypeOK,
         ClockStraysOnlyAtHandovers
<1>3. ASSUME NEW k \in Colours, Swap2ChooseColour(p, k)
      PROVE  TmatchInv'
  <2>1. /\ phase \in {"p2choice", "p1choice"} /\ phase' = "play"
        /\ playStart' = Len(history) /\ history' = history
    BY <1>3 DEF Swap2ChooseColour, AssignColours, stones
  <2>2. Swap2
    BY <2>1, InTheOpening DEF TmatchInv
  <2> QED
    BY <1>1, <2>1, <2>2 DEF TmatchInv, timer, requests, ClockTypeOK,
         ClockStraysOnlyAtHandovers
<1> QED
  BY <1>2, <1>3 DEF TmatchSwap2Choice

\* Talk, requests for time and the end of the game by word.
LEMMA TmatchTalkKeeps ==
  ASSUME TmatchInv, IInv', NEW p \in Players,
         \/ TmatchResign(p) \/ TmatchDrawAccept(p) \/ TmatchTalkDraw(p)
         \/ TmatchRequestTime(p) \/ TmatchTimeDecline(p)
  PROVE  TmatchInv'
<1>1. CASE TmatchResign(p) \/ TmatchDrawAccept(p)
  BY <1>1 DEF TmatchResign, Resign, TmatchDrawAccept, AcceptDraw, Finish, EndMatch, StopForGood,
       TmatchInv, ClockTypeOK, ClockStraysOnlyAtHandovers, Ongoing
<1>2. CASE TmatchTalkDraw(p) \/ TmatchRequestTime(p) \/ TmatchTimeDecline(p)
  <2>1. /\ UNCHANGED <<stones, turn, outcome, opening, timer, used>>
        /\ asking' \in {asking, p, None}
    BY <1>2 DEF TmatchTalkDraw, OfferDraw, DeclineDraw, TmatchRequestTime, TmatchTimeDecline,
         vars, requests
  <2> QED
    BY <2>1 DEF stones, outcome, opening, timer, TmatchInv, ClockTypeOK,
         ClockStraysOnlyAtHandovers, Ongoing, OddGame
<1> QED
  BY <1>1, <1>2

LEMMA TmatchTimeKeeps ==
  ASSUME TmatchInv, IInv', NEW p \in Players, TmatchRequestFreeTime(p) \/ TmatchTimeAccept(p)
  PROVE  TmatchInv'
<1>1. ASSUME NEW q \in Players, AddSlotTime(q)
      PROVE  left' \in [Sides -> Nat] /\ UNCHANGED <<owner, active, running>>
  <2>1. SlotOf(q) \in Sides /\ left \in [Sides -> Nat] /\ Bonus \in Nat
    BY SlotIsOwned, ClockAssumption DEF TmatchInv, ClockTypeOK
  <2> QED
    BY <1>1, <2>1 DEF AddSlotTime
<1>2. /\ left' \in [Sides -> Nat] /\ UNCHANGED <<owner, active, running, vars>>
      /\ used' \in [Players -> 0..FreeRequests] /\ asking' \in {asking, None}
  <2>1. CASE TmatchRequestFreeTime(p)
    <3>1. used' \in [Players -> 0..FreeRequests]
      BY <2>1, ClockAssumption DEF TmatchRequestFreeTime, TmatchInv, ClockTypeOK
    <3> QED
      BY <1>1, <2>1, <3>1 DEF TmatchRequestFreeTime
  <2>2. CASE TmatchTimeAccept(p)
    <3>1. asking \in Players
      BY <2>2, OpponentFacts DEF TmatchTimeAccept
    <3> QED
      BY <1>1, <2>2, <3>1 DEF TmatchTimeAccept, TmatchInv, ClockTypeOK
  <2> QED
    BY <2>1, <2>2
<1> QED
  BY <1>2 DEF vars, stones, outcome, opening, TmatchInv, ClockTypeOK,
       ClockStraysOnlyAtHandovers, Ongoing, OddGame

LEMMA TmatchClockKeeps ==
  ASSUME TmatchInv, IInv', Tick \/ TimeUp
  PROVE  TmatchInv'
<1>1. left' \in [Sides -> Nat]
  <2>1. left \in [Sides -> Nat] /\ active \in Sides
    BY DEF TmatchInv, ClockTypeOK
  <2> QED
    BY <2>1 DEF Tick, TimeUp
<1>2. CASE TimeUp
  BY <1>1, <1>2 DEF TimeUp, HandleTimeout, Finish, TmatchInv, ClockTypeOK,
       ClockStraysOnlyAtHandovers, Ongoing
<1>3. CASE Tick
  BY <1>1, <1>3 DEF Tick, requests, vars, stones, outcome, opening, TmatchInv, ClockTypeOK,
       ClockStraysOnlyAtHandovers, Ongoing, OddGame
<1> QED
  BY <1>2, <1>3

LEMMA TmatchNextInv == TmatchInv /\ [TmatchNext]_matchVars => TmatchInv'
<1> SUFFICES ASSUME TmatchInv, [TmatchNext]_matchVars PROVE TmatchInv'
  OBVIOUS
<1>1. IInv'
  BY TmatchStepsAreGameSteps, NextInv DEF TmatchInv
<1>2. CASE UNCHANGED matchVars
  BY <1>1, <1>2 DEF matchVars, vars, stones, outcome, opening, timer, requests, TmatchInv,
       ClockTypeOK, ClockStraysOnlyAtHandovers, Ongoing, OddGame
<1>3. CASE TmatchNext
  BY <1>1, <1>3, TmatchMoveKeeps, TmatchSwap2PlaceKeeps, TmatchSwap2ChoiceKeeps,
     TmatchTalkKeeps, TmatchTimeKeeps, TmatchClockKeeps DEF TmatchNext
<1> QED
  BY <1>2, <1>3

THEOREM TmatchInvariance == TmatchSpec => []TmatchInv
BY StartMatchInv, TmatchNextInv, PTL DEF TmatchSpec

\* A tournament game is a game of the engine: what is proved of GameEngine's
\* Spec holds of it too.
THEOREM TmatchPlaysTheGame == TmatchSpec => Spec
<1>1. StartMatch => Init
  BY DEF StartMatch
<1>2. TmatchInv /\ [TmatchNext]_matchVars => [Next]_vars
  BY TmatchStepsAreGameSteps DEF TmatchInv
<1> QED
  BY <1>1, <1>2, TmatchInvariance, PTL DEF TmatchSpec, Spec

\* The clock of a tournament game is on the wrong side only in the first turn
\* of an odd game and in the turn after a choice of colours.
THEOREM HandoversCorrect == TmatchSpec => []ClockStraysOnlyAtHandovers
<1>1. TmatchInv => ClockStraysOnlyAtHandovers
  BY DEF TmatchInv
<1> QED
  BY <1>1, TmatchInvariance, PTL

-----------------------------------------------------------------------------
(***************************************************************************)
(* Who gets the extra time.                                                *)
(***************************************************************************)

\* A bonus is its player's, and nobody else's time changes with it.
LEMMA BonusGoesToOwner ==
  ASSUME TmatchInv, NEW q \in Players, AddSlotTime(q), NEW p \in Players
  PROVE  TimeOf(p)' = (IF p = q THEN TimeOf(p) + Bonus ELSE TimeOf(p))
<1>1. SlotOf(q) \in Sides /\ owner[SlotOf(q)] = q
  BY SlotIsOwned DEF TmatchInv
<1>2. /\ owner' = owner /\ left \in [Sides -> Nat]
      /\ left' = [left EXCEPT ![SlotOf(q)] = left[SlotOf(q)] + Bonus]
  BY DEF AddSlotTime, TmatchInv, ClockTypeOK
<1>3. PICK s \in Sides : owner[s] = p /\ TimeOf(p) = left[s] /\ TimeOf(p)' = left'[s]
  BY <1>2, SameLabelsSameTime DEF TmatchInv
<1>4. p = q <=> s = SlotOf(q)
  BY <1>1, <1>3 DEF TmatchInv, Sides
<1> QED
  BY <1>1, <1>2, <1>3, <1>4

\* No other step counts a request, answers one in a game that goes on, or, with
\* a clock for the whole game, gives a side any time.
LEMMA OthersGiveNothing ==
  ASSUME TmatchInv, TmatchNext,
         \A p \in Players : ~TmatchRequestFreeTime(p) /\ ~TmatchTimeAccept(p)
  PROVE  /\ used' = used /\ owner' = owner
         /\ asking' = asking \/ status' # "ongoing" \/ left' = left
         /\ Mode = "per_game" => \A s \in Sides : left'[s] <= left[s]
<1> DEFINE Goal ==
             /\ used' = used /\ owner' = owner
             /\ asking' = asking \/ status' # "ongoing" \/ left' = left
             /\ Mode = "per_game" => \A s \in Sides : left'[s] <= left[s]
<1>1. \A s \in Sides : left[s] \in Nat
  BY DEF TmatchInv, ClockTypeOK
<1>2. ASSUME UNCHANGED <<timer, used>>
      PROVE  Goal
  BY <1>1, <1>2 DEF timer
<1>3. ASSUME NEW s \in Sides, SwitchTurn(s), UNCHANGED requests
      PROVE  Goal
  BY <1>1, <1>3 DEF SwitchTurn, Credited, requests
<1>4. ASSUME StopForGood
      PROVE  Goal
  BY <1>1, <1>4 DEF StopForGood
<1>5. ASSUME NEW p \in Players, NEW c \in Cells, TmatchMove(p, c) \/ TmatchSwap2Place(p, c)
      PROVE  Goal
  <2>1. turn' \in Players
    <3>1. [Next]_vars
      BY <1>5 DEF TmatchMove, TmatchSwap2Place, Next
    <3> QED
      BY <3>1, NextInv DEF TmatchInv, IInv, TypeOK
  <2>2. SlotOf(turn') \in Sides
    BY <2>1, SlotIsOwned DEF TmatchInv
  <2> QED
    BY <1>2, <1>3, <1>4, <1>5, <2>2 DEF TmatchMove, TmatchSwap2Place, EndMatch, requests
<1>6. ASSUME NEW p \in Players,
             \/ TmatchSwap2Choice(p) \/ TmatchResign(p) \/ TmatchDrawAccept(p)
             \/ TmatchTalkDraw(p) \/ TmatchRequestTime(p) \/ TmatchTimeDecline(p)
      PROVE  Goal
  BY <1>2, <1>4, <1>6 DEF TmatchSwap2Choice, TmatchResign, TmatchDrawAccept, EndMatch,
       TmatchTalkDraw, TmatchRequestTime, TmatchTimeDecline, requests
<1>7. CASE Tick
  <2>1. active \in Sides /\ left \in [Sides -> Nat]
    BY DEF TmatchInv, ClockTypeOK
  <2>2. \A s \in Sides : left'[s] <= left[s]
    BY <1>1, <1>7, <2>1 DEF Tick
  <2> QED
    BY <1>7, <2>2 DEF Tick, requests
<1>8. CASE TimeUp
  <2>1. active \in Sides /\ left \in [Sides -> Nat]
    BY DEF TmatchInv, ClockTypeOK
  <2>2. \A s \in Sides : left'[s] <= left[s]
    BY <1>1, <1>8, <2>1 DEF TimeUp
  <2> QED
    BY <1>8, <2>2 DEF TimeUp, HandleTimeout, Finish
<1>9. \/ \E p \in Players, c \in Cells : TmatchMove(p, c) \/ TmatchSwap2Place(p, c)
      \/ \E p \in Players :
           \/ TmatchSwap2Choice(p) \/ TmatchResign(p) \/ TmatchDrawAccept(p)
           \/ TmatchTalkDraw(p) \/ TmatchRequestTime(p) \/ TmatchTimeDecline(p)
      \/ Tick \/ TimeUp
  BY DEF TmatchNext
<1> QED
  BY <1>5, <1>6, <1>7, <1>8, <1>9

LEMMA TimeGoesToAsker ==
  ASSUME TmatchInv, TmatchNext, NEW p \in Players
  PROVE  /\ used'[p] > used[p] => TimeOf(p)' = TimeOf(p) + Bonus
         /\ asking = p /\ asking' = None /\ TimeOf(p)' # TimeOf(p) /\ status' = "ongoing"
              => TimeOf(p)' = TimeOf(p) + Bonus
         /\ TimeOf(p)' > TimeOf(p) => used'[p] > used[p] \/ asking = p \/ Mode # "per_game"
<1>1. /\ used[p] \in Nat /\ used \in [Players -> 0..FreeRequests]
      /\ ClockTypeOK /\ owner["black"] # owner["white"]
      /\ \A s \in Sides : left[s] \in Nat
  BY ClockAssumption DEF TmatchInv, ClockTypeOK
<1>2. PICK z \in Sides : owner[z] = p /\ TimeOf(p) = left[z]
  BY <1>1, TimeOfOwner
<1>3. ASSUME NEW q \in Players, TmatchRequestFreeTime(q)
      PROVE  /\ TimeOf(p)' = (IF p = q THEN TimeOf(p) + Bonus ELSE TimeOf(p))
             /\ used'[p] = (IF p = q THEN used[p] + 1 ELSE used[p])
  <2>1. AddSlotTime(q)
    BY <1>3 DEF TmatchRequestFreeTime
  <2> QED
    BY <1>1, <1>3, <2>1, BonusGoesToOwner DEF TmatchRequestFreeTime
<1>4. ASSUME NEW q \in Players, TmatchTimeAccept(q)
      PROVE  /\ TimeOf(p)' = (IF p = asking THEN TimeOf(p) + Bonus ELSE TimeOf(p))
             /\ used' = used
  <2>1. asking \in Players /\ AddSlotTime(asking)
    BY <1>4, OpponentFacts DEF TmatchTimeAccept
  <2> QED
    BY <1>4, <2>1, BonusGoesToOwner DEF TmatchTimeAccept
<1>5. ASSUME \A q \in Players : ~TmatchRequestFreeTime(q) /\ ~TmatchTimeAccept(q)
      PROVE  /\ used' = used
             /\ asking' = asking \/ status' # "ongoing" \/ TimeOf(p)' = TimeOf(p)
             /\ Mode = "per_game" => TimeOf(p)' <= TimeOf(p)
  <2>1. /\ used' = used /\ owner' = owner
        /\ asking' = asking \/ status' # "ongoing" \/ left' = left
        /\ Mode = "per_game" => \A s \in Sides : left'[s] <= left[s]
    BY <1>5, OthersGiveNothing
  <2>2. PICK s \in Sides : owner[s] = p /\ TimeOf(p) = left[s] /\ TimeOf(p)' = left'[s]
    BY <1>1, <2>1, SameLabelsSameTime
  <2> QED
    BY <2>1, <2>2
<1>6. None \notin Players /\ TimeOf(p) \in Nat
  BY <1>1, <1>2, PlayersAssumption
<1>7. CASE \E q \in Players : TmatchRequestFreeTime(q)
  <2>1. PICK q \in Players : TmatchRequestFreeTime(q)
    BY <1>7
  <2>2. asking = None
    BY <2>1 DEF TmatchRequestFreeTime, MayRequestTime
  <2> QED
    BY <1>1, <1>3, <1>6, <2>1, <2>2
<1>8. CASE \E q \in Players : TmatchTimeAccept(q)
  BY <1>1, <1>4, <1>6, <1>8
<1>9. CASE \A q \in Players : ~TmatchRequestFreeTime(q) /\ ~TmatchTimeAccept(q)
  <2>1. TimeOf(p)' > TimeOf(p) => Mode # "per_game"
    <3>1. PICK s \in Sides : TimeOf(p)' = left'[s]
      BY <1>1, <1>9, OthersGiveNothing, SameLabelsSameTime
    <3>2. left'[s] \in Nat
      BY <1>1, TmatchNextInv DEF TmatchInv, ClockTypeOK
    <3> QED
      BY <1>5, <1>6, <1>9, <3>1, <3>2
  <2> QED
    BY <1>1, <1>5, <1>6, <1>9, <2>1
<1> QED
  BY <1>7, <1>8, <1>9

\* In a tournament game the time somebody asked for is their own: in either
\* game of a pair, before and after the colours are taken.
THEOREM ExtraTimeCorrect == TmatchSpec => ExtraTimeGoesToAsker
<1>1. TmatchInv /\ [TmatchNext]_matchVars =>
        [\A p \in Players :
           /\ used'[p] > used[p] => TimeOf(p)' = TimeOf(p) + Bonus
           /\ asking = p /\ asking' = None /\ TimeOf(p)' # TimeOf(p) /\ status' = "ongoing"
                => TimeOf(p)' = TimeOf(p) + Bonus
           /\ TimeOf(p)' > TimeOf(p) => used'[p] > used[p] \/ asking = p \/ Mode # "per_game"]_matchVars
  BY TimeGoesToAsker
<1> QED
  BY <1>1, TmatchInvariance, PTL DEF TmatchSpec, ExtraTimeGoesToAsker

=============================================================================
