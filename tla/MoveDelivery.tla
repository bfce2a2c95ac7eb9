---------------------------- MODULE MoveDelivery ----------------------------
(***************************************************************************)
(* How a move gets to the server and back when packets are lost:           *)
(* game:move, game:resync and what they answer in                          *)
(* server/socket/handlers/GameHandler.js, sendMove of client/js/game-ui.js *)
(* and the handlers and watchdogs of client/js/room-socket.js.             *)
(*                                                                         *)
(* A player's click draws a pending stone and sends the move with a number *)
(* of its own (moveId); the server answers a number it has seen by         *)
(* replaying its first answer.  Without an ack the client sends the move   *)
(* once more, then asks for the whole state; with an ack and no game:moved *)
(* it asks as well, and so does a client that waits too long for its       *)
(* opponent or that sees a move count jump.                                *)
(*                                                                         *)
(* Packets travel in order in both directions of a socket, and any of them *)
(* may be lost while the socket stays up: the fault these mechanisms were  *)
(* written for.  A lost socket is CasualRoom's business.  Of the game      *)
(* itself there is left what the deltas carry: cells, turns and a winner   *)
(* that some move decides; black starts, as outside of an opening.  An     *)
(* undo is one step, agreed on between two moves.                          *)
(***************************************************************************)
EXTENDS Integers, Sequences, FiniteSets

CONSTANTS
  Black, White, \* the players
  Cells,        \* the cells of the board
  None,
  MaxGames,     \* bounds: games of the room,
  MaxSends,     \*   moves made in all of them,
  MaxFaults,    \*   packets that are lost or late
  MaxUndos,     \*   and undos agreed on in a game
  Window        \* bound: packets on the way to the server a client adds to

ASSUME DeliveryAssumption ==
  /\ Black # White
  /\ None \notin {Black, White} \cup Cells
  /\ {MaxGames, MaxSends, MaxFaults, MaxUndos, Window} \subseteq Nat

Players == {Black, White}

VARIABLES
  on,      \* server: room.gameState is there
  hist,    \*   the moves that stand, as [id, cell]
  acks,    \*   room._moveAcks: the first answer to every number of this game
  view,    \* client: what each player's gameState says
  overlay, \*   optimisticStone with its cell and the game it was put in, or None
  waiting, \*   the moves sent and not answered, as [id, cell, try]
  confirm, \*   whether the move-confirm watchdog is armed
  sent,    \*   how many moves this player numbered
  up, down, \* packets on the way to the server and to each player
  faults, undos, game,    \* counters for the bounds
  played, agreed, refused \* history: numbers ever played, acknowledged, refused

server  == <<on, hist, acks>>
client  == <<view, overlay, waiting, confirm, sent>>
history == <<played, agreed, refused>>
vars    == <<server, client, up, down, faults, undos, game, history>>

Opponent(p) == IF p = Black THEN White ELSE Black
Turn(h) == IF Len(h) % 2 = 0 THEN Black ELSE White
Owner(i) == IF i % 2 = 1 THEN Black ELSE White
Board(h) == [c \in Cells |->
               IF \E i \in DOMAIN h : h[i].cell = c
               THEN Owner(CHOOSE i \in DOMAIN h : h[i].cell = c) ELSE None]

\* gameState as serialize() gives it; game numbers the game it is of, which
\* the client never asks.
Serialized == [game |-> game, board |-> Board(hist), turn |-> Turn(hist),
               count |-> Len(hist), status |-> "ongoing"]
Fresh(g)   == [game |-> g, board |-> Board(<<>>), turn |-> Black, count |-> 0,
               status |-> "ongoing"]

------------------------------------------------------------------------------
\* Packets.

In(queue)      == {queue[i] : i \in DOMAIN queue}
Everybody(msg) == [p \in Players |-> down[p] \o <<msg>>]
To(p, msgs)    == [down EXCEPT ![p] = @ \o msgs]
Ack(m, answer) == [type |-> "ack", id |-> m.id, try |-> m.try, answer |-> answer]
Ended          == [type |-> "ended"]

Init ==
  /\ on = TRUE /\ hist = <<>> /\ acks = {}
  /\ view = [p \in Players |-> Fresh(1)]
  /\ overlay = [p \in Players |-> None]
  /\ waiting = [p \in Players |-> {}]
  /\ confirm = [p \in Players |-> FALSE]
  /\ sent = [p \in Players |-> 0]
  /\ up = [p \in Players |-> <<>>]
  /\ down = [p \in Players |-> <<>>]
  /\ faults = 0 /\ undos = 0 /\ game = 1
  /\ played = {} /\ agreed = {} /\ refused = {}

------------------------------------------------------------------------------
\* The server's handlers.

Arrives(p, type) ==
  /\ up[p] # <<>>
  /\ Head(up[p]).type = type
  /\ up' = [up EXCEPT ![p] = Tail(@)]

NoMove == UNCHANGED <<server, played, undos, game>>

\* room._moveAcks.has(moveId)
Known_Never(id) == FALSE
Known(id) == \E first \in acks : first.id = id

\* The number was seen: its game:moved again, to this socket alone.
Replayed(p, m) ==
  \E first \in acks :
    /\ on
    /\ first.id = m.id
    /\ down' = To(p, <<first.moved, Ack(m, "ok")>>)
    /\ NoMove

\* makeMove()'s refusals; parameters that are not coordinates never occur.
Legal(p, m) == Turn(hist) = p /\ ~\E i \in DOMAIN hist : hist[i].cell = m.cell

Rejected(p, m) ==
  /\ on => ~Known(m.id) /\ ~Legal(p, m)
  /\ down' = To(p, <<Ack(m, IF on THEN "error" ELSE "no game")>>)
  /\ NoMove

\* A new move: recorded under its number, broadcast, then acknowledged; a
\* winning or a last one ends the game.
Applied(p, m) ==
  /\ on
  /\ ~Known(m.id)
  /\ Legal(p, m)
  /\ hist' = Append(hist, [id |-> m.id, cell |-> m.cell])
  /\ \E over \in BOOLEAN :
       LET moved == [type |-> "moved", by |-> p, cell |-> m.cell,
                     turn |-> Opponent(p), count |-> Len(hist) + 1, over |-> over]
           after == IF over THEN <<Ended>> ELSE <<>>
       IN /\ Len(hist) + 1 = Cardinality(Cells) => over
          /\ on' = ~over
          /\ acks' = IF over THEN {} ELSE acks \cup {[id |-> m.id, moved |-> moved]}
          /\ down' = [q \in Players |-> down[q] \o
                        (IF q = p THEN <<moved, Ack(m, "ok")>> \o after ELSE <<moved>> \o after)]
  /\ played' = played \cup {m.id}
  /\ UNCHANGED <<undos, game>>

ReceiveMove(p) ==
  /\ Arrives(p, "move")
  /\ LET m == Head(up[p]) IN Replayed(p, m) \/ Rejected(p, m) \/ Applied(p, m)
  /\ UNCHANGED <<client, faults, agreed, refused>>

\* buildRoomStatePayload(): no gameState between games.
ReceiveResync(p) ==
  /\ Arrives(p, "resync")
  /\ down' = To(p, <<[type |-> "joined", state |-> IF on THEN <<Serialized>> ELSE <<>>]>>)
  /\ UNCHANGED <<server, client, faults, undos, game, history>>

\* acceptUndo(): back to before p's last move.
Undo(p) ==
  LET own == {i \in DOMAIN hist : Owner(i) = p}
  IN /\ on
     /\ undos < MaxUndos
     /\ \E last \in own :
          /\ \A i \in own : i <= last
          /\ hist' = SubSeq(hist, 1, last - 1)
          /\ down' = Everybody([type |-> "undo", turn |-> p, count |-> last - 1,
                                cleared |-> {hist[i].cell : i \in last..Len(hist)}])
     /\ undos' = undos + 1
     /\ UNCHANGED <<on, acks, client, up, faults, game, history>>

\* startGame()
NextGame ==
  /\ ~on
  /\ game < MaxGames
  /\ on' = TRUE /\ hist' = <<>> /\ acks' = {}
  /\ game' = game + 1
  /\ undos' = 0
  /\ down' = Everybody([type |-> "init", state |-> Fresh(game + 1)])
  /\ UNCHANGED <<client, up, faults, history>>

------------------------------------------------------------------------------
\* The client.

Send(p, msg) == up' = [up EXCEPT ![p] = Append(@, msg)]
Resync(p)    == Send(p, [type |-> "resync"])
Ongoing(p)   == view[p].status = "ongoing"
SetView(p, v) == view' = [view EXCEPT ![p] = v]

CanClick(p) == Ongoing(p) /\ view[p].turn = p /\ overlay[p] = None

\* onCellClick() and sendMove()
Click(p, cell) ==
  LET id == <<p, sent[p] + 1>>
  IN /\ CanClick(p)
     /\ view[p].board[cell] = None
     /\ sent[Black] + sent[White] < MaxSends
     /\ Len(up[p]) < Window
     /\ overlay' = [overlay EXCEPT ![p] = [cell |-> cell, game |-> view[p].game]]
     /\ sent' = [sent EXCEPT ![p] = @ + 1]
     /\ waiting' = [waiting EXCEPT ![p] = @ \cup {[id |-> id, cell |-> cell, try |-> 1]}]
     /\ Send(p, [type |-> "move", id |-> id, cell |-> cell, try |-> 1])
     /\ UNCHANGED <<server, view, confirm, down, faults, undos, game, history>>

\* Whether an attempt or its answer is still on the way.
Travels(p, w) ==
  \E m \in In(up[p]) \cup In(down[p]) :
    m.type \in {"move", "ack"} /\ m.id = w.id /\ m.try = w.try

\* Mutant: the second timeout is the end of it.
AfterResend_Nothing(p) == UNCHANGED up
AfterResend(p) == Resync(p)

\* MOVE_ACK_TIMEOUT_MS passed: a resend, then a resync; nothing once the game
\* is known to be over.  An attempt that is slow and not lost is a fault too.
AckTimeout(p) ==
  \E w \in waiting[p] :
    LET rest == waiting[p] \ {w}
    IN /\ Len(up[p]) < Window
       /\ IF Travels(p, w) THEN faults < MaxFaults /\ faults' = faults + 1 ELSE UNCHANGED faults
       /\ \/ /\ ~Ongoing(p)
             /\ waiting' = [waiting EXCEPT ![p] = rest]
             /\ UNCHANGED up
          \/ /\ Ongoing(p)
             /\ w.try = 1
             /\ waiting' = [waiting EXCEPT ![p] = rest \cup {[w EXCEPT !.try = 2]}]
             /\ Send(p, [type |-> "move", id |-> w.id, cell |-> w.cell, try |-> 2])
          \/ /\ Ongoing(p)
             /\ w.try = 2
             /\ waiting' = [waiting EXCEPT ![p] = rest]
             /\ AfterResend(p)
       /\ UNCHANGED <<server, view, overlay, confirm, sent, down, undos, game, history>>

\* The callback of armMoveConfirmWatchdog(), whose game:moved would be here.
MoveConfirm(p) ==
  /\ confirm[p]
  /\ down[p] = <<>>
  /\ confirm' = [confirm EXCEPT ![p] = FALSE]
  /\ IF Ongoing(p) /\ overlay[p] # None THEN Resync(p) ELSE UNCHANGED up
  /\ UNCHANGED <<server, view, overlay, waiting, sent, down, faults, undos, game, history>>

\* armTurnWatchdog(): armed whenever an ongoing game waits for somebody else.
\* onTurnWatchdogFire(): its delay, WATCHDOG_MIN_MS and more, outlasts what is
\* on the way.
Waits(p) == Ongoing(p) /\ view[p].turn # p

TurnWatchdog(p) ==
  /\ Waits(p)
  /\ up[p] = <<>> /\ down[p] = <<>>
  /\ Resync(p)
  /\ UNCHANGED <<server, client, down, faults, undos, game, history>>

Delivers(p, type) ==
  /\ down[p] # <<>>
  /\ Head(down[p]).type = type
  /\ down' = [down EXCEPT ![p] = Tail(@)]

Unarmed(p) == confirm' = [confirm EXCEPT ![p] = FALSE]
Cleared(p) == overlay' = [overlay EXCEPT ![p] = None]

\* The gap check: a count already reached, or one that skips a move.
Stale(d, v) == d.count <= v.count
Gap_Never(d, v) == FALSE
Gap(d, v) == d.count > v.count + 1

\* The delta on top of a state: what the handler of game:moved writes.
WithMove(v, d) == [v EXCEPT !.board[d.cell] = d.by, !.turn = d.turn, !.count = d.count,
                            !.status = IF d.over THEN "finished" ELSE @]

\* game:moved: an old count is ignored, a jump asks for a resync, the next one
\* is applied and confirms the pending stone of its cell.
OnMoved(p) ==
  LET d == Head(down[p])
  IN /\ Delivers(p, "moved")
     /\ \/ /\ Stale(d, view[p])
           /\ UNCHANGED <<client, up>>
        \/ /\ Gap(d, view[p])
           /\ Resync(p)
           /\ UNCHANGED client
        \/ /\ ~Stale(d, view[p]) /\ ~Gap(d, view[p])
           /\ SetView(p, WithMove(view[p], d))
           /\ IF overlay[p] # None /\ overlay[p].cell = d.cell
              THEN Cleared(p) /\ Unarmed(p) ELSE UNCHANGED <<overlay, confirm>>
           /\ UNCHANGED <<waiting, sent, up>>
     /\ UNCHANGED <<server, faults, undos, game, history>>

\* The ack of an attempt that has not timed out.
OnAck(p) ==
  LET a == Head(down[p])
      live == {w \in waiting[p] : w.id = a.id /\ w.try = a.try}
  IN /\ Delivers(p, "ack")
     /\ waiting' = [waiting EXCEPT ![p] = @ \ live]
     /\ \/ /\ live = {}
           /\ UNCHANGED <<overlay, confirm, agreed, refused>>
        \/ /\ live # {} /\ a.answer = "ok"
           /\ confirm' = [confirm EXCEPT ![p] = TRUE]
           /\ agreed' = agreed \cup {a.id}
           /\ UNCHANGED <<overlay, refused>>
        \/ /\ live # {} /\ a.answer # "ok"
           /\ Cleared(p)
           /\ refused' = IF a.answer = "error" THEN refused \cup {a.id} ELSE refused
           /\ UNCHANGED <<confirm, agreed>>
     /\ UNCHANGED <<server, view, sent, up, faults, undos, game, played>>

\* room:joined, the answer to a resync.
OnJoined(p) ==
  LET state == Head(down[p]).state
  IN /\ Delivers(p, "joined")
     /\ Cleared(p) /\ Unarmed(p)
     /\ IF state = <<>> THEN UNCHANGED view ELSE SetView(p, state[1])
     /\ UNCHANGED <<server, waiting, sent, up, faults, undos, game, history>>

OnUndoApplied(p) ==
  LET d == Head(down[p])
  IN /\ Delivers(p, "undo")
     /\ SetView(p, [view[p] EXCEPT !.board = [c \in Cells |-> IF c \in d.cleared THEN None ELSE @[c]],
                                   !.turn = d.turn, !.count = d.count])
     /\ Unarmed(p)
     /\ UNCHANGED <<server, overlay, waiting, sent, up, faults, undos, game, history>>

OnEnded(p) ==
  /\ Delivers(p, "ended")
  /\ Cleared(p) /\ Unarmed(p)
  /\ SetView(p, [view[p] EXCEPT !.status = "finished"])
  /\ UNCHANGED <<server, waiting, sent, up, faults, undos, game, history>>

\* game:init loads the new game and leaves the pending stone alone.
OnInit(p) ==
  /\ Delivers(p, "init")
  /\ SetView(p, Head(down[p]).state)
  /\ Unarmed(p)
  /\ UNCHANGED <<server, overlay, waiting, sent, up, faults, undos, game, history>>

Deliver(p) == \/ OnMoved(p) \/ OnAck(p) \/ OnJoined(p)
              \/ OnUndoApplied(p) \/ OnEnded(p) \/ OnInit(p)

------------------------------------------------------------------------------
\* The network.

Lose(p) ==
  /\ faults < MaxFaults
  /\ faults' = faults + 1
  /\ \/ /\ up[p] # <<>>
        /\ up' = [up EXCEPT ![p] = Tail(@)]
        /\ UNCHANGED down
     \/ /\ down[p] # <<>>
        /\ down' = [down EXCEPT ![p] = Tail(@)]
        /\ UNCHANGED up
  /\ UNCHANGED <<server, client, undos, game, history>>

Next ==
  \/ NextGame
  \/ \E p \in Players :
       \/ ReceiveMove(p) \/ ReceiveResync(p) \/ Undo(p)
       \/ \E cell \in Cells : Click(p, cell)
       \/ AckTimeout(p) \/ MoveConfirm(p) \/ TurnWatchdog(p)
       \/ Deliver(p) \/ Lose(p)

Spec == Init /\ [][Next]_vars

\* Packets that are not lost arrive and timers run out.  Nobody has to move.
FairSpec ==
  /\ Spec
  /\ \A p \in Players :
       /\ WF_vars(ReceiveMove(p) \/ ReceiveResync(p))
       /\ WF_vars(Deliver(p))
       /\ WF_vars(AckTimeout(p))
       /\ WF_vars(MoveConfirm(p))
       /\ WF_vars(TurnWatchdog(p))
------------------------------------------------------------------------------
\* Properties.

Ids == Players \X (1..MaxSends)

Ledger == INSTANCE MoveLedger WITH
  open <- on, entries <- hist, entered <- {first.id : first \in acks},
  ever <- played, accepted <- agreed, refused <- refused

\* A move is played at most once in a game however often it is sent, and what
\* a player is told of a move is true: delivery implements the ledger.
ImplementsLedger == Ledger!Spec

\* As long as nothing was taken back, what a player sees of the running game
\* is a past position of it: deltas land on the state they were computed from
\* (the gap check of game:moved).
SeesPast(p) ==
  LET past == SubSeq(hist, 1, view[p].count)
  IN /\ view[p].count <= Len(hist)
     /\ view[p].board = Board(past)
     /\ view[p].turn = Turn(past)

ViewsArePast ==
  undos = 0 => \A p \in Players : view[p].game = game => SeesPast(p)

\* The same with undos: a count that rises makes a player see the position of
\* the game with that count, unless an undo of it is on its way.
DeltasFit ==
  [][\A p \in Players :
       LET v == view'[p]
       IN (/\ v.count > view[p].count
           /\ v.count <= Len(hist)
           /\ v.game = game
           /\ \A m \in In(down[p]) : m.type # "undo")
          => v.board = Board(SubSeq(hist, 1, v.count))]_vars

\* A pending stone that the game:moved, the ack or the end of its game did not
\* take off the board is still there in the next one.
LeftOver(p) == overlay[p] # None /\ overlay[p].game # view[p].game

\* A player whose turn it is, and whose client knows of the game, comes to see
\* the position and can click although two packets are lost or late: a move, its
\* resend, or what answers them.  Excepted are games with an undo and a stone
\* left over from another game, which game:init leaves alone.  A third fault may
\* be the resync itself, and nothing comes after it.  sendMove, the watchdogs and
\* the gap check of game:moved.
MayMove(p) == on /\ Turn(hist) = p
PlayersRecover ==
  \A p \in Players :
    MayMove(p) /\ view[p].game = game
      ~> \/ ~MayMove(p)
         \/ undos > 0 \/ faults > 2 \/ LeftOver(p)
         \/ SeesPast(p) /\ view[p].count = Len(hist) /\ CanClick(p)

\* The same with undos: a pending stone does not outlive its move.
NobodyIsStuck ==
  \A p \in Players :
    MayMove(p) /\ view[p].game = game ~> ~MayMove(p) \/ CanClick(p)

\* No move is played in two games: a number is of one action.
PlayedOnce ==
  [][\A id \in Ids : ~Known(id) /\ Known(id)' => id \notin played]_vars
=============================================================================
