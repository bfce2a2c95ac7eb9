------------------------- MODULE MoveDeliveryProofs -------------------------
(***************************************************************************)
(* Proofs about MoveDelivery: whatever is lost or late, delivery           *)
(* implements the ledger of MoveLedger.                                    *)
(*                                                                         *)
(* What has to be known is where the copies of a move are.  Numbers are    *)
(* fresh; the copies of a move are in the queue to the server in the order *)
(* they were sent; a client that still waits for its first try has sent no *)
(* second one.  So once the answer to the current try says "error", no     *)
(* copy of the move is left that the server could play later.              *)
(*                                                                         *)
(* The last part is about what players see: a delta on its way carries     *)
(* neither a game nor a position, so what is shown is right only because   *)
(* everything that is under way, or is remembered to be sent again, fits   *)
(* the history of its game.                                                *)
(***************************************************************************)
EXTENDS MoveDelivery, SequenceTheorems, TLAPS

\* A queue, of whatever is in it.
IsQueue(q) == q \in Seq(In(q))

\* The copies of a move in a queue are in the order of their tries.
Ordered(q) ==
  \A i, j \in DOMAIN q :
    i < j /\ q[i].type = "move" /\ q[j].type = "move" /\ q[i].id = q[j].id
      => q[i].try < q[j].try

Moves(p)   == {m \in In(up[p]) : m.type = "move"}
Answers(p) == {a \in In(down[p]) : a.type = "ack"}

Numbered(p, id) == id \in Ids /\ id[1] = p /\ id[2] <= sent[p]

Attempts == [id : Ids, cell : Cells, try : {1, 2}]

StateOK ==
  /\ on \in BOOLEAN
  /\ hist \in Seq([id : Ids, cell : Cells])
  /\ up = [p \in Players |-> up[p]]
  /\ down = [p \in Players |-> down[p]]
  /\ \A p \in Players : IsQueue(up[p]) /\ IsQueue(down[p])
  /\ waiting \in [Players -> SUBSET Attempts]
  /\ sent \in [Players -> 0..MaxSends]

\* Numbers are those of a player and were given out.
NumbersOK ==
  /\ \A p \in Players : \A m \in Moves(p) :
       Numbered(p, m.id) /\ m.cell \in Cells /\ m.try \in {1, 2}
  /\ \A p \in Players : \A a \in Answers(p) : Numbered(p, a.id) /\ a.try \in {1, 2}
  /\ \A p \in Players : \A w \in waiting[p] : Numbered(p, w.id)
  /\ \A id \in refused : \E p \in Players : Numbered(p, id)

\* A client waits for one try of a move at a time, and before the second one
\* is sent nothing of it is on the way.
TriesOK ==
  /\ \A p \in Players : Ordered(up[p])
  /\ \A p \in Players : \A v, w \in waiting[p] : v.id = w.id => v = w
  /\ \A p \in Players : \A w \in waiting[p] : \A m \in Moves(p) \cup Answers(p) :
       w.try = 1 /\ m.id = w.id => m.try = 1

\* What the server remembers and what it says of it.
PlayedOK ==
  /\ \A first \in acks : first.id \in played /\ first.moved.type # "ack"
  /\ \A p \in Players : \A a \in Answers(p) : a.answer = "ok" => a.id \in played

\* An "error" that a client still waits for, and a refusal it was told, leave
\* no copy of the move.
NoCopy(p, id) == ~Known(id) /\ \A m \in Moves(p) : m.id # id

RefusalsOK ==
  /\ \A p \in Players : \A a \in Answers(p) :
       a.answer = "error" /\ (\E w \in waiting[p] : w.id = a.id /\ w.try = a.try)
         => NoCopy(p, a.id)
  /\ \A id \in refused : \A p \in Players :
       NoCopy(p, id) /\ \A w \in waiting[p] : w.id # id

DeliveryInv == StateOK /\ NumbersOK /\ TriesOK /\ PlayedOK /\ RefusalsOK

-----------------------------------------------------------------------------
\* Queues.

LEMMA SequencesAreQueues ==
  ASSUME NEW S, NEW q \in Seq(S)
  PROVE  /\ IsQueue(q) /\ In(q) \subseteq S
         /\ Len(q) \in Nat /\ DOMAIN q = 1..Len(q)
<1>1. /\ Len(q) \in Nat /\ DOMAIN q = 1..Len(q)
      /\ q \in [1..Len(q) -> S]
  BY LenProperties
<1>2. q \in [1..Len(q) -> In(q)]
  BY <1>1 DEF In
<1>3. q \in Seq(In(q))
  BY <1>1, <1>2, SeqDef
<1> QED
  BY <1>1, <1>3 DEF IsQueue, In

LEMMA TailOfQueue ==
  ASSUME NEW q, IsQueue(q), q # <<>>
  PROVE  /\ IsQueue(Tail(q))
         /\ In(Tail(q)) \subseteq In(q)
         /\ Head(q) \in In(q)
         /\ 1 \in DOMAIN q /\ Head(q) = q[1]
         /\ \A i \in DOMAIN Tail(q) : i \in Nat \ {0} /\ i + 1 \in DOMAIN q /\ Tail(q)[i] = q[i + 1]
<1>1. /\ Len(q) \in Nat \ {0}
      /\ DOMAIN q = 1..Len(q)
      /\ Head(q) = q[1]
  BY SequencesAreQueues DEF IsQueue
<1>2. /\ Tail(q) \in Seq(In(q))
      /\ Len(Tail(q)) = Len(q) - 1
      /\ \A i \in 1..Len(Tail(q)) : Tail(q)[i] = q[i + 1]
  BY <1>1 DEF IsQueue
<1>3. IsQueue(Tail(q)) /\ In(Tail(q)) \subseteq In(q) /\ DOMAIN Tail(q) = 1..Len(Tail(q))
  BY <1>2, SequencesAreQueues
<1>4. 1 \in DOMAIN q /\ Head(q) \in In(q)
  BY <1>1 DEF In
<1>5. ASSUME NEW i \in DOMAIN Tail(q)
      PROVE  i \in Nat \ {0} /\ i + 1 \in DOMAIN q /\ Tail(q)[i] = q[i + 1]
  BY <1>1, <1>2, <1>3, <1>5
<1> QED
  BY <1>1, <1>3, <1>4, <1>5

LEMMA AppendToQueue ==
  ASSUME NEW q, IsQueue(q), NEW m
  PROVE  /\ IsQueue(Append(q, m))
         /\ In(Append(q, m)) = In(q) \cup {m}
         /\ \A i \in DOMAIN Append(q, m) :
              /\ i \in Nat
              /\ \/ i \in DOMAIN q /\ Append(q, m)[i] = q[i]
                 \/ i = Len(q) + 1 /\ Append(q, m)[i] = m
         /\ DOMAIN q = 1..Len(q) /\ Len(q) \in Nat
<1>1. Len(q) \in Nat /\ DOMAIN q = 1..Len(q) /\ q \in Seq(In(q) \cup {m})
  BY SeqMonotonic, In(q) \subseteq In(q) \cup {m} DEF IsQueue
<1>2. /\ Append(q, m) \in Seq(In(q) \cup {m})
      /\ Len(Append(q, m)) = Len(q) + 1
      /\ \A i \in 1..Len(q) : Append(q, m)[i] = q[i]
      /\ Append(q, m)[Len(q) + 1] = m
  BY <1>1
<1>3. DOMAIN Append(q, m) = 1..(Len(q) + 1)
  BY <1>1, <1>2
<1>4. In(Append(q, m)) = In(q) \cup {m}
  BY <1>1, <1>2, <1>3 DEF In
<1>5. IsQueue(Append(q, m))
  BY <1>2, SequencesAreQueues
<1>6. ASSUME NEW i \in DOMAIN Append(q, m)
      PROVE  /\ i \in Nat
             /\ \/ i \in DOMAIN q /\ Append(q, m)[i] = q[i]
                \/ i = Len(q) + 1 /\ Append(q, m)[i] = m
  BY <1>1, <1>2, <1>3, <1>6
<1> QED
  BY <1>1, <1>4, <1>5, <1>6

LEMMA ConcatQueues ==
  ASSUME NEW q, IsQueue(q), NEW r, IsQueue(r)
  PROVE  IsQueue(q \o r) /\ In(q \o r) = In(q) \cup In(r)
<1> DEFINE S == In(q) \cup In(r)
<1>1. q \in Seq(S) /\ r \in Seq(S)
  BY SeqMonotonic, In(q) \subseteq S, In(r) \subseteq S DEF IsQueue
<1>2. /\ Len(q) \in Nat /\ Len(r) \in Nat
      /\ DOMAIN q = 1..Len(q) /\ DOMAIN r = 1..Len(r)
  BY <1>1, LenProperties
<1>3. /\ q \o r \in Seq(S)
      /\ Len(q \o r) = Len(q) + Len(r)
      /\ \A i \in 1..(Len(q) + Len(r)) :
           (q \o r)[i] = IF i <= Len(q) THEN q[i] ELSE r[i - Len(q)]
  BY <1>1, ConcatProperties
<1>4. DOMAIN (q \o r) = 1..(Len(q) + Len(r))
  BY <1>3, LenProperties
<1>5. In(q) \subseteq In(q \o r)
  <2> SUFFICES ASSUME NEW i \in 1..Len(q) PROVE q[i] \in In(q \o r)
    BY <1>2 DEF In
  <2>1. i \in 1..(Len(q) + Len(r)) /\ (q \o r)[i] = q[i]
    BY <1>2, <1>3
  <2> QED
    BY <2>1, <1>4 DEF In
<1>6. In(r) \subseteq In(q \o r)
  <2> SUFFICES ASSUME NEW i \in 1..Len(r) PROVE r[i] \in In(q \o r)
    BY <1>2 DEF In
  <2>1. i + Len(q) \in 1..(Len(q) + Len(r)) /\ (q \o r)[i + Len(q)] = r[i]
    BY <1>2, <1>3
  <2> QED
    BY <2>1, <1>4 DEF In
<1>7. In(q \o r) \subseteq S
  BY <1>3, <1>4 DEF In
<1> QED
  BY <1>3, <1>5, <1>6, <1>7 DEF IsQueue

LEMMA GrownQueue ==
  ASSUME NEW q, IsQueue(q), NEW r, IsQueue(r)
  PROVE  /\ DOMAIN q = 1..Len(q) /\ Len(q) \in Nat
         /\ DOMAIN q \subseteq DOMAIN (q \o r)
         /\ \A i \in DOMAIN (q \o r) :
              \/ i \in DOMAIN q /\ (q \o r)[i] = q[i]
              \/ (q \o r)[i] \in In(r) /\ i \notin DOMAIN q
<1> DEFINE S == In(q) \cup In(r)
<1>1. q \in Seq(S) /\ r \in Seq(S)
  BY SeqMonotonic, In(q) \subseteq S, In(r) \subseteq S DEF IsQueue
<1>2. /\ Len(q) \in Nat /\ Len(r) \in Nat
      /\ DOMAIN q = 1..Len(q) /\ DOMAIN r = 1..Len(r)
  BY <1>1, LenProperties
<1>3. /\ q \o r \in Seq(S)
      /\ Len(q \o r) = Len(q) + Len(r)
      /\ \A i \in 1..(Len(q) + Len(r)) :
           (q \o r)[i] = IF i <= Len(q) THEN q[i] ELSE r[i - Len(q)]
  BY <1>1, ConcatProperties
<1>4. DOMAIN (q \o r) = 1..(Len(q) + Len(r))
  BY <1>3, LenProperties
<1>5. ASSUME NEW i \in DOMAIN (q \o r)
      PROVE  \/ i \in DOMAIN q /\ (q \o r)[i] = q[i]
             \/ (q \o r)[i] \in In(r) /\ i \notin DOMAIN q
  <2>1. CASE i <= Len(q)
    BY <1>2, <1>3, <1>4, <2>1
  <2>2. CASE ~(i <= Len(q))
    <3>1. i - Len(q) \in DOMAIN r /\ (q \o r)[i] = r[i - Len(q)] /\ i \notin DOMAIN q
      BY <1>2, <1>3, <1>4, <2>2
    <3> QED
      BY <3>1 DEF In
  <2> QED
    BY <2>1, <2>2
<1> QED
  BY <1>2, <1>4, <1>5

LEMMA ShortQueues ==
  /\ IsQueue(<<>>) /\ In(<<>>) = {}
  /\ \A m : IsQueue(<<m>>) /\ In(<<m>>) = {m}
  /\ \A m, n : IsQueue(<<m, n>>) /\ In(<<m, n>>) = {m, n}
  BY DEF IsQueue, In

LEMMA OrderedTail ==
  ASSUME NEW q, IsQueue(q), q # <<>>, Ordered(q)
  PROVE  Ordered(Tail(q))
  BY TailOfQueue DEF Ordered

LEMMA OrderedAppend ==
  ASSUME NEW q, IsQueue(q), Ordered(q), NEW m,
         m.type = "move" => \A n \in In(q) : n.type = "move" /\ n.id = m.id => n.try < m.try
  PROVE  Ordered(Append(q, m))
  BY AppendToQueue DEF Ordered, In

-----------------------------------------------------------------------------
\* The invariant.

LEMMA InitDelivery == Init => DeliveryInv
<1> SUFFICES ASSUME Init PROVE DeliveryInv
  OBVIOUS
<1>1. /\ \A p \in Players : up[p] = <<>> /\ down[p] = <<>> /\ waiting[p] = {}
      /\ acks = {} /\ refused = {} /\ hist = <<>>
  BY DEF Init
<1>2. StateOK
  BY <1>1, ShortQueues, DeliveryAssumption DEF Init, StateOK
<1>3. \A p \in Players : Moves(p) = {} /\ Answers(p) = {}
  BY <1>1, ShortQueues DEF Moves, Answers
<1>4. NumbersOK /\ PlayedOK /\ RefusalsOK
  BY <1>1, <1>3 DEF NumbersOK, PlayedOK, RefusalsOK
<1>5. TriesOK
  BY <1>1, <1>3 DEF TriesOK, Ordered
<1> QED
  BY <1>2, <1>4, <1>5 DEF DeliveryInv

\* Nothing the invariant speaks of comes to be: packets arrive, are lost or are
\* of another kind, the server forgets, and clients stop waiting.
LEMMA LessKeeps ==
  ASSUME DeliveryInv, StateOK', acks' \subseteq acks,
         UNCHANGED <<played, refused, sent>>,
         \A p \in Players : /\ Moves(p)' \subseteq Moves(p)
                            /\ Answers(p)' \subseteq Answers(p)
                            /\ waiting'[p] \subseteq waiting[p]
                            /\ Ordered(up[p])'
  PROVE  DeliveryInv'
<1> USE DEF DeliveryInv
<1>1. NumbersOK'
  BY DEF NumbersOK, Numbered
<1>2. TriesOK'
  BY DEF TriesOK
<1>3. PlayedOK'
  BY DEF PlayedOK
<1>4. \A id : Known(id)' => Known(id)
  BY DEF Known
<1>5. RefusalsOK'
  BY <1>4 DEF RefusalsOK, NoCopy
<1> QED
  BY <1>1, <1>2, <1>3, <1>5

\* What the steps do to the queues.

UpQueuesOK   == /\ up = [p \in Players |-> up[p]]
                /\ \A p \in Players : IsQueue(up[p]) /\ Ordered(up[p])
DownQueuesOK == /\ down = [p \in Players |-> down[p]]
                /\ \A p \in Players : IsQueue(down[p])

LEMMA QueuesOK == DeliveryInv => UpQueuesOK /\ DownQueuesOK
  BY DEF DeliveryInv, StateOK, TriesOK, UpQueuesOK, DownQueuesOK

LEMMA TakeUp ==
  ASSUME DeliveryInv, NEW p \in Players, up[p] # <<>>,
         up' = [up EXCEPT ![p] = Tail(@)]
  PROVE  /\ UpQueuesOK'
         /\ \A q \in Players : Moves(q)' \subseteq Moves(q)
         /\ Head(up[p]) \in In(up[p])
<1>1. UpQueuesOK
  BY QueuesOK
<1>2. \A q \in Players : up'[q] = IF q = p THEN Tail(up[p]) ELSE up[q]
  BY <1>1 DEF UpQueuesOK
<1>3. /\ IsQueue(Tail(up[p])) /\ In(Tail(up[p])) \subseteq In(up[p]) /\ Ordered(Tail(up[p]))
      /\ Head(up[p]) \in In(up[p])
  BY <1>1, TailOfQueue, OrderedTail DEF UpQueuesOK
<1>4. UpQueuesOK'
  <2>1. up' = [q \in Players |-> up'[q]]
    BY <1>1 DEF UpQueuesOK
  <2> QED
    BY <2>1, <1>1, <1>2, <1>3 DEF UpQueuesOK
<1>5. ASSUME NEW q \in Players
      PROVE  Moves(q)' \subseteq Moves(q)
  BY <1>2, <1>3 DEF Moves
<1> QED
  BY <1>3, <1>4, <1>5

LEMMA TakeDown ==
  ASSUME DeliveryInv, NEW p \in Players, down[p] # <<>>,
         down' = [down EXCEPT ![p] = Tail(@)]
  PROVE  /\ DownQueuesOK'
         /\ \A q \in Players : Answers(q)' \subseteq Answers(q)
         /\ Head(down[p]) \in In(down[p])
<1>1. DownQueuesOK
  BY QueuesOK
<1>2. \A q \in Players : down'[q] = IF q = p THEN Tail(down[p]) ELSE down[q]
  BY <1>1 DEF DownQueuesOK
<1>3. /\ IsQueue(Tail(down[p])) /\ In(Tail(down[p])) \subseteq In(down[p])
      /\ Head(down[p]) \in In(down[p])
  BY <1>1, TailOfQueue DEF DownQueuesOK
<1>4. DownQueuesOK'
  <2>1. down' = [q \in Players |-> down'[q]]
    BY <1>1 DEF DownQueuesOK
  <2> QED
    BY <2>1, <1>1, <1>2, <1>3 DEF DownQueuesOK
<1>5. ASSUME NEW q \in Players
      PROVE  Answers(q)' \subseteq Answers(q)
  BY <1>2, <1>3 DEF Answers
<1> QED
  BY <1>3, <1>4, <1>5

LEMMA SendUp ==
  ASSUME DeliveryInv, NEW p \in Players, NEW msg, Send(p, msg),
         msg.type = "move" => \A n \in Moves(p) : n.id = msg.id => n.try < msg.try
  PROVE  /\ UpQueuesOK'
         /\ \A q \in Players : q # p => Moves(q)' = Moves(q)
         /\ Moves(p)' = Moves(p) \cup {m \in {msg} : m.type = "move"}
<1>1. UpQueuesOK
  BY QueuesOK
<1>2. \A q \in Players : up'[q] = IF q = p THEN Append(up[p], msg) ELSE up[q]
  BY <1>1 DEF UpQueuesOK, Send
<1>3. /\ IsQueue(Append(up[p], msg)) /\ In(Append(up[p], msg)) = In(up[p]) \cup {msg}
  BY <1>1, AppendToQueue DEF UpQueuesOK
<1>4. Ordered(Append(up[p], msg))
  BY <1>1, OrderedAppend DEF UpQueuesOK, Moves
<1>5. UpQueuesOK'
  <2>1. up' = [q \in Players |-> up'[q]]
    BY <1>1 DEF UpQueuesOK, Send
  <2> QED
    BY <2>1, <1>1, <1>2, <1>3, <1>4 DEF UpQueuesOK
<1>6. \A q \in Players : q # p => Moves(q)' = Moves(q)
  BY <1>2 DEF Moves
<1>7. Moves(p)' = Moves(p) \cup {m \in {msg} : m.type = "move"}
  BY <1>2, <1>3 DEF Moves
<1> QED
  BY <1>5, <1>6, <1>7

LEMMA PutDown ==
  ASSUME DeliveryInv, NEW extra, \A q \in Players : IsQueue(extra[q]),
         down' = [q \in Players |-> down[q] \o extra[q]]
  PROVE  /\ DownQueuesOK'
         /\ \A q \in Players : Answers(q)' = Answers(q) \cup {a \in In(extra[q]) : a.type = "ack"}
<1>1. DownQueuesOK
  BY QueuesOK
<1>2. ASSUME NEW q \in Players
      PROVE  /\ down'[q] = down[q] \o extra[q] /\ IsQueue(down'[q])
             /\ In(down'[q]) = In(down[q]) \cup In(extra[q])
  BY <1>1, ConcatQueues DEF DownQueuesOK
<1>3. down' = [q \in Players |-> down'[q]]
  OBVIOUS
<1>4. DownQueuesOK'
  BY <1>2, <1>3 DEF DownQueuesOK
<1> QED
  BY <1>2, <1>4 DEF Answers

LEMMA PutDownTo ==
  ASSUME DeliveryInv, NEW p \in Players, NEW msgs, IsQueue(msgs), down' = To(p, msgs)
  PROVE  /\ DownQueuesOK'
         /\ \A q \in Players : q # p => Answers(q)' = Answers(q)
         /\ Answers(p)' = Answers(p) \cup {a \in In(msgs) : a.type = "ack"}
<1>1. DownQueuesOK
  BY QueuesOK
<1>2. \A q \in Players : down'[q] = IF q = p THEN down[p] \o msgs ELSE down[q]
  BY <1>1 DEF DownQueuesOK, To
<1>3. IsQueue(down[p] \o msgs) /\ In(down[p] \o msgs) = In(down[p]) \cup In(msgs)
  BY <1>1, ConcatQueues DEF DownQueuesOK
<1>4. DownQueuesOK'
  <2>1. down' = [q \in Players |-> down'[q]]
    BY <1>1 DEF DownQueuesOK, To
  <2> QED
    BY <2>1, <1>1, <1>2, <1>3 DEF DownQueuesOK
<1>5. \A q \in Players : q # p => Answers(q)' = Answers(q)
  BY <1>2 DEF Answers
<1>6. Answers(p)' = Answers(p) \cup {a \in In(msgs) : a.type = "ack"}
  BY <1>2, <1>3 DEF Answers
<1> QED
  BY <1>4, <1>5, <1>6

LEMMA UpUnchanged ==
  ASSUME DeliveryInv, UNCHANGED up
  PROVE  UpQueuesOK' /\ \A q \in Players : Moves(q)' = Moves(q)
  BY QueuesOK DEF UpQueuesOK, Moves

LEMMA DownUnchanged ==
  ASSUME DeliveryInv, UNCHANGED down
  PROVE  DownQueuesOK' /\ \A q \in Players : Answers(q)' = Answers(q)
  BY QueuesOK DEF DownQueuesOK, Answers

\* A resync request, and no move of a player's, is sent.
LEMMA SendResync ==
  ASSUME DeliveryInv, NEW p \in Players, Resync(p)
  PROVE  UpQueuesOK' /\ \A q \in Players : Moves(q)' = Moves(q)
<1> DEFINE msg == [type |-> "resync"]
<1>1. Send(p, msg) /\ msg.type # "move"
  BY DEF Resync
<1>2. {m \in {msg} : m.type = "move"} = {}
  BY <1>1
<1> HIDE DEF msg
<1> QED
  BY <1>1, <1>2, SendUp

-----------------------------------------------------------------------------
\* The steps that add nothing.

LEMMA Bystanders ==
  ASSUME DeliveryInv, UpQueuesOK', DownQueuesOK',
         UNCHANGED <<server, waiting, sent, played, refused>>,
         \A q \in Players : Moves(q)' \subseteq Moves(q) /\ Answers(q)' \subseteq Answers(q)
  PROVE  DeliveryInv'
<1>1. StateOK'
  BY DEF DeliveryInv, StateOK, UpQueuesOK, DownQueuesOK, server
<1> QED
  BY <1>1, LessKeeps DEF UpQueuesOK, server

LEMMA ResyncKeeps ==
  ASSUME DeliveryInv, NEW p \in Players, ReceiveResync(p)
  PROVE  DeliveryInv'
<1>1. UpQueuesOK' /\ \A q \in Players : Moves(q)' \subseteq Moves(q)
  BY TakeUp DEF ReceiveResync, Arrives
<1>2. PICK msg : down' = To(p, <<msg>>) /\ msg.type # "ack"
  BY DEF ReceiveResync
<1>3. IsQueue(<<msg>>) /\ {a \in In(<<msg>>) : a.type = "ack"} = {}
  BY <1>2, ShortQueues
<1>4. DownQueuesOK' /\ \A q \in Players : Answers(q)' = Answers(q)
  BY <1>2, <1>3, PutDownTo
<1> QED
  BY <1>1, <1>4, Bystanders DEF ReceiveResync, client, history

LEMMA WatchdogsKeep ==
  ASSUME DeliveryInv, NEW p \in Players, MoveConfirm(p) \/ TurnWatchdog(p)
  PROVE  DeliveryInv'
<1>1. Resync(p) \/ UNCHANGED up
  BY DEF MoveConfirm, TurnWatchdog
<1>2. UpQueuesOK' /\ \A q \in Players : Moves(q)' = Moves(q)
  BY <1>1, SendResync, UpUnchanged
<1>3. UNCHANGED <<server, waiting, sent, played, refused, down>>
  BY DEF MoveConfirm, TurnWatchdog, client, history
<1>4. DownQueuesOK' /\ \A q \in Players : Answers(q)' = Answers(q)
  BY <1>3, DownUnchanged
<1> QED
  BY <1>2, <1>3, <1>4, Bystanders

LEMMA DeliveryKeeps ==
  ASSUME DeliveryInv, NEW p \in Players,
         OnMoved(p) \/ OnJoined(p) \/ OnUndoApplied(p) \/ OnEnded(p) \/ OnInit(p)
  PROVE  DeliveryInv'
<1>1. /\ UNCHANGED <<server, waiting, sent, played, refused>>
      /\ \E type : Delivers(p, type)
      /\ Resync(p) \/ UNCHANGED up
  BY DEF OnMoved, OnJoined, OnUndoApplied, OnEnded, OnInit, client, history
<1>2. DownQueuesOK' /\ \A q \in Players : Answers(q)' \subseteq Answers(q)
  BY <1>1, TakeDown DEF Delivers
<1>3. UpQueuesOK' /\ \A q \in Players : Moves(q)' = Moves(q)
  BY <1>1, SendResync, UpUnchanged
<1> QED
  BY <1>1, <1>2, <1>3, Bystanders

LEMMA LossKeeps ==
  ASSUME DeliveryInv, NEW p \in Players, Lose(p)
  PROVE  DeliveryInv'
<1>1. UNCHANGED <<server, waiting, sent, played, refused>>
  BY DEF Lose, client, history
<1>2. CASE up[p] # <<>> /\ up' = [up EXCEPT ![p] = Tail(@)] /\ UNCHANGED down
  BY <1>1, <1>2, TakeUp, DownUnchanged, Bystanders
<1>3. CASE down[p] # <<>> /\ down' = [down EXCEPT ![p] = Tail(@)] /\ UNCHANGED up
  BY <1>1, <1>3, TakeDown, UpUnchanged, Bystanders
<1> QED
  BY <1>2, <1>3 DEF Lose

-----------------------------------------------------------------------------
\* The steps of the game.

LEMMA NoticesKeepQueues ==
  ASSUME DeliveryInv, NEW msg, msg.type # "ack", down' = Everybody(msg)
  PROVE  DownQueuesOK' /\ \A q \in Players : Answers(q)' = Answers(q)
<1> DEFINE extra == [q \in Players |-> <<msg>>]
<1>1. \A q \in Players : IsQueue(extra[q]) /\ {a \in In(extra[q]) : a.type = "ack"} = {}
  BY ShortQueues
<1>2. down' = [q \in Players |-> down[q] \o extra[q]]
  BY DEF Everybody
<1> HIDE DEF extra
<1> QED
  BY <1>1, <1>2, PutDown

LEMMA UndoKeeps ==
  ASSUME DeliveryInv, NEW p \in Players, Undo(p)
  PROVE  /\ DeliveryInv'
         /\ \E n \in 0..Len(hist) : hist' = SubSeq(hist, 1, n)
<1>1. PICK last \in DOMAIN hist : /\ hist' = SubSeq(hist, 1, last - 1)
                                 /\ \E msg : msg.type # "ack" /\ down' = Everybody(msg)
  BY DEF Undo
<1>2. hist \in Seq([id : Ids, cell : Cells])
  BY DEF DeliveryInv, StateOK
<1>3. last - 1 \in 0..Len(hist) /\ hist' \in Seq([id : Ids, cell : Cells])
  <2>1. Len(hist) \in Nat /\ last \in 1..Len(hist)
    BY <1>1, <1>2, LenProperties
  <2>2. last - 1 \in 0..Len(hist)
    BY <2>1
  <2>3. ASSUME NEW i \in 1..(last - 1)
        PROVE  hist[i] \in [id : Ids, cell : Cells]
    <3>1. i \in 1..Len(hist)
      BY <2>1
    <3> QED
      BY <3>1, <1>2, ElementOfSeq
  <2>4. SubSeq(hist, 1, last - 1) \in Seq([id : Ids, cell : Cells])
    BY <2>2, <2>3, SubSeqProperties
  <2> QED
    BY <1>1, <2>2, <2>4
<1>4. DownQueuesOK' /\ \A q \in Players : Answers(q)' = Answers(q)
  BY <1>1, NoticesKeepQueues
<1>5. UNCHANGED <<on, acks, up, waiting, sent, played, refused>>
  BY DEF Undo, client, history
<1>6. UpQueuesOK' /\ \A q \in Players : Moves(q)' = Moves(q)
  BY <1>5, UpUnchanged
<1>7. StateOK'
  BY <1>3, <1>4, <1>5, <1>6 DEF DeliveryInv, StateOK, UpQueuesOK, DownQueuesOK
<1> QED
  BY <1>1, <1>3, <1>4, <1>5, <1>6, <1>7, LessKeeps DEF UpQueuesOK

LEMMA NextGameKeeps ==
  ASSUME DeliveryInv, NextGame
  PROVE  DeliveryInv'
<1>1. \E msg : msg.type # "ack" /\ down' = Everybody(msg)
  BY DEF NextGame
<1>2. DownQueuesOK' /\ \A q \in Players : Answers(q)' = Answers(q)
  BY <1>1, NoticesKeepQueues
<1>3. /\ UNCHANGED <<up, waiting, sent, played, refused>>
      /\ on' = TRUE /\ hist' = <<>> /\ acks' = {}
  BY DEF NextGame, client, history
<1>4. UpQueuesOK' /\ \A q \in Players : Moves(q)' = Moves(q)
  BY <1>3, UpUnchanged
<1>5. StateOK'
  BY <1>2, <1>3, <1>4 DEF DeliveryInv, StateOK, UpQueuesOK, DownQueuesOK
<1> QED
  BY <1>2, <1>3, <1>4, <1>5, LessKeeps DEF UpQueuesOK

\* A click sends a number nobody has seen.
LEMMA ClickKeeps ==
  ASSUME DeliveryInv, NEW p \in Players, NEW cell \in Cells, Click(p, cell)
  PROVE  DeliveryInv'
<1>0. PICK id : id = <<p, sent[p] + 1>>
  OBVIOUS
<1> DEFINE new == [id |-> id, cell |-> cell, try |-> 1]
           msg == [type |-> "move", id |-> id, cell |-> cell, try |-> 1]
<1>1. /\ sent[p] < MaxSends /\ sent[p] \in Nat /\ MaxSends \in Nat
      /\ id \in Ids /\ id[1] = p /\ id[2] = sent[p] + 1
  <2>1. /\ sent \in [Players -> 0..MaxSends] /\ MaxSends \in Nat
        /\ Black \in Players /\ White \in Players /\ p \in {Black, White}
        /\ sent[Black] + sent[White] < MaxSends
    BY DeliveryAssumption DEF Click, DeliveryInv, StateOK, Players
  <2>2. sent[Black] \in Nat /\ sent[White] \in Nat
    BY <2>1
  <2>3. sent[p] < MaxSends /\ sent[p] \in Nat
    BY <2>1, <2>2
  <2> QED
    BY <1>0, <2>1, <2>3 DEF Ids
<1>2. /\ new.id = id /\ new.cell = cell /\ new.try = 1 /\ new \in Attempts
      /\ msg.id = id /\ msg.cell = cell /\ msg.try = 1 /\ msg.type = "move"
  BY <1>1 DEF Attempts
<1>3. /\ sent' = [sent EXCEPT ![p] = @ + 1]
      /\ waiting' = [waiting EXCEPT ![p] = @ \cup {new}]
      /\ Send(p, msg)
      /\ UNCHANGED <<on, hist, acks, down, played, refused>>
  BY <1>0 DEF Click, server, history
<1> HIDE DEF new, msg
<1>4. \A q \in Players, i \in Ids : Numbered(q, i) => i # id /\ Numbered(q, i)'
  <2>1. \A i \in Ids : i[2] \in Nat
    BY <1>1 DEF Ids
  <2>2. \A q \in Players : /\ sent[q] \in Nat
                           /\ sent'[q] = IF q = p THEN sent[p] + 1 ELSE sent[q]
    BY <1>3, DeliveryAssumption DEF DeliveryInv, StateOK
  <2> QED
    BY <1>1, <2>1, <2>2 DEF Numbered
<1>5. Numbered(p, id)'
  <2>1. sent'[p] = sent[p] + 1
    BY <1>3 DEF DeliveryInv, StateOK
  <2> QED
    BY <2>1, <1>1 DEF Numbered
<1>6. \A i : (\E q \in Players : Numbered(q, i)) => i \in Ids
  BY DEF Numbered
<1>7. /\ \A q \in Players : \A m \in Moves(q) : m.id # id
      /\ \A q \in Players : \A a \in Answers(q) : a.id # id
      /\ \A q \in Players : \A w \in waiting[q] : w.id # id
      /\ id \notin refused
  BY <1>4, <1>6 DEF DeliveryInv, NumbersOK
<1>8. /\ UpQueuesOK'
      /\ \A q \in Players : q # p => Moves(q)' = Moves(q)
      /\ Moves(p)' = Moves(p) \cup {msg}
  <2>1. \A n \in Moves(p) : n.id = msg.id => n.try < msg.try
    BY <1>2, <1>7
  <2>2. {m \in {msg} : m.type = "move"} = {msg}
    BY <1>2
  <2> QED
    BY <1>3, <2>1, <2>2, SendUp
<1>9. DownQueuesOK' /\ \A q \in Players : Answers(q)' = Answers(q)
  BY <1>3, DownUnchanged
<1>10. /\ \A q \in Players : q # p => waiting'[q] = waiting[q]
       /\ waiting'[p] = waiting[p] \cup {new}
  BY <1>3 DEF DeliveryInv, StateOK
<1>11. StateOK'
  <2>1. waiting' \in [Players -> SUBSET Attempts]
    BY <1>2, <1>3 DEF DeliveryInv, StateOK
  <2>2. sent' \in [Players -> 0..MaxSends]
    BY <1>1, <1>3 DEF DeliveryInv, StateOK
  <2> QED
    BY <2>1, <2>2, <1>3, <1>8, <1>9 DEF DeliveryInv, StateOK, UpQueuesOK, DownQueuesOK
<1>12. NumbersOK'
  BY <1>2, <1>3, <1>4, <1>5, <1>6, <1>8, <1>9, <1>10 DEF DeliveryInv, NumbersOK
<1>13. TriesOK'
  BY <1>2, <1>7, <1>8, <1>9, <1>10 DEF DeliveryInv, TriesOK, UpQueuesOK
<1>14. PlayedOK'
  BY <1>3, <1>9 DEF DeliveryInv, PlayedOK
<1>15. RefusalsOK'
  <2>1. \A i : Known(i)' <=> Known(i)
    BY <1>3 DEF Known
  <2>2. \A q \in Players : \A i : i # id /\ NoCopy(q, i) => NoCopy(q, i)'
    BY <2>1, <1>2, <1>8 DEF NoCopy
  <2> QED
    BY <2>2, <1>2, <1>3, <1>7, <1>9, <1>10 DEF DeliveryInv, RefusalsOK
<1> QED
  BY <1>11, <1>12, <1>13, <1>14, <1>15 DEF DeliveryInv

\* A second try follows the first one in the queue, and the client stops
\* listening to answers of the first.
LEMMA SecondTryKeeps ==
  ASSUME DeliveryInv, NEW p \in Players, NEW w \in waiting[p], w.try = 1,
         waiting' = [waiting EXCEPT ![p] = (waiting[p] \ {w}) \cup {[w EXCEPT !.try = 2]}],
         Send(p, [type |-> "move", id |-> w.id, cell |-> w.cell, try |-> 2]),
         UNCHANGED <<server, sent, down, played, refused>>
  PROVE  DeliveryInv'
<1>0. PICK again, msg : /\ again = [w EXCEPT !.try = 2]
                        /\ msg = [type |-> "move", id |-> w.id, cell |-> w.cell, try |-> 2]
  OBVIOUS
<1>1. w \in Attempts
  BY DEF DeliveryInv, StateOK
<1>2. /\ again.id = w.id /\ again.try = 2 /\ again \in Attempts
      /\ msg.id = w.id /\ msg.cell = w.cell /\ msg.try = 2 /\ msg.type = "move"
      /\ w.cell \in Cells
  BY <1>0, <1>1 DEF Attempts
<1>3. /\ \A q \in Players : q # p => waiting'[q] = waiting[q]
      /\ waiting'[p] = (waiting[p] \ {w}) \cup {again}
  BY <1>0 DEF DeliveryInv, StateOK
<1>4. /\ \A m \in Moves(p) \cup Answers(p) : m.id = w.id => m.try = 1
      /\ \A v \in waiting[p] : v.id = w.id => v = w
      /\ Numbered(p, w.id)
  BY DEF DeliveryInv, TriesOK, NumbersOK
<1>5. /\ UpQueuesOK'
      /\ \A q \in Players : q # p => Moves(q)' = Moves(q)
      /\ Moves(p)' = Moves(p) \cup {msg}
  <2>1. \A n \in Moves(p) : n.id = msg.id => n.try < msg.try
    BY <1>2, <1>4
  <2>2. {m \in {msg} : m.type = "move"} = {msg}
    BY <1>2
  <2>3. Send(p, msg)
    BY <1>0
  <2> QED
    BY <2>1, <2>2, <2>3, SendUp
<1>6. DownQueuesOK' /\ \A q \in Players : Answers(q)' = Answers(q)
  BY DownUnchanged
<1>7. \A q \in Players : \A i : Numbered(q, i) <=> Numbered(q, i)'
  BY DEF Numbered
<1>8. StateOK'
  <2>1. waiting' \in [Players -> SUBSET Attempts]
    BY <1>0, <1>2 DEF DeliveryInv, StateOK
  <2> QED
    BY <2>1, <1>5, <1>6 DEF DeliveryInv, StateOK, UpQueuesOK, DownQueuesOK, server
<1>9. NumbersOK'
  BY <1>2, <1>3, <1>4, <1>5, <1>6, <1>7 DEF DeliveryInv, NumbersOK
<1>10. TriesOK'
  BY <1>2, <1>3, <1>4, <1>5, <1>6 DEF DeliveryInv, TriesOK, UpQueuesOK
<1>11. PlayedOK'
  BY <1>6 DEF DeliveryInv, PlayedOK, server
<1>12. RefusalsOK'
  <2>1. \A i : Known(i)' <=> Known(i)
    BY DEF Known, server
  <2>2. \A q \in Players : \A i : i # w.id /\ NoCopy(q, i) => NoCopy(q, i)'
    BY <2>1, <1>2, <1>5 DEF NoCopy
  <2>3. \A q \in Players : \A i : q # p /\ NoCopy(q, i) => NoCopy(q, i)'
    BY <2>1, <1>5 DEF NoCopy
  <2>4. w.id \notin refused
    BY DEF DeliveryInv, RefusalsOK
  <2>5. ASSUME NEW q \in Players, NEW a \in Answers(q)', a.answer = "error",
               NEW v \in waiting'[q], v.id = a.id, v.try = a.try
        PROVE  NoCopy(q, a.id)'
    <3>1. CASE q = p
      <4>1. v # again
        BY <1>2, <1>4, <1>6, <2>5, <3>1
      <4>2. v \in waiting[p] /\ v.id # w.id
        BY <4>1, <1>3, <1>4, <2>5, <3>1
      <4> QED
        BY <4>2, <1>6, <2>2, <2>5, <3>1 DEF DeliveryInv, RefusalsOK
    <3>2. CASE q # p
      BY <3>2, <1>3, <1>6, <2>3, <2>5 DEF DeliveryInv, RefusalsOK
    <3> QED
      BY <3>1, <3>2
  <2>6. ASSUME NEW i \in refused', NEW q \in Players
        PROVE  NoCopy(q, i)' /\ \A v \in waiting'[q] : v.id # i
    BY <1>2, <1>3, <2>2, <2>4 DEF DeliveryInv, RefusalsOK
  <2> QED
    BY <2>5, <2>6 DEF RefusalsOK
<1> QED
  BY <1>8, <1>9, <1>10, <1>11, <1>12 DEF DeliveryInv

LEMMA TimeoutKeeps ==
  ASSUME DeliveryInv, NEW p \in Players, AckTimeout(p)
  PROVE  DeliveryInv'
<1>1. UNCHANGED <<server, sent, down, played, refused>>
  BY DEF AckTimeout, history
<1>2. PICK w \in waiting[p] :
        \/ /\ waiting' = [waiting EXCEPT ![p] = waiting[p] \ {w}]
           /\ Resync(p) \/ UNCHANGED up
        \/ /\ w.try = 1
           /\ waiting' = [waiting EXCEPT ![p] = (waiting[p] \ {w}) \cup {[w EXCEPT !.try = 2]}]
           /\ Send(p, [type |-> "move", id |-> w.id, cell |-> w.cell, try |-> 2])
  BY DEF AckTimeout, AfterResend
<1>3. CASE /\ waiting' = [waiting EXCEPT ![p] = waiting[p] \ {w}]
           /\ Resync(p) \/ UNCHANGED up
  <2>1. UpQueuesOK' /\ \A q \in Players : Moves(q)' = Moves(q)
    BY <1>3, SendResync, UpUnchanged
  <2>2. DownQueuesOK' /\ \A q \in Players : Answers(q)' = Answers(q)
    BY <1>1, DownUnchanged
  <2>3. /\ waiting' \in [Players -> SUBSET Attempts]
        /\ \A q \in Players : waiting'[q] \subseteq waiting[q]
    BY <1>3 DEF DeliveryInv, StateOK
  <2>4. StateOK'
    BY <1>1, <2>1, <2>2, <2>3 DEF DeliveryInv, StateOK, UpQueuesOK, DownQueuesOK, server
  <2> QED
    BY <1>1, <2>1, <2>2, <2>3, <2>4, LessKeeps DEF UpQueuesOK, server
<1> QED
  BY <1>1, <1>2, <1>3, SecondTryKeeps

\* What arrives is the first copy of its move that is left; a client that still
\* waits for this try has sent no other.
LEMMA ArrivalFacts ==
  ASSUME DeliveryInv, NEW p \in Players, Arrives(p, "move"), NEW m, m = Head(up[p])
  PROVE  /\ m \in Moves(p)
         /\ UpQueuesOK' /\ \A q \in Players : Moves(q)' \subseteq Moves(q)
         /\ \A n \in Moves(p)' : n.id = m.id => m.try < n.try
<1>1. /\ UpQueuesOK' /\ \A q \in Players : Moves(q)' \subseteq Moves(q)
      /\ m \in In(up[p]) /\ m.type = "move"
  BY TakeUp DEF Arrives
<1>2. IsQueue(up[p]) /\ Ordered(up[p]) /\ up[p] # <<>> /\ up'[p] = Tail(up[p])
  BY QueuesOK DEF Arrives, UpQueuesOK
<1>3. ASSUME NEW n \in Moves(p)', n.id = m.id
      PROVE  m.try < n.try
  <2>1. n \in In(Tail(up[p])) /\ n.type = "move"
    BY <1>2, <1>3 DEF Moves
  <2>2. PICK i \in DOMAIN Tail(up[p]) : n = Tail(up[p])[i]
    BY <2>1 DEF In
  <2>3. /\ i \in Nat \ {0} /\ i + 1 \in DOMAIN up[p] /\ n = up[p][i + 1]
        /\ 1 \in DOMAIN up[p] /\ m = up[p][1]
    BY <1>2, <2>2, TailOfQueue
  <2>4. 1 < i + 1
    BY <2>3
  <2> QED
    BY <1>1, <1>2, <1>3, <2>1, <2>3, <2>4 DEF Ordered
<1> QED
  BY <1>1, <1>3 DEF Moves

\* An answer to a move that arrived: what was played stays played, and an
\* "error" is said of a move that is not known and of which, if its client
\* still listens, nothing is left.
LEMMA AnswerKeeps ==
  ASSUME DeliveryInv, NEW p \in Players, Arrives(p, "move"), NEW m, m = Head(up[p]),
         NEW a, a.type = "ack", a.id = m.id, a.try = m.try,
         DownQueuesOK', StateOK',
         \A q \in Players : q # p => Answers(q)' = Answers(q),
         Answers(p)' = Answers(p) \cup {a},
         UNCHANGED <<waiting, sent, refused>>,
         played \subseteq played', played' \subseteq played \cup {m.id},
         \A first \in acks' : \/ first \in acks
                              \/ /\ first.id = m.id /\ m.id \in played'
                                 /\ first.moved.type # "ack" /\ m.id \notin refused,
         a.answer = "ok" => m.id \in played',
         a.answer = "error" => ~Known(m.id)'
  PROVE  DeliveryInv'
<1>1. /\ m \in Moves(p)
      /\ UpQueuesOK' /\ \A q \in Players : Moves(q)' \subseteq Moves(q)
      /\ \A n \in Moves(p)' : n.id = m.id => m.try < n.try
  BY ArrivalFacts
<1>2. \A q \in Players : \A i : Numbered(q, i) <=> Numbered(q, i)'
  BY DEF Numbered
<1>3. /\ Numbered(p, m.id) /\ m.try \in {1, 2}
      /\ \A n \in Moves(p) : n.try \in {1, 2}
  BY <1>1 DEF DeliveryInv, NumbersOK
<1>4. NumbersOK'
  BY <1>1, <1>2, <1>3 DEF DeliveryInv, NumbersOK
<1>5. TriesOK'
  BY <1>1 DEF DeliveryInv, TriesOK, UpQueuesOK
<1>6. PlayedOK'
  <2>1. \A first \in acks' : first.id \in played' /\ first.moved.type # "ack"
    BY DEF DeliveryInv, PlayedOK
  <2>2. \A q \in Players : \A b \in Answers(q)' : b.answer = "ok" => b.id \in played'
    BY DEF DeliveryInv, PlayedOK
  <2> QED
    BY <2>1, <2>2 DEF PlayedOK
<1>7. \A i : i # m.id /\ ~Known(i) => ~Known(i)'
  BY DEF Known
<1>8. \A q \in Players : \A i : i # m.id /\ NoCopy(q, i) => NoCopy(q, i)'
  BY <1>1, <1>7 DEF NoCopy
<1>9. ASSUME NEW q \in Players, NEW b \in Answers(q)', b.answer = "error",
             NEW w \in waiting'[q], w.id = b.id, w.try = b.try
      PROVE  NoCopy(q, b.id)'
  <2>1. CASE b \in Answers(q)
    <3>1. NoCopy(q, b.id)
      BY <1>9, <2>1 DEF DeliveryInv, RefusalsOK
    <3>2. b.id # m.id
      <4>1. CASE q = p
        BY <4>1, <3>1, <1>1 DEF NoCopy
      <4>2. CASE q # p
        BY <4>2, <1>3, <2>1 DEF DeliveryInv, NumbersOK, Numbered
      <4> QED
        BY <4>1, <4>2
    <3> QED
      BY <3>1, <3>2, <1>8
  <2>2. CASE b \notin Answers(q)
    <3>1. q = p /\ b = a
      BY <1>9, <2>2
    <3>2. \A n \in Moves(p)' : n.id # m.id
      <4> SUFFICES ASSUME NEW n \in Moves(p)', n.id = m.id PROVE FALSE
        OBVIOUS
      <4>1. m.try < n.try /\ n \in Moves(p)
        BY <1>1
      <4>2. m.try = 1 /\ n.try = 2
        BY <4>1, <1>3
      <4>3. w \in waiting[p] /\ w.try = 1 /\ n.id = w.id
        BY <1>9, <3>1, <4>2
      <4> QED
        BY <4>1, <4>2, <4>3 DEF DeliveryInv, TriesOK
    <3> QED
      BY <1>9, <3>1, <3>2 DEF NoCopy
  <2> QED
    BY <2>1, <2>2
<1>10. ASSUME NEW i \in refused', NEW q \in Players
       PROVE  NoCopy(q, i)' /\ \A w \in waiting'[q] : w.id # i
  <2>1. NoCopy(q, i) /\ NoCopy(p, i) /\ \A w \in waiting[q] : w.id # i
    BY <1>10 DEF DeliveryInv, RefusalsOK
  <2>2. i # m.id
    BY <2>1, <1>1 DEF NoCopy
  <2> QED
    BY <2>1, <2>2, <1>8
<1>11. RefusalsOK'
  BY <1>9, <1>10 DEF RefusalsOK
<1> QED
  BY <1>4, <1>5, <1>6, <1>11 DEF DeliveryInv

LEMMA ReplayKeeps ==
  ASSUME DeliveryInv, NEW p \in Players, Arrives(p, "move"), NEW m, m = Head(up[p]),
         Replayed(p, m), UNCHANGED <<waiting, sent, refused>>
  PROVE  DeliveryInv' /\ UNCHANGED <<on, hist, acks, played>>
<1>1. PICK first, a : /\ first \in acks /\ first.id = m.id /\ a = Ack(m, "ok")
                      /\ down' = To(p, <<first.moved, a>>)
                      /\ UNCHANGED <<on, hist, acks, played>>
  BY DEF Replayed, NoMove, server
<1>2. a.type = "ack" /\ a.id = m.id /\ a.try = m.try /\ a.answer = "ok"
  BY <1>1 DEF Ack
<1>3. first.id \in played /\ first.moved.type # "ack"
  BY <1>1 DEF DeliveryInv, PlayedOK
<1>4. /\ DownQueuesOK'
      /\ \A q \in Players : q # p => Answers(q)' = Answers(q)
      /\ Answers(p)' = Answers(p) \cup {a}
  <2>1. IsQueue(<<first.moved, a>>) /\ {b \in In(<<first.moved, a>>) : b.type = "ack"} = {a}
    BY <1>2, <1>3, ShortQueues
  <2> QED
    BY <1>1, <2>1, PutDownTo
<1>5. UpQueuesOK'
  BY ArrivalFacts
<1>6. StateOK'
  BY <1>1, <1>4, <1>5 DEF DeliveryInv, StateOK, UpQueuesOK, DownQueuesOK
<1> QED
  BY <1>1, <1>2, <1>3, <1>4, <1>6, AnswerKeeps

LEMMA RejectionKeeps ==
  ASSUME DeliveryInv, NEW p \in Players, Arrives(p, "move"), NEW m, m = Head(up[p]),
         Rejected(p, m), UNCHANGED <<waiting, sent, refused>>
  PROVE  DeliveryInv' /\ UNCHANGED <<on, hist, acks, played>>
<1>1. PICK a : /\ a = Ack(m, IF on THEN "error" ELSE "no game")
               /\ down' = To(p, <<a>>)
               /\ UNCHANGED <<on, hist, acks, played>>
               /\ on => ~Known(m.id)
  BY DEF Rejected, NoMove, server
<1>2. /\ a.type = "ack" /\ a.id = m.id /\ a.try = m.try /\ a.answer # "ok"
      /\ a.answer = "error" => on
  BY <1>1 DEF Ack
<1>3. a.answer = "error" => ~Known(m.id)'
  BY <1>1, <1>2 DEF Known
<1>4. /\ DownQueuesOK'
      /\ \A q \in Players : q # p => Answers(q)' = Answers(q)
      /\ Answers(p)' = Answers(p) \cup {a}
  <2>1. IsQueue(<<a>>) /\ {b \in In(<<a>>) : b.type = "ack"} = {a}
    BY <1>2, ShortQueues
  <2> QED
    BY <1>1, <2>1, PutDownTo
<1>5. UpQueuesOK'
  BY ArrivalFacts
<1>6. StateOK'
  BY <1>1, <1>4, <1>5 DEF DeliveryInv, StateOK, UpQueuesOK, DownQueuesOK
<1> QED
  BY <1>1, <1>2, <1>3, <1>4, <1>6, AnswerKeeps

LEMMA PlayKeeps ==
  ASSUME DeliveryInv, NEW p \in Players, Arrives(p, "move"), NEW m, m = Head(up[p]),
         Applied(p, m), UNCHANGED <<waiting, sent, refused>>
  PROVE  /\ DeliveryInv'
         /\ on /\ on' \in BOOLEAN
         /\ m.id \in Ids /\ m.cell \in Cells /\ ~Known(m.id) /\ m.id \notin refused
         /\ hist' = Append(hist, [id |-> m.id, cell |-> m.cell])
         /\ played' = played \cup {m.id}
         /\ \E moved : acks' = IF on' THEN acks \cup {[id |-> m.id, moved |-> moved]} ELSE {}
<1>0. PICK over \in BOOLEAN :
        LET moved == [type |-> "moved", by |-> p, cell |-> m.cell,
                      turn |-> Opponent(p), count |-> Len(hist) + 1, over |-> over]
            after == IF over THEN <<Ended>> ELSE <<>>
        IN /\ on' = ~over
           /\ acks' = IF over THEN {} ELSE acks \cup {[id |-> m.id, moved |-> moved]}
           /\ down' = [q \in Players |-> down[q] \o
                        (IF q = p THEN <<moved, Ack(m, "ok")>> \o after ELSE <<moved>> \o after)]
  BY DEF Applied
<1>1. PICK moved, a, after :
        /\ moved.type = "moved" /\ a = Ack(m, "ok")
        /\ after = IF over THEN <<Ended>> ELSE <<>>
        /\ on' = ~over
        /\ acks' = IF over THEN {} ELSE acks \cup {[id |-> m.id, moved |-> moved]}
        /\ down' = [q \in Players |-> down[q] \o
                      (IF q = p THEN <<moved, a>> \o after ELSE <<moved>> \o after)]
  <2>1. [type |-> "moved", by |-> p, cell |-> m.cell, turn |-> Opponent(p),
         count |-> Len(hist) + 1, over |-> over].type = "moved"
    OBVIOUS
  <2> QED
    BY <1>0, <2>1
<1>2. a.type = "ack" /\ a.id = m.id /\ a.try = m.try /\ a.answer = "ok"
  BY <1>1 DEF Ack
<1>3. /\ m \in Moves(p) /\ UpQueuesOK'
  BY ArrivalFacts
<1>4. /\ m.id \in Ids /\ m.cell \in Cells /\ m.id \notin refused
  BY <1>3 DEF DeliveryInv, NumbersOK, Numbered, RefusalsOK, NoCopy
<1>5. /\ DownQueuesOK'
      /\ \A q \in Players : q # p => Answers(q)' = Answers(q)
      /\ Answers(p)' = Answers(p) \cup {a}
  <2>1. IsQueue(after) /\ \A b \in In(after) : b.type # "ack"
    BY <1>1, ShortQueues DEF Ended
  <2>2. /\ IsQueue(<<moved>> \o after) /\ In(<<moved>> \o after) = {moved} \cup In(after)
        /\ IsQueue(<<moved, a>> \o after) /\ In(<<moved, a>> \o after) = {moved, a} \cup In(after)
    BY <2>1, ShortQueues, ConcatQueues
  <2> DEFINE extra == [q \in Players |-> IF q = p THEN <<moved, a>> \o after ELSE <<moved>> \o after]
  <2>3. /\ \A q \in Players : IsQueue(extra[q])
        /\ {b \in In(extra[p]) : b.type = "ack"} = {a}
        /\ \A q \in Players : q # p => {b \in In(extra[q]) : b.type = "ack"} = {}
    BY <1>1, <1>2, <2>1, <2>2
  <2>4. down' = [q \in Players |-> down[q] \o extra[q]]
    BY <1>1
  <2> HIDE DEF extra
  <2>5. /\ DownQueuesOK'
        /\ \A q \in Players : Answers(q)' = Answers(q) \cup {b \in In(extra[q]) : b.type = "ack"}
    BY <2>3, <2>4, PutDown
  <2> QED
    BY <2>3, <2>5
<1>6. /\ hist' = Append(hist, [id |-> m.id, cell |-> m.cell])
      /\ played' = played \cup {m.id}
      /\ on /\ ~Known(m.id)
  BY DEF Applied
<1>7. hist' \in Seq([id : Ids, cell : Cells])
  BY <1>4, <1>6 DEF DeliveryInv, StateOK
<1>8. StateOK'
  BY <1>1, <1>3, <1>5, <1>7 DEF DeliveryInv, StateOK, UpQueuesOK, DownQueuesOK
<1>9. \A first \in acks' : \/ first \in acks
                           \/ /\ first.id = m.id /\ m.id \in played'
                              /\ first.moved.type # "ack" /\ m.id \notin refused
  BY <1>1, <1>4, <1>6
<1>10. DeliveryInv'
  BY <1>2, <1>5, <1>6, <1>8, <1>9, AnswerKeeps
<1> QED
  BY <1>1, <1>4, <1>6, <1>10

LEMMA AckKeeps ==
  ASSUME DeliveryInv, NEW p \in Players, OnAck(p)
  PROVE  /\ DeliveryInv'
         /\ UNCHANGED <<on, hist, acks, played>>
         /\ \/ UNCHANGED <<agreed, refused>>
            \/ /\ UNCHANGED refused
               /\ \E id \in played : agreed' = agreed \cup {id}
            \/ /\ UNCHANGED agreed
               /\ \E id \in Ids : ~Known(id) /\ refused' = refused \cup {id}
<1>1. PICK a, live :
        /\ a = Head(down[p]) /\ live = {w \in waiting[p] : w.id = a.id /\ w.try = a.try}
        /\ Delivers(p, "ack")
        /\ waiting' = [waiting EXCEPT ![p] = @ \ live]
        /\ UNCHANGED <<on, hist, acks, sent, up, played>>
        /\ \/ UNCHANGED <<agreed, refused>>
           \/ live # {} /\ a.answer = "ok" /\ agreed' = agreed \cup {a.id} /\ UNCHANGED refused
           \/ /\ live # {} /\ a.answer = "error"
              /\ refused' = refused \cup {a.id} /\ UNCHANGED agreed
  BY DEF OnAck, server
<1>2. /\ DownQueuesOK' /\ \A q \in Players : Answers(q)' \subseteq Answers(q)
      /\ a \in Answers(p)
  BY <1>1, TakeDown DEF Delivers, Answers
<1>3. UpQueuesOK' /\ \A q \in Players : Moves(q)' = Moves(q)
  BY <1>1, UpUnchanged
<1>4. /\ waiting' \in [Players -> SUBSET Attempts]
      /\ \A q \in Players : q # p => waiting'[q] = waiting[q]
      /\ waiting'[p] = waiting[p] \ live
  BY <1>1 DEF DeliveryInv, StateOK
<1>5. StateOK'
  BY <1>1, <1>2, <1>3, <1>4 DEF DeliveryInv, StateOK, UpQueuesOK, DownQueuesOK
<1>6. CASE UNCHANGED refused
  <2>1. DeliveryInv'
    BY <1>1, <1>2, <1>3, <1>4, <1>5, <1>6, LessKeeps DEF UpQueuesOK
  <2>2. a.answer = "ok" => a.id \in played
    BY <1>2 DEF DeliveryInv, PlayedOK
  <2>3. a.id \in Ids
    BY <1>2 DEF DeliveryInv, NumbersOK, Numbered
  <2>4. live # {} /\ a.answer = "error" => ~Known(a.id)
    BY <1>1, <1>2 DEF DeliveryInv, RefusalsOK, NoCopy
  <2> QED
    BY <1>1, <1>6, <2>1, <2>2, <2>3, <2>4
<1>7. CASE live # {} /\ a.answer = "error" /\ refused' = refused \cup {a.id} /\ UNCHANGED agreed
  <2>1. NoCopy(p, a.id) /\ Numbered(p, a.id)
    BY <1>1, <1>2, <1>7 DEF DeliveryInv, RefusalsOK, NumbersOK
  <2>2. \A w \in waiting'[p] : w.id # a.id
    BY <1>1, <1>4, <1>7 DEF DeliveryInv, TriesOK
  <2>3. \A q \in Players : q # p =>
          /\ NoCopy(q, a.id)
          /\ \A w \in waiting[q] : w.id # a.id
    BY <2>1 DEF DeliveryInv, NumbersOK, Numbered, NoCopy
  <2>4. \A q \in Players : \A i : Numbered(q, i) <=> Numbered(q, i)'
    BY <1>1 DEF Numbered
  <2>5. \A q \in Players : \A i : NoCopy(q, i) <=> NoCopy(q, i)'
    BY <1>1, <1>3 DEF NoCopy, Known
  <2>6. NumbersOK'
    BY <1>2, <1>3, <1>4, <1>7, <2>1, <2>4 DEF DeliveryInv, NumbersOK
  <2>7. TriesOK'
    BY <1>2, <1>3, <1>4 DEF DeliveryInv, TriesOK, UpQueuesOK
  <2>8. PlayedOK'
    BY <1>1, <1>2 DEF DeliveryInv, PlayedOK
  <2>9. RefusalsOK'
    <3>1. ASSUME NEW q \in Players, NEW b \in Answers(q)', b.answer = "error",
                 NEW w \in waiting'[q], w.id = b.id, w.try = b.try
          PROVE  NoCopy(q, b.id)'
      BY <1>2, <1>4, <2>5, <3>1 DEF DeliveryInv, RefusalsOK
    <3>2. ASSUME NEW i \in refused', NEW q \in Players
          PROVE  NoCopy(q, i)' /\ \A w \in waiting'[q] : w.id # i
      <4>1. CASE i = a.id
        BY <4>1, <2>1, <2>2, <2>3, <2>5, <1>4
      <4>2. CASE i \in refused
        BY <4>2, <1>4, <2>5 DEF DeliveryInv, RefusalsOK
      <4> QED
        BY <4>1, <4>2, <3>2, <1>7
    <3> QED
      BY <3>1, <3>2 DEF RefusalsOK
  <2>10. DeliveryInv'
    BY <1>5, <2>6, <2>7, <2>8, <2>9 DEF DeliveryInv
  <2> QED
    BY <1>1, <1>7, <2>1, <2>10 DEF NoCopy, Numbered
<1> QED
  BY <1>1, <1>6, <1>7

-----------------------------------------------------------------------------
\* The theorems.

\* What a step does to the ledger.
LedgerStep == [Ledger!Next]_(Ledger!ledger)

LEMMA QuietStep ==
  ASSUME UNCHANGED <<on, hist, acks, played, agreed, refused>>
  PROVE  LedgerStep
  BY DEF LedgerStep, Ledger!ledger

LEMMA KnownNumbers == \A id : Known(id) <=> id \in {first.id : first \in acks}
  BY DEF Known

LEMMA ReceiveStep ==
  ASSUME DeliveryInv, NEW p \in Players, ReceiveMove(p)
  PROVE  DeliveryInv' /\ LedgerStep
<1>1. PICK m : m = Head(up[p])
  OBVIOUS
<1>2. /\ Arrives(p, "move") /\ UNCHANGED <<waiting, sent, refused, agreed>>
      /\ Replayed(p, m) \/ Rejected(p, m) \/ Applied(p, m)
  BY <1>1 DEF ReceiveMove, client
<1>3. CASE Replayed(p, m)
  BY <1>1, <1>2, <1>3, ReplayKeeps, QuietStep
<1>4. CASE Rejected(p, m)
  BY <1>1, <1>2, <1>4, RejectionKeeps, QuietStep
<1>5. CASE Applied(p, m)
  <2>1. /\ DeliveryInv'
        /\ on /\ on' \in BOOLEAN
        /\ m.id \in Ids /\ m.cell \in Cells /\ ~Known(m.id) /\ m.id \notin refused
        /\ hist' = Append(hist, [id |-> m.id, cell |-> m.cell])
        /\ played' = played \cup {m.id}
        /\ \E moved : acks' = IF on' THEN acks \cup {[id |-> m.id, moved |-> moved]} ELSE {}
    BY <1>1, <1>2, <1>5, PlayKeeps
  <2>2. {first.id : first \in acks'} =
          IF on' THEN {first.id : first \in acks} \cup {m.id} ELSE {}
    <3>1. PICK moved : acks' = IF on' THEN acks \cup {[id |-> m.id, moved |-> moved]} ELSE {}
      BY <2>1
    <3>2. CASE ~on'
      BY <3>1, <3>2
    <3>3. CASE on'
      <4>1. PICK new : new = [id |-> m.id, moved |-> moved]
        OBVIOUS
      <4>2. new.id = m.id /\ acks' = acks \cup {new}
        BY <3>1, <3>3, <4>1
      <4>3. {first.id : first \in acks \cup {new}} = {first.id : first \in acks} \cup {new.id}
        OBVIOUS
      <4> QED
        BY <3>3, <4>2, <4>3
    <3> QED
      BY <2>1, <3>2, <3>3
  <2>3. m.id \in Ids \ ({first.id : first \in acks} \cup refused)
    BY <2>1, KnownNumbers
  <2>4. Ledger!Enter
    BY <1>2, <2>1, <2>2, <2>3 DEF Ledger!Enter
  <2> QED
    BY <2>1, <2>4 DEF LedgerStep, Ledger!Next
<1> QED
  BY <1>2, <1>3, <1>4, <1>5

LEMMA AckStep ==
  ASSUME DeliveryInv, NEW p \in Players, OnAck(p)
  PROVE  DeliveryInv' /\ LedgerStep
<1>1. /\ DeliveryInv'
      /\ UNCHANGED <<on, hist, acks, played>>
      /\ \/ UNCHANGED <<agreed, refused>>
         \/ /\ UNCHANGED refused
            /\ \E id \in played : agreed' = agreed \cup {id}
         \/ /\ UNCHANGED agreed
            /\ \E id \in Ids : ~Known(id) /\ refused' = refused \cup {id}
  BY AckKeeps
<1>2. CASE UNCHANGED <<agreed, refused>>
  BY <1>1, <1>2, QuietStep
<1>3. CASE UNCHANGED refused /\ \E id \in played : agreed' = agreed \cup {id}
  <2>1. Ledger!Accept
    BY <1>1, <1>3 DEF Ledger!Accept
  <2> QED
    BY <1>1, <2>1 DEF LedgerStep, Ledger!Next
<1>4. CASE UNCHANGED agreed /\ \E id \in Ids : ~Known(id) /\ refused' = refused \cup {id}
  <2>1. Ledger!Refuse
    BY <1>1, <1>4, KnownNumbers DEF Ledger!Refuse
  <2> QED
    BY <1>1, <2>1 DEF LedgerStep, Ledger!Next
<1> QED
  BY <1>1, <1>2, <1>3, <1>4

LEMMA DeliveryStep ==
  ASSUME DeliveryInv, [Next]_vars
  PROVE  DeliveryInv' /\ LedgerStep
<1>1. CASE UNCHANGED vars
  <2>1. UNCHANGED <<on, hist, acks, waiting, sent, up, down, played, agreed, refused>>
    BY <1>1 DEF vars, server, client, history
  <2>2. DeliveryInv'
    BY <2>1, UpUnchanged, DownUnchanged, Bystanders DEF server
  <2> QED
    BY <2>1, <2>2, QuietStep
<1>2. CASE NextGame
  <2>1. /\ ~on /\ on' = TRUE /\ hist' = <<>> /\ acks' = {}
        /\ UNCHANGED <<played, agreed, refused>>
    BY <1>2 DEF NextGame, history
  <2>2. Ledger!NewGame
    BY <2>1 DEF Ledger!NewGame
  <2> QED
    BY <1>2, <2>2, NextGameKeeps DEF LedgerStep, Ledger!Next
<1>3. ASSUME NEW p \in Players, ReceiveMove(p)
      PROVE  DeliveryInv' /\ LedgerStep
  BY <1>3, ReceiveStep
<1>4. ASSUME NEW p \in Players, ReceiveResync(p)
      PROVE  DeliveryInv' /\ LedgerStep
  BY <1>4, ResyncKeeps, QuietStep DEF ReceiveResync, server, history
<1>5. ASSUME NEW p \in Players, Undo(p)
      PROVE  DeliveryInv' /\ LedgerStep
  <2>1. DeliveryInv' /\ \E n \in 0..Len(hist) : hist' = SubSeq(hist, 1, n)
    BY <1>5, UndoKeeps
  <2>2. on /\ UNCHANGED <<on, acks, played, agreed, refused>>
    BY <1>5 DEF Undo, history
  <2>3. Ledger!TakeBack
    BY <2>1, <2>2 DEF Ledger!TakeBack
  <2> QED
    BY <2>1, <2>3 DEF LedgerStep, Ledger!Next
<1>6. ASSUME NEW p \in Players, NEW cell \in Cells, Click(p, cell)
      PROVE  DeliveryInv' /\ LedgerStep
  BY <1>6, ClickKeeps, QuietStep DEF Click, server, history
<1>7. ASSUME NEW p \in Players, AckTimeout(p)
      PROVE  DeliveryInv' /\ LedgerStep
  BY <1>7, TimeoutKeeps, QuietStep DEF AckTimeout, server, history
<1>8. ASSUME NEW p \in Players, MoveConfirm(p) \/ TurnWatchdog(p)
      PROVE  DeliveryInv' /\ LedgerStep
  BY <1>8, WatchdogsKeep, QuietStep DEF MoveConfirm, TurnWatchdog, server, history
<1>9. ASSUME NEW p \in Players, OnMoved(p) \/ OnJoined(p) \/ OnUndoApplied(p) \/ OnEnded(p) \/ OnInit(p)
      PROVE  DeliveryInv' /\ LedgerStep
  <2>1. UNCHANGED <<on, hist, acks, played, agreed, refused>>
    BY <1>9 DEF OnMoved, OnJoined, OnUndoApplied, OnEnded, OnInit, server, history
  <2> QED
    BY <1>9, <2>1, DeliveryKeeps, QuietStep
<1>10. ASSUME NEW p \in Players, OnAck(p)
       PROVE  DeliveryInv' /\ LedgerStep
  BY <1>10, AckStep
<1>11. ASSUME NEW p \in Players, Lose(p)
       PROVE  DeliveryInv' /\ LedgerStep
  BY <1>11, LossKeeps, QuietStep DEF Lose, server, history
<1> QED
  BY <1>1, <1>2, <1>3, <1>4, <1>5, <1>6, <1>7, <1>8, <1>9, <1>10, <1>11 DEF Next, Deliver

\* The copies of a move are where the invariant says, for any number of games,
\* moves, undos and of packets that are lost or late.
THEOREM DeliveryInvariance == Spec => []DeliveryInv
<1>1. DeliveryInv /\ [Next]_vars => DeliveryInv'
  BY DeliveryStep
<1> QED
  BY InitDelivery, <1>1, PTL DEF Spec

\* A move is played at most once in a game (_moveAcks of GameHandler.js), an
\* "ok" is said of moves that were played and an "error" that reaches sendMove
\* in time of moves that no copy can play any more.
THEOREM DeliveryImplementsLedger == Spec => ImplementsLedger
<1>1. Init => Ledger!Init
  BY DEF Init, Ledger!Init
<1>2. DeliveryInv /\ [Next]_vars => LedgerStep
  BY DeliveryStep
<1> QED
  BY <1>1, <1>2, DeliveryInvariance, PTL DEF Spec, ImplementsLedger, Ledger!Spec, LedgerStep


-----------------------------------------------------------------------------
(***************************************************************************)
(* What a player sees is a past position of the game.                      *)
(*                                                                         *)
(* Deltas bear no number of their game, so what has to be known of a       *)
(* packet depends on those before it: once a player has the running game,  *)
(* or will have it by the time a packet arrives, the packet is of that     *)
(* game and tells of a move that stands, as long as nothing was undone.    *)
(* Whole states say which game they are of; those of the running one are   *)
(* past positions of it wherever they are.                                 *)
(***************************************************************************)

Positions == [game : Nat, board : [Cells -> Players \cup {None}], turn : Players,
              count : Nat, status : {"ongoing", "finished"}]

\* The states a packet brings.
Brings(m) ==
  IF m.type = "init" THEN {m.state}
  ELSE IF m.type = "joined" /\ m.state # <<>> THEN {m.state[1]} ELSE {}

PacketOK(m) ==
  /\ m.type \in {"moved", "ack", "ended", "joined", "undo", "init"}
  /\ m.type = "moved" => /\ m.by \in Players /\ m.cell \in Cells /\ m.turn \in Players
                         /\ m.count \in Nat /\ m.over \in BOOLEAN
  /\ m.type = "undo" => m.turn \in Players /\ m.count \in Nat
  /\ \A s \in Brings(m) : s \in Positions /\ s.game <= game

PacketsOK(p) == \A i \in DOMAIN down[p] : PacketOK(down[p][i])

ViewsOK ==
  /\ game \in Nat /\ undos \in Nat
  /\ view \in [Players -> Positions]
  /\ \A p \in Players : view[p].game <= game
  /\ \A first \in acks : first.moved.type = "moved" /\ PacketOK(first.moved)
  /\ \A i, j \in DOMAIN hist : hist[i].cell = hist[j].cell => i = j

Current(s) == s.game = game

IsPast(s) ==
  LET past == SubSeq(hist, 1, s.count)
  IN s.count <= Len(hist) /\ s.board = Board(past) /\ s.turn = Turn(past)

\* A packet of the running game, whose move stands.
Fits(m) ==
  /\ m.type # "undo"
  /\ m.type = "moved" =>
       /\ m.count \in DOMAIN hist
       /\ m.cell = hist[m.count].cell
       /\ m.by = Owner(m.count)
       /\ m.turn = Turn(SubSeq(hist, 1, m.count))

\* Whether p has the running game when the i-th packet arrives, if none is lost.
KnowsGame(p, i) ==
  Current(view[p]) \/ \E j \in 1..(i - 1) : \E s \in Brings(down[p][j]) : Current(s)

ViewPast(p) == Current(view[p]) => IsPast(view[p])

QueuePast(p) ==
  \A i \in DOMAIN down[p] :
    /\ \A s \in Brings(down[p][i]) : Current(s) => IsPast(s)
    /\ KnowsGame(p, i) => Fits(down[p][i])

PastInv ==
  /\ ViewsOK
  /\ \A p \in Players : PacketsOK(p)
  /\ undos = 0 =>
       /\ \A first \in acks : Fits(first.moved)
       /\ \A p \in Players : ViewPast(p) /\ QueuePast(p)

\* Turns and boards.

LEMMA TurnFacts ==
  /\ \A n \in Nat : n % 2 \in {0, 1} /\ (n % 2 = 0 <=> (n + 1) % 2 = 1)
  /\ \A p \in Players : Opponent(p) \in Players /\ Opponent(p) # p
  /\ \A n \in Nat : Owner(n) \in Players
  /\ \A h : Turn(h) \in Players
  BY DeliveryAssumption DEF Players, Opponent, Owner, Turn

LEMMA PrefixFacts ==
  ASSUME NEW S, NEW h \in Seq(S), NEW n \in 0..Len(h)
  PROVE  /\ SubSeq(h, 1, n) \in Seq(S) /\ Len(SubSeq(h, 1, n)) = n
         /\ DOMAIN SubSeq(h, 1, n) = 1..n
         /\ \A i \in 1..n : SubSeq(h, 1, n)[i] = h[i]
         /\ DOMAIN h = 1..Len(h) /\ Len(h) \in Nat
<1>1. Len(h) \in Nat /\ DOMAIN h = 1..Len(h)
  BY LenProperties
<1>2. 1 \in 1..(Len(h) + 1) /\ n \in (1 - 1)..Len(h)
  BY <1>1
<1>3. /\ SubSeq(h, 1, n) \in Seq(S)
      /\ Len(SubSeq(h, 1, n)) = n - 1 + 1
      /\ \A i \in 1..(n - 1 + 1) : SubSeq(h, 1, n)[i] = h[1 + i - 1]
  BY <1>2, SubSeqProperties
<1>4. n - 1 + 1 = n /\ \A i \in 1..n : 1 + i - 1 = i
  BY <1>1
<1>5. DOMAIN SubSeq(h, 1, n) = 1..n
  BY <1>3, <1>4, LenProperties
<1> QED
  BY <1>1, <1>3, <1>4, <1>5

LEMMA WholePrefix ==
  ASSUME NEW S, NEW h \in Seq(S)
  PROVE  SubSeq(h, 1, Len(h)) = h
<1>1. Len(h) \in 0..Len(h)
  BY LenProperties
<1>2. /\ SubSeq(h, 1, Len(h)) \in Seq(S)
      /\ Len(SubSeq(h, 1, Len(h))) = Len(h)
      /\ \A i \in 1..Len(h) : SubSeq(h, 1, Len(h))[i] = h[i]
  BY <1>1, PrefixFacts
<1> QED
  BY <1>2, SeqEqual

\* What is played later does not change the past.
LEMMA PrefixOfLonger ==
  ASSUME NEW S, NEW h \in Seq(S), NEW x \in S, NEW n \in 0..Len(h)
  PROVE  SubSeq(Append(h, x), 1, n) = SubSeq(h, 1, n)
<1>1. /\ Append(h, x) \in Seq(S) /\ Len(Append(h, x)) = Len(h) + 1 /\ Len(h) \in Nat
      /\ \A i \in 1..Len(h) : Append(h, x)[i] = h[i]
  BY AppendProperties, LenProperties
<1>2. n \in 0..Len(Append(h, x)) /\ n \in Nat
  BY <1>1
<1>3. /\ SubSeq(Append(h, x), 1, n) \in Seq(S) /\ Len(SubSeq(Append(h, x), 1, n)) = n
      /\ \A i \in 1..n : SubSeq(Append(h, x), 1, n)[i] = Append(h, x)[i]
  BY <1>1, <1>2, PrefixFacts
<1>4. /\ SubSeq(h, 1, n) \in Seq(S) /\ Len(SubSeq(h, 1, n)) = n
      /\ \A i \in 1..n : SubSeq(h, 1, n)[i] = h[i]
  BY PrefixFacts
<1>5. \A i \in 1..n : Append(h, x)[i] = h[i]
  BY <1>1
<1> QED
  BY <1>3, <1>4, <1>5, SeqEqual

Distinct(h) == \A i, j \in DOMAIN h : h[i].cell = h[j].cell => i = j

Entries == [id : Ids, cell : Cells]

\* The position after one more move is the one before it and the stone of that
\* move.
LEMMA BoardGrows ==
  ASSUME NEW h \in Seq(Entries), Distinct(h), NEW n \in 1..Len(h)
  PROVE  /\ Board(SubSeq(h, 1, n)) = [Board(SubSeq(h, 1, n - 1)) EXCEPT ![h[n].cell] = Owner(n)]
         /\ Turn(SubSeq(h, 1, n)) = IF n % 2 = 0 THEN Black ELSE White
         /\ h[n].cell \in Cells
<1> DEFINE new == SubSeq(h, 1, n)
           old == SubSeq(h, 1, n - 1)
<1>1. n \in 0..Len(h) /\ n - 1 \in 0..Len(h) /\ n \in Nat
  BY LenProperties
<1>2. /\ DOMAIN h = 1..Len(h) /\ Len(h) \in Nat
      /\ DOMAIN new = 1..n /\ Len(new) = n /\ \A i \in 1..n : new[i] = h[i]
      /\ DOMAIN old = 1..(n - 1) /\ \A i \in 1..(n - 1) : old[i] = h[i]
  BY <1>1, PrefixFacts
<1>3. h[n].cell \in Cells
  <2>1. h[n] \in Entries
    BY <1>1, <1>2, ElementOfSeq
  <2> QED
    BY <2>1 DEF Entries
<1>4. ASSUME NEW c \in Cells
      PROVE  Board(new)[c] = IF c = h[n].cell THEN Owner(n) ELSE Board(old)[c]
  <2>1. CASE c = h[n].cell
    <3>1. n \in DOMAIN new /\ new[n].cell = c
      BY <1>1, <1>2, <2>1
    <3>2. \A i \in DOMAIN new : new[i].cell = c => i = n
      BY <1>1, <1>2, <2>1 DEF Distinct
    <3>3. (CHOOSE i \in DOMAIN new : new[i].cell = c) = n
      BY <3>1, <3>2
    <3> QED
      BY <2>1, <3>1, <3>3 DEF Board
  <2>2. CASE c # h[n].cell
    <3>1. \A i : i \in DOMAIN new /\ new[i].cell = c <=> i \in DOMAIN old /\ old[i].cell = c
      BY <1>1, <1>2, <2>2
    <3>2. CASE \E k \in DOMAIN old : old[k].cell = c
      <4>1. PICK k \in DOMAIN old : old[k].cell = c
        BY <3>2
      <4>2. k \in DOMAIN new /\ new[k].cell = c
        BY <3>1, <4>1
      <4>3. \A i : i \in DOMAIN new /\ new[i].cell = c => i = k
        BY <1>1, <1>2, <4>2 DEF Distinct
      <4>4. (CHOOSE i \in DOMAIN new : new[i].cell = c) = k
        BY <4>2, <4>3
      <4>5. (CHOOSE i \in DOMAIN old : old[i].cell = c) = k
        BY <3>1, <4>1, <4>3
      <4> QED
        BY <2>2, <4>1, <4>2, <4>4, <4>5 DEF Board
    <3>3. CASE ~\E k \in DOMAIN old : old[k].cell = c
      BY <2>2, <3>1, <3>3 DEF Board
    <3> QED
      BY <3>2, <3>3
  <2> QED
    BY <2>1, <2>2
<1>5. Board(new) = [c \in Cells |-> Board(new)[c]] /\ Board(old) = [c \in Cells |-> Board(old)[c]]
  BY DEF Board
<1>6. Board(new) = [Board(old) EXCEPT ![h[n].cell] = Owner(n)]
  <2> HIDE DEF new, old
  <2> QED
    BY <1>3, <1>4, <1>5
<1>7. Turn(new) = IF n % 2 = 0 THEN Black ELSE White
  BY <1>2 DEF Turn
<1> QED
  BY <1>3, <1>6, <1>7


\* What is past stays past, and a packet that fits keeps fitting, while the
\* game goes on.
LEMMA PastStays ==
  ASSUME DeliveryInv, UNCHANGED game,
         hist' = hist \/ \E x \in Entries : hist' = Append(hist, x)
  PROVE  /\ \A s : s.count \in Nat /\ IsPast(s) => IsPast(s)'
         /\ \A m : Fits(m) => Fits(m)'
         /\ \A s : Current(s)' <=> Current(s)
<1>1. hist \in Seq(Entries) /\ Len(hist) \in Nat /\ DOMAIN hist = 1..Len(hist)
  BY LenProperties DEF DeliveryInv, StateOK, Entries
<1>2. CASE hist' = hist
  BY <1>2 DEF IsPast, Fits, Current
<1>3. ASSUME NEW x \in Entries, hist' = Append(hist, x)
      PROVE  /\ \A s : s.count \in Nat /\ IsPast(s) => IsPast(s)'
             /\ \A m : Fits(m) => Fits(m)'
  <2>1. /\ \A n \in 0..Len(hist) : SubSeq(hist', 1, n) = SubSeq(hist, 1, n)
        /\ Len(hist') = Len(hist) + 1 /\ DOMAIN hist' = 1..(Len(hist) + 1)
        /\ \A n \in DOMAIN hist : hist'[n] = hist[n]
    <3>1. /\ hist' \in Seq(Entries) /\ Len(hist') = Len(hist) + 1
          /\ \A i \in 1..Len(hist) : hist'[i] = hist[i]
      BY <1>1, <1>3, AppendProperties
    <3>2. \A n \in 0..Len(hist) : SubSeq(hist', 1, n) = SubSeq(hist, 1, n)
      BY <1>1, <1>3, PrefixOfLonger
    <3> QED
      BY <1>1, <3>1, <3>2, LenProperties
  <2>2. ASSUME NEW s, s.count \in Nat, IsPast(s)
        PROVE  IsPast(s)'
    <3>1. s.count \in 0..Len(hist) /\ s.count <= Len(hist')
      BY <1>1, <2>1, <2>2 DEF IsPast
    <3>2. SubSeq(hist', 1, s.count) = SubSeq(hist, 1, s.count)
      BY <2>1, <3>1
    <3> QED
      BY <2>2, <3>1, <3>2 DEF IsPast
  <2>3. ASSUME NEW m, Fits(m)
        PROVE  Fits(m)'
    <3>1. CASE m.type = "moved"
      <4>1. m.count \in DOMAIN hist
        BY <2>3, <3>1 DEF Fits
      <4>2. m.count \in 0..Len(hist) /\ m.count \in DOMAIN hist' /\ hist'[m.count] = hist[m.count]
        BY <1>1, <2>1, <4>1
      <4>3. SubSeq(hist', 1, m.count) = SubSeq(hist, 1, m.count)
        BY <2>1, <4>2
      <4> QED
        BY <2>3, <4>2, <4>3 DEF Fits
    <3>2. CASE m.type # "moved"
      BY <2>3, <3>2 DEF Fits
    <3> QED
      BY <3>1, <3>2
  <2> QED
    BY <2>2, <2>3
<1>4. \A s : Current(s)' <=> Current(s)
  BY DEF Current
<1> QED
  BY <1>2, <1>3, <1>4

\* A packet leaves the queue of p.  If it brought p the running game, those
\* behind it fit already.
LEMMA TakePast ==
  ASSUME DeliveryInv, UNCHANGED <<game, hist>>, NEW p \in Players,
         IsQueue(down[p]), down[p] # <<>>, down'[p] = Tail(down[p]),
         PacketsOK(p),
         Current(view[p])' => Current(view[p]) \/ \E s \in Brings(Head(down[p])) : Current(s)
  PROVE  /\ PacketsOK(p)'
         /\ QueuePast(p) => QueuePast(p)'
<1>1. /\ Head(down[p]) = down[p][1] /\ 1 \in DOMAIN down[p]
      /\ \A i \in DOMAIN down'[p] :
           i \in Nat \ {0} /\ i + 1 \in DOMAIN down[p] /\ down'[p][i] = down[p][i + 1]
  BY TailOfQueue
<1>2. down[p] \in Seq(In(down[p])) /\ DOMAIN down[p] = 1..Len(down[p]) /\ Len(down[p]) \in Nat
  BY LenProperties DEF IsQueue
<1>3. DOMAIN down'[p] = 1..Len(down'[p]) /\ Len(down'[p]) \in Nat
  <2>1. IsQueue(Tail(down[p]))
    BY TailOfQueue
  <2>2. Tail(down[p]) \in Seq(In(Tail(down[p])))
    BY <2>1 DEF IsQueue
  <2> QED
    BY <2>2, LenProperties
<1>4. PacketsOK(p)'
  BY <1>1 DEF PacketsOK, PacketOK
<1>5. ASSUME NEW i \in DOMAIN down'[p], KnowsGame(p, i)'
      PROVE  KnowsGame(p, i + 1)
  <2>1. i \in Nat \ {0} /\ 1 \in 1..(i + 1 - 1)
    BY <1>1
  <2>2. CASE Current(view[p])'
    BY <1>1, <2>1, <2>2 DEF KnowsGame
  <2>3. ASSUME NEW j \in 1..(i - 1), NEW s \in Brings(down'[p][j]), Current(s)'
        PROVE  KnowsGame(p, i + 1)
    <3>1. j \in DOMAIN down'[p] /\ j + 1 \in 1..(i + 1 - 1)
      BY <1>3, <2>1
    <3>2. down'[p][j] = down[p][j + 1] /\ Current(s)
      BY <1>1, <2>3, <3>1 DEF Current
    <3> QED
      BY <2>3, <3>1, <3>2 DEF KnowsGame
  <2> QED
    BY <1>5, <2>2, <2>3 DEF KnowsGame
<1>6. ASSUME QueuePast(p), NEW i \in DOMAIN down'[p], NEW m, m = down'[p][i]
      PROVE  /\ \A s \in Brings(m) : Current(s)' => IsPast(s)'
             /\ KnowsGame(p, i)' => Fits(m)'
  <2>1. i + 1 \in DOMAIN down[p] /\ m = down[p][i + 1]
    BY <1>1, <1>6
  <2>2. KnowsGame(p, i)' => Fits(m)
    BY <1>5, <1>6, <2>1 DEF QueuePast
  <2>3. Fits(m) => Fits(m)'
    BY DEF Fits
  <2>4. \A s \in Brings(m) : Current(s)' => IsPast(s)'
    BY <1>6, <2>1 DEF QueuePast, Current, IsPast
  <2> QED
    BY <2>2, <2>3, <2>4
<1>7. QueuePast(p) => QueuePast(p)'
  BY <1>6 DEF QueuePast, Brings, Fits
<1> QED
  BY <1>4, <1>7

\* Packets that fit are added to the queue of p, which may learn nothing else.
LEMMA PutPast ==
  ASSUME DeliveryInv, UNCHANGED game,
         hist' = hist \/ \E x \in Entries : hist' = Append(hist, x),
         NEW p \in Players, UNCHANGED view[p], PacketsOK(p),
         NEW extra, IsQueue(extra), IsQueue(down[p]), down'[p] = down[p] \o extra,
         \A m \in In(extra) : PacketOK(m)
  PROVE  /\ PacketsOK(p)'
         /\ QueuePast(p) /\ (\A m \in In(extra) :
               Fits(m)' /\ \A s \in Brings(m) : Current(s) => IsPast(s)') => QueuePast(p)'
<1>1. /\ DOMAIN down[p] = 1..Len(down[p]) /\ Len(down[p]) \in Nat
      /\ \A i \in DOMAIN down'[p] :
           \/ i \in DOMAIN down[p] /\ down'[p][i] = down[p][i]
           \/ down'[p][i] \in In(extra) /\ i \notin DOMAIN down[p]
      /\ DOMAIN down[p] \subseteq DOMAIN down'[p]
  BY GrownQueue
<1>2. PacketsOK(p)'
  BY <1>1 DEF PacketsOK, PacketOK
<1>3. ASSUME NEW i \in DOMAIN down[p]
      PROVE  KnowsGame(p, i)' <=> KnowsGame(p, i)
  <2>1. \A j \in 1..(i - 1) : j \in DOMAIN down[p]
    BY <1>1
  <2>2. \A j \in 1..(i - 1) : down'[p][j] = down[p][j]
    BY <1>1, <2>1
  <2> QED
    BY <2>2 DEF KnowsGame, Current
<1>4. ASSUME QueuePast(p),
             \A m \in In(extra) : Fits(m)' /\ \A s \in Brings(m) : Current(s) => IsPast(s)',
             NEW i \in DOMAIN down'[p], NEW m, m = down'[p][i]
      PROVE  /\ \A s \in Brings(m) : Current(s)' => IsPast(s)'
             /\ KnowsGame(p, i)' => Fits(m)'
  <2>1. CASE i \in DOMAIN down[p] /\ m = down[p][i]
    <3>1. KnowsGame(p, i)' => Fits(m)
      BY <1>3, <1>4, <2>1 DEF QueuePast
    <3>2. \A s \in Brings(m) : s.count \in Nat /\ (Current(s) => IsPast(s))
      BY <1>4, <2>1 DEF QueuePast, PacketsOK, PacketOK, Positions
    <3> QED
      BY <3>1, <3>2, PastStays
  <2>2. CASE m \in In(extra)
    BY <1>4, <2>2, PastStays
  <2> QED
    BY <1>1, <1>4, <2>1, <2>2
<1>5. QueuePast(p) /\ (\A m \in In(extra) :
         Fits(m)' /\ \A s \in Brings(m) : Current(s) => IsPast(s)') => QueuePast(p)'
  BY <1>4 DEF QueuePast, Brings, Fits
<1> QED
  BY <1>2, <1>5

\* Nothing is sent to p.
LEMMA KeepPast ==
  ASSUME DeliveryInv, UNCHANGED game,
         hist' = hist \/ \E x \in Entries : hist' = Append(hist, x),
         NEW p \in Players, UNCHANGED <<view[p], down[p]>>, PacketsOK(p)
  PROVE  PacketsOK(p)' /\ (QueuePast(p) => QueuePast(p)')
<1>1. PacketsOK(p)'
  BY DEF PacketsOK, PacketOK
<1>2. \A i : KnowsGame(p, i)' <=> KnowsGame(p, i)
  BY DEF KnowsGame, Current
<1>3. ASSUME QueuePast(p), NEW i \in DOMAIN down[p], NEW m, m = down[p][i]
      PROVE  /\ \A s \in Brings(m) : Current(s)' => IsPast(s)'
             /\ KnowsGame(p, i)' => Fits(m)'
  <2>1. \A s \in Brings(m) : s.count \in Nat /\ (Current(s) => IsPast(s))
    BY <1>3 DEF QueuePast, PacketsOK, PacketOK, Positions
  <2>2. KnowsGame(p, i)' => Fits(m)
    BY <1>2, <1>3 DEF QueuePast
  <2> QED
    BY <2>1, <2>2, PastStays
<1>4. QueuePast(p) => QueuePast(p)'
  BY <1>3 DEF QueuePast, Brings, Fits
<1> QED
  BY <1>1, <1>4


\* A new game is the past of a game without moves.
LEMMA FreshFacts ==
  /\ SubSeq(<<>>, 1, 0) = <<>> /\ Len(<<>>) = 0
  /\ \A g : /\ Fresh(g).game = g
            /\ Fresh(g).count <= Len(<<>>)
            /\ Fresh(g).board = Board(SubSeq(<<>>, 1, Fresh(g).count))
            /\ Fresh(g).turn = Turn(SubSeq(<<>>, 1, Fresh(g).count))
  /\ \A g \in Nat : Fresh(g) \in Positions
<1>1. <<>> \in Seq(Entries) /\ Len(<<>>) = 0
  OBVIOUS
<1>2. SubSeq(<<>>, 1, 0) = <<>>
  BY <1>1, WholePrefix
<1>3. \A g : /\ Fresh(g).game = g /\ Fresh(g).count = 0
             /\ Fresh(g).board = Board(<<>>) /\ Fresh(g).turn = Turn(<<>>)
  BY DEF Fresh, Turn
<1>4. \A g \in Nat : Fresh(g) \in Positions
  BY DEF Fresh, Positions, Board, Players
<1>5. ASSUME NEW g
      PROVE  /\ Fresh(g).count <= Len(<<>>)
             /\ SubSeq(<<>>, 1, Fresh(g).count) = <<>>
  BY <1>1, <1>2, <1>3
<1> QED
  BY <1>1, <1>2, <1>3, <1>4, <1>5

LEMMA InitPast == Init => PastInv
<1> SUFFICES ASSUME Init PROVE PastInv
  OBVIOUS
<1>1. /\ game = 1 /\ undos = 0 /\ hist = <<>> /\ acks = {}
      /\ view = [p \in Players |-> Fresh(1)] /\ down = [p \in Players |-> <<>>]
  BY DEF Init
<1>2. Fresh(1) \in Positions /\ Fresh(1).game = 1
  BY DEF Fresh, Positions, Board, Players
<1>3. IsPast(Fresh(1))
  BY <1>1, FreshFacts DEF IsPast
<1>4. \A p \in Players : view[p] = Fresh(1) /\ DOMAIN down[p] = {}
  BY <1>1
<1>5. ViewsOK
  BY <1>1, <1>2, <1>4 DEF ViewsOK
<1> QED
  BY <1>1, <1>3, <1>4, <1>5 DEF PastInv, PacketsOK, ViewPast, QueuePast

LEMMA ViewStays ==
  ASSUME DeliveryInv, ViewsOK, UNCHANGED game,
         hist' = hist \/ \E x \in Entries : hist' = Append(hist, x),
         NEW p \in Players, UNCHANGED view[p], ViewPast(p)
  PROVE  ViewPast(p)'
<1> DEFINE v == view[p]
<1>1. v.count \in Nat /\ v' = v
  BY DEF ViewsOK, Positions
<1>2. Current(v) => IsPast(v)
  BY DEF ViewPast
<1>3. \A s : s.count \in Nat /\ (Current(s) => IsPast(s)) => (Current(s)' => IsPast(s)')
  BY PastStays
<1>4. \A s : s = v' => (Current(s)' => IsPast(s)')
  BY <1>1, <1>2, <1>3
<1> QED
  BY <1>4 DEF ViewPast, Current, IsPast

\* Nobody sees anything new and nothing is sent by the server.
LEMMA CalmKeeps ==
  ASSUME DeliveryInv, PastInv, UNCHANGED <<hist, game, undos, view>>, acks' \subseteq acks,
         \A p \in Players : \/ down'[p] = down[p]
                            \/ down[p] # <<>> /\ down'[p] = Tail(down[p])
  PROVE  PastInv'
<1>1. ViewsOK'
  BY DEF PastInv, ViewsOK, PacketOK
<1>2. ASSUME NEW p \in Players
      PROVE  /\ PacketsOK(p)' /\ (QueuePast(p) => QueuePast(p)')
             /\ ViewPast(p) => ViewPast(p)'
  <2>1. IsQueue(down[p]) /\ PacketsOK(p) /\ ViewsOK /\ view'[p] = view[p]
    BY DEF DeliveryInv, StateOK, PastInv
  <2>2. Current(view[p])' => Current(view[p])
    BY DEF Current
  <2>3. PacketsOK(p)' /\ (QueuePast(p) => QueuePast(p)')
    <3>1. CASE down'[p] = down[p]
      BY <2>1, <3>1, KeepPast
    <3>2. CASE down[p] # <<>> /\ down'[p] = Tail(down[p])
      BY <2>1, <2>2, <3>2, TakePast
    <3> QED
      BY <3>1, <3>2
  <2> QED
    BY <2>1, <2>3, ViewStays
<1>3. \A m : Fits(m) => Fits(m)'
  BY DEF Fits
<1> QED
  BY <1>1, <1>2, <1>3 DEF PastInv

\* The server sends something while the game goes on.
LEMMA SentKeeps ==
  ASSUME DeliveryInv, PastInv, UNCHANGED <<game, undos, view>>,
         hist' = hist \/ \E x \in Entries : hist' = Append(hist, x),
         Distinct(hist)',
         \A first \in acks' : /\ first.moved.type = "moved" /\ PacketOK(first.moved)
                              /\ undos = 0 => Fits(first.moved)',
         NEW extra,
         \A p \in Players : /\ IsQueue(extra[p]) /\ down'[p] = down[p] \o extra[p]
                            /\ \A m \in In(extra[p]) : PacketOK(m),
         undos = 0 => \A p \in Players : \A m \in In(extra[p]) :
                        Fits(m)' /\ \A s \in Brings(m) : Current(s) => IsPast(s)'
  PROVE  PastInv'
<1>1. ViewsOK'
  BY DEF PastInv, ViewsOK, PacketOK, Distinct
<1>2. ASSUME NEW p \in Players
      PROVE  /\ PacketsOK(p)'
             /\ undos = 0 => QueuePast(p)' /\ ViewPast(p)'
  <2>1. IsQueue(down[p]) /\ PacketsOK(p) /\ ViewsOK /\ view'[p] = view[p]
    BY DEF DeliveryInv, StateOK, PastInv
  <2>2. undos = 0 => QueuePast(p) /\ ViewPast(p)
    BY DEF PastInv
  <2>3. /\ IsQueue(extra[p]) /\ down'[p] = down[p] \o extra[p]
        /\ \A m \in In(extra[p]) : PacketOK(m)
    OBVIOUS
  <2>4. PacketsOK(p)' /\ (undos = 0 => QueuePast(p)')
    BY <2>1, <2>2, <2>3, PutPast
  <2> QED
    BY <2>1, <2>2, <2>4, ViewStays
<1> QED
  BY <1>1, <1>2 DEF PastInv

\* A packet gives p a new view.
LEMMA SeenKeeps ==
  ASSUME DeliveryInv, PastInv, UNCHANGED <<hist, acks, game, undos>>,
         NEW p \in Players, NEW v \in Positions, v.game <= game, SetView(p, v),
         down[p] # <<>>, down' = [down EXCEPT ![p] = Tail(@)],
         Current(v) => Current(view[p]) \/ \E s \in Brings(Head(down[p])) : Current(s),
         undos = 0 /\ Current(v) => IsPast(v)
  PROVE  PastInv'
<1>1. /\ view' \in [Players -> Positions] /\ view'[p] = v
      /\ \A q \in Players : q # p => view'[q] = view[q] /\ down'[q] = down[q]
      /\ down'[p] = Tail(down[p])
  BY DEF PastInv, ViewsOK, SetView, DeliveryInv, StateOK
<1>2. ViewsOK'
  <2>1. \A q \in Players : view'[q].game <= game
    BY <1>1 DEF PastInv, ViewsOK
  <2> QED
    BY <1>1, <2>1 DEF PastInv, ViewsOK, PacketOK
<1>3. ASSUME NEW q \in Players, q # p
      PROVE  /\ PacketsOK(q)' /\ (QueuePast(q) => QueuePast(q)')
             /\ ViewPast(q) => ViewPast(q)'
  BY <1>1, <1>3, KeepPast, ViewStays DEF PastInv
<1>4. PacketsOK(p)' /\ (QueuePast(p) => QueuePast(p)')
  <2>1. IsQueue(down[p]) /\ PacketsOK(p)
    BY DEF DeliveryInv, StateOK, PastInv
  <2>2. Current(view[p])' => Current(view[p]) \/ \E s \in Brings(Head(down[p])) : Current(s)
    BY <1>1 DEF Current
  <2> QED
    BY <1>1, <2>1, <2>2, TakePast
<1>5. undos = 0 => ViewPast(p)'
  BY <1>1 DEF ViewPast, Current, IsPast
<1>6. \A m : Fits(m) => Fits(m)'
  BY DEF Fits
<1>7. undos' = 0 => /\ \A first \in acks' : Fits(first.moved)'
                    /\ \A q \in Players : ViewPast(q)' /\ QueuePast(q)'
  BY <1>3, <1>4, <1>5, <1>6 DEF PastInv
<1> QED
  BY <1>2, <1>3, <1>4, <1>7 DEF PastInv


\* The client's own steps, a loss, and packets that show nothing new.
LEMMA ClientsKeepPast ==
  ASSUME DeliveryInv, PastInv, NEW p \in Players,
         \/ \E cell \in Cells : Click(p, cell)
         \/ AckTimeout(p) \/ MoveConfirm(p) \/ TurnWatchdog(p)
         \/ OnAck(p) \/ Lose(p)
  PROVE  PastInv'
<1>1. UNCHANGED <<hist, game, undos, view, acks>>
  BY DEF Click, AckTimeout, MoveConfirm, TurnWatchdog, OnAck, Lose, server, client
<1>2. down' = down \/ (down[p] # <<>> /\ down' = [down EXCEPT ![p] = Tail(@)])
  BY DEF Click, AckTimeout, MoveConfirm, TurnWatchdog, OnAck, Delivers, Lose
<1>3. \A q \in Players : \/ down'[q] = down[q]
                         \/ down[q] # <<>> /\ down'[q] = Tail(down[q])
  BY <1>2 DEF DeliveryInv, StateOK
<1> QED
  BY <1>1, <1>3, CalmKeeps

\* The first packet of the queue of somebody who has the running game fits.
LEMMA HeadFits ==
  ASSUME DeliveryInv, PastInv, NEW p \in Players, down[p] # <<>>
  PROVE  /\ PacketOK(Head(down[p]))
         /\ undos = 0 =>
              /\ Current(view[p]) => IsPast(view[p]) /\ Fits(Head(down[p]))
              /\ \A s \in Brings(Head(down[p])) : Current(s) => IsPast(s)
         /\ view[p] \in Positions /\ view[p].game <= game /\ game \in Nat
<1>1. 1 \in DOMAIN down[p] /\ Head(down[p]) = down[p][1]
  BY TailOfQueue DEF DeliveryInv, StateOK
<1>2. view[p] \in Positions /\ view[p].game <= game /\ game \in Nat
  BY DEF PastInv, ViewsOK
<1> QED
  BY <1>1, <1>2 DEF PastInv, PacketsOK, QueuePast, ViewPast, KnowsGame

\* A delta lands on the state it was computed from.
LEMMA MovedKeepsPast ==
  ASSUME DeliveryInv, PastInv, NEW p \in Players, OnMoved(p)
  PROVE  PastInv'
<1> DEFINE d == Head(down[p])
           v == WithMove(view[p], d)
<1>1. /\ down[p] # <<>> /\ d.type = "moved" /\ down' = [down EXCEPT ![p] = Tail(@)]
      /\ UNCHANGED <<hist, acks, game, undos>>
      /\ \/ UNCHANGED view
         \/ ~Stale(d, view[p]) /\ ~Gap(d, view[p]) /\ SetView(p, v)
  BY DEF OnMoved, Delivers, server, client
<1>2. CASE UNCHANGED view
  <2>1. \A q \in Players : \/ down'[q] = down[q]
                           \/ down[q] # <<>> /\ down'[q] = Tail(down[q])
    BY <1>1 DEF DeliveryInv, StateOK
  <2> QED
    BY <1>1, <1>2, <2>1, CalmKeeps
<1>3. CASE ~Stale(d, view[p]) /\ ~Gap(d, view[p]) /\ SetView(p, v)
  <2>1. /\ PacketOK(d) /\ view[p] \in Positions /\ view[p].game <= game
        /\ undos = 0 /\ Current(view[p]) => IsPast(view[p]) /\ Fits(d)
    BY <1>1, HeadFits
  <2>2. /\ d.by \in Players /\ d.cell \in Cells /\ d.turn \in Players
        /\ d.count \in Nat /\ d.over \in BOOLEAN
    BY <1>1, <2>1 DEF PacketOK
  <2>3. /\ v \in Positions /\ v.game = view[p].game /\ v.count = d.count /\ v.turn = d.turn
        /\ v.board = [view[p].board EXCEPT ![d.cell] = d.by]
    BY <2>1, <2>2 DEF WithMove, Positions
  <2>4. d.count = view[p].count + 1
    BY <1>3, <2>1, <2>2 DEF Stale, Gap, Positions
  <2>5. ASSUME undos = 0, Current(v)
        PROVE  IsPast(v)
    <3>1. Current(view[p]) /\ IsPast(view[p]) /\ Fits(d)
      BY <2>1, <2>3, <2>5 DEF Current
    <3>2. /\ hist \in Seq(Entries) /\ Distinct(hist) /\ DOMAIN hist = 1..Len(hist)
          /\ Len(hist) \in Nat
      BY LenProperties DEF DeliveryInv, StateOK, Entries, PastInv, ViewsOK, Distinct
    <3>3. /\ d.count \in 1..Len(hist) /\ d.cell = hist[d.count].cell
          /\ d.by = Owner(d.count) /\ d.turn = Turn(SubSeq(hist, 1, d.count))
      BY <1>1, <3>1, <3>2 DEF Fits
    <3>4. view[p].count = d.count - 1
      BY <2>1, <2>2, <2>4 DEF Positions
    <3>5. view[p].board = Board(SubSeq(hist, 1, d.count - 1))
      BY <3>1, <3>4 DEF IsPast
    <3>6. Board(SubSeq(hist, 1, d.count)) = v.board
      BY <2>3, <3>2, <3>3, <3>5, BoardGrows
    <3>7. v.count <= Len(hist)
      BY <2>3, <3>2, <3>3
    <3> HIDE DEF v, d
    <3> QED
      BY <2>3, <3>3, <3>6, <3>7 DEF IsPast
  <2> HIDE DEF v
  <2>6. v.game <= game /\ (Current(v) => Current(view[p]))
    BY <2>1, <2>3 DEF Current
  <2> QED
    BY <1>1, <1>3, <2>3, <2>5, <2>6, SeenKeeps
<1> QED
  BY <1>1, <1>2, <1>3

\* A whole state is that of a past of its game, and brings what follows it.
LEMMA StatesKeepPast ==
  ASSUME DeliveryInv, PastInv, NEW p \in Players, OnJoined(p) \/ OnInit(p)
  PROVE  PastInv'
<1> DEFINE d == Head(down[p])
<1>1. /\ down[p] # <<>> /\ down' = [down EXCEPT ![p] = Tail(@)]
      /\ UNCHANGED <<hist, acks, game, undos>>
      /\ UNCHANGED view \/ \E s \in Brings(d) : SetView(p, s)
  BY DEF OnJoined, OnInit, Delivers, server, Brings
<1>2. CASE UNCHANGED view
  <2>1. \A q \in Players : \/ down'[q] = down[q]
                           \/ down[q] # <<>> /\ down'[q] = Tail(down[q])
    BY <1>1 DEF DeliveryInv, StateOK
  <2> QED
    BY <1>1, <1>2, <2>1, CalmKeeps
<1>3. ASSUME NEW s \in Brings(d), SetView(p, s)
      PROVE  PastInv'
  <2>1. s \in Positions /\ s.game <= game /\ (undos = 0 /\ Current(s) => IsPast(s))
    BY <1>1, HeadFits DEF PacketOK
  <2> QED
    BY <1>1, <1>3, <2>1, SeenKeeps
<1> QED
  BY <1>1, <1>2, <1>3

\* The end of the game shows no other position; an undo is of a game in which
\* something was undone.
LEMMA NoticesKeepPast ==
  ASSUME DeliveryInv, PastInv, NEW p \in Players, OnEnded(p) \/ OnUndoApplied(p)
  PROVE  PastInv'
<1> DEFINE d == Head(down[p])
<1>1. /\ down[p] # <<>> /\ down' = [down EXCEPT ![p] = Tail(@)]
      /\ UNCHANGED <<hist, acks, game, undos>>
  BY DEF OnEnded, OnUndoApplied, Delivers, server
<1>2. /\ PacketOK(d) /\ view[p] \in Positions /\ view[p].game <= game
      /\ undos = 0 /\ Current(view[p]) => IsPast(view[p]) /\ Fits(d)
  BY <1>1, HeadFits
<1>3. CASE OnEnded(p)
  <2> DEFINE v == [view[p] EXCEPT !.status = "finished"]
  <2>1. /\ SetView(p, v) /\ v \in Positions /\ v.game = view[p].game
        /\ v.count = view[p].count /\ v.board = view[p].board /\ v.turn = view[p].turn
    BY <1>2, <1>3 DEF OnEnded, Positions
  <2> HIDE DEF v
  <2>2. v.game <= game /\ (Current(v) => Current(view[p]))
        /\ (undos = 0 /\ Current(v) => IsPast(v))
    BY <1>2, <2>1 DEF Current, IsPast
  <2> QED
    BY <1>1, <2>1, <2>2, SeenKeeps
<1>4. CASE OnUndoApplied(p)
  <2>1. d.type = "undo" /\ d.turn \in Players /\ d.count \in Nat
    BY <1>2, <1>4 DEF OnUndoApplied, Delivers, PacketOK
  <2> DEFINE board == [c \in Cells |-> IF c \in d.cleared THEN None ELSE view[p].board[c]]
             v == [view[p] EXCEPT !.board = board, !.turn = d.turn, !.count = d.count]
  <2>2. board \in [Cells -> Players \cup {None}]
    BY <1>2 DEF Positions
  <2>3. SetView(p, v)
    BY <1>4 DEF OnUndoApplied
  <2>4. v \in Positions /\ v.game = view[p].game
    <3> HIDE DEF board, d
    <3> QED
      BY <1>2, <2>1, <2>2 DEF Positions
  <2> HIDE DEF v
  <2>5. v.game <= game /\ (Current(v) => Current(view[p]))
        /\ (undos = 0 /\ Current(v) => IsPast(v))
    BY <1>2, <2>1, <2>4 DEF Current, Fits
  <2> QED
    BY <1>1, <2>3, <2>4, <2>5, SeenKeeps
<1> QED
  BY <1>3, <1>4


\* The server answers one player and plays nothing.
LEMMA AnswerKeepsPast ==
  ASSUME DeliveryInv, PastInv, UNCHANGED <<hist, acks, game, undos, view>>,
         NEW p \in Players, NEW msgs, IsQueue(msgs), down' = To(p, msgs),
         \A m \in In(msgs) : PacketOK(m),
         undos = 0 => \A m \in In(msgs) : Fits(m) /\ \A s \in Brings(m) : Current(s) => IsPast(s)
  PROVE  PastInv'
<1> DEFINE extra == [q \in Players |-> IF q = p THEN msgs ELSE <<>>]
<1>1. ASSUME NEW q \in Players
      PROVE  /\ IsQueue(extra[q]) /\ down'[q] = down[q] \o extra[q]
             /\ In(extra[q]) \subseteq In(msgs)
  <2>1. IsQueue(down[q]) /\ down[q] \in Seq(In(down[q]))
    BY DEF DeliveryInv, StateOK, IsQueue
  <2>2. down'[q] = IF q = p THEN down[p] \o msgs ELSE down[q]
    BY DEF To, DeliveryInv, StateOK
  <2>3. down[q] \o <<>> = down[q]
    BY <2>1, ConcatEmptySeq
  <2> QED
    BY <2>2, <2>3, ShortQueues
<1>2. /\ \A m : Fits(m) => Fits(m)'
      /\ \A s : (Current(s) => IsPast(s)) => (Current(s) => IsPast(s)')
  BY DEF Fits, Current, IsPast
<1>3. \A first \in acks' : /\ first.moved.type = "moved" /\ PacketOK(first.moved)
                           /\ undos = 0 => Fits(first.moved)'
  BY <1>2 DEF PastInv, ViewsOK
<1>4. Distinct(hist)'
  BY DEF PastInv, ViewsOK, Distinct
<1>5. \A q \in Players : /\ IsQueue(extra[q]) /\ down'[q] = down[q] \o extra[q]
                         /\ \A m \in In(extra[q]) : PacketOK(m)
  BY <1>1
<1>6. undos = 0 => \A q \in Players : \A m \in In(extra[q]) :
                     Fits(m)' /\ \A s \in Brings(m) : Current(s) => IsPast(s)'
  BY <1>1, <1>2
<1> HIDE DEF extra
<1> QED
  BY <1>3, <1>4, <1>5, <1>6, SentKeeps

LEMMA ResyncKeepsPast ==
  ASSUME DeliveryInv, PastInv, NEW p \in Players, ReceiveResync(p)
  PROVE  PastInv'
<1> DEFINE msg == [type |-> "joined", state |-> IF on THEN <<Serialized>> ELSE <<>>]
<1>1. down' = To(p, <<msg>>) /\ UNCHANGED <<hist, acks, game, undos, view>>
  BY DEF ReceiveResync, server, client
<1>2. IsQueue(<<msg>>) /\ In(<<msg>>) = {msg}
  BY ShortQueues
<1>3. msg.type = "joined" /\ Brings(msg) \subseteq {Serialized}
  BY DEF Brings
<1>4. /\ Serialized.game = game /\ Serialized.count = Len(hist)
      /\ Serialized.board = Board(hist) /\ Serialized.turn = Turn(hist)
  BY DEF Serialized
<1>5. /\ hist \in Seq(Entries) /\ Len(hist) \in Nat /\ DOMAIN hist = 1..Len(hist)
      /\ SubSeq(hist, 1, Len(hist)) = hist
  BY LenProperties, WholePrefix DEF DeliveryInv, StateOK, Entries
<1>6. IsPast(Serialized)
  <2>1. SubSeq(hist, 1, Serialized.count) = hist /\ Serialized.count <= Len(hist)
    BY <1>4, <1>5
  <2> QED
    BY <1>4, <2>1 DEF IsPast
<1>7. Serialized \in Positions
  <2>1. Board(hist) \in [Cells -> Players \cup {None}]
    <3>1. \A c \in Cells : (\E i \in DOMAIN hist : hist[i].cell = c) =>
            (CHOOSE i \in DOMAIN hist : hist[i].cell = c) \in Nat
      BY <1>5
    <3> QED
      BY <3>1, TurnFacts DEF Board
  <2> QED
    BY <1>5, <2>1, TurnFacts DEF Serialized, Positions, PastInv, ViewsOK
<1> HIDE DEF msg
<1>8. PacketOK(msg) /\ Fits(msg)
  BY <1>3, <1>4, <1>7 DEF PacketOK, Fits, PastInv, ViewsOK
<1> QED
  BY <1>1, <1>2, <1>3, <1>6, <1>8, AnswerKeepsPast

LEMMA RefusalKeepsPast ==
  ASSUME DeliveryInv, PastInv, NEW p \in Players, NEW m,
         Replayed(p, m) \/ Rejected(p, m), UNCHANGED view
  PROVE  PastInv'
<1>1. ASSUME NEW answer
      PROVE  LET a == Ack(m, answer) IN PacketOK(a) /\ Fits(a) /\ Brings(a) = {}
  BY DEF Ack, PacketOK, Fits, Brings
<1>2. CASE Rejected(p, m)
  <2>1. PICK answer : down' = To(p, <<Ack(m, answer)>>)
    BY <1>2 DEF Rejected
  <2>2. UNCHANGED <<hist, acks, game, undos, view>>
    BY <1>2 DEF Rejected, NoMove, server
  <2>3. IsQueue(<<Ack(m, answer)>>) /\ In(<<Ack(m, answer)>>) = {Ack(m, answer)}
    BY ShortQueues
  <2> QED
    BY <1>1, <2>1, <2>2, <2>3, AnswerKeepsPast
<1>3. CASE Replayed(p, m)
  <2>1. PICK first \in acks : down' = To(p, <<first.moved, Ack(m, "ok")>>)
    BY <1>3 DEF Replayed
  <2>2. UNCHANGED <<hist, acks, game, undos, view>>
    BY <1>3 DEF Replayed, NoMove, server
  <2>3. /\ IsQueue(<<first.moved, Ack(m, "ok")>>)
        /\ In(<<first.moved, Ack(m, "ok")>>) = {first.moved, Ack(m, "ok")}
    BY ShortQueues
  <2>4. /\ PacketOK(first.moved) /\ Brings(first.moved) = {}
        /\ undos = 0 => Fits(first.moved)
    BY DEF PastInv, ViewsOK, Brings
  <2> QED
    BY <1>1, <2>1, <2>2, <2>3, <2>4, AnswerKeepsPast
<1> QED
  BY <1>2, <1>3

\* A move that is played tells of itself.
LEMMA PlayKeepsPast ==
  ASSUME DeliveryInv, PastInv, NEW p \in Players, NEW m, m.id \in Ids, m.cell \in Cells,
         Applied(p, m), UNCHANGED view
  PROVE  PastInv'
<1> DEFINE x == [id |-> m.id, cell |-> m.cell]
<1>0. PICK over \in BOOLEAN : \E moved :
        /\ moved = [type |-> "moved", by |-> p, cell |-> m.cell,
                    turn |-> Opponent(p), count |-> Len(hist) + 1, over |-> over]
        /\ acks' = IF over THEN {} ELSE acks \cup {[id |-> m.id, moved |-> moved]}
        /\ down' = [q \in Players |-> down[q] \o
                      (IF q = p THEN <<moved, Ack(m, "ok")>> \o (IF over THEN <<Ended>> ELSE <<>>)
                                ELSE <<moved>> \o (IF over THEN <<Ended>> ELSE <<>>))]
  BY DEF Applied
<1>1. PICK moved :
        /\ moved = [type |-> "moved", by |-> p, cell |-> m.cell,
                    turn |-> Opponent(p), count |-> Len(hist) + 1, over |-> over]
        /\ acks' = IF over THEN {} ELSE acks \cup {[id |-> m.id, moved |-> moved]}
        /\ down' = [q \in Players |-> down[q] \o
                      (IF q = p THEN <<moved, Ack(m, "ok")>> \o (IF over THEN <<Ended>> ELSE <<>>)
                                ELSE <<moved>> \o (IF over THEN <<Ended>> ELSE <<>>))]
  BY <1>0
<1> DEFINE after == IF over THEN <<Ended>> ELSE <<>>
           extra == [q \in Players |->
                       IF q = p THEN <<moved, Ack(m, "ok")>> \o after ELSE <<moved>> \o after]
<1>2. /\ hist' = Append(hist, x) /\ x \in Entries /\ UNCHANGED <<game, undos, view>>
      /\ Turn(hist) = p /\ \A i \in DOMAIN hist : hist[i].cell # m.cell
  BY DEF Applied, Legal, Entries
<1>3. /\ hist \in Seq(Entries) /\ Len(hist) \in Nat /\ DOMAIN hist = 1..Len(hist)
      /\ hist' \in Seq(Entries) /\ Len(hist') = Len(hist) + 1
      /\ DOMAIN hist' = 1..(Len(hist) + 1)
      /\ \A i \in 1..Len(hist) : hist'[i] = hist[i]
      /\ hist'[Len(hist) + 1] = x
  <2>1. hist \in Seq(Entries)
    BY DEF DeliveryInv, StateOK, Entries
  <2> QED
    BY <1>2, <2>1, AppendProperties, LenProperties
<1>4. Distinct(hist)'
  <2>1. Distinct(hist)
    BY DEF PastInv, ViewsOK, Distinct
  <2>2. \A i \in DOMAIN hist' : i \in 1..Len(hist) \/ i = Len(hist) + 1
    BY <1>3
  <2>3. x.cell = m.cell
    OBVIOUS
  <2> HIDE DEF x
  <2> QED
    BY <1>2, <1>3, <2>1, <2>2, <2>3 DEF Distinct
<1>5. PacketOK(moved) /\ Brings(moved) = {} /\ moved.type = "moved"
  BY <1>1, <1>3, TurnFacts DEF PacketOK, Brings
<1>6. Fits(moved)'
  <2>1. /\ SubSeq(hist', 1, Len(hist')) = hist' /\ Len(hist') \in DOMAIN hist'
        /\ hist'[Len(hist')].cell = m.cell
    BY <1>3, WholePrefix
  <2>2. p = Owner(Len(hist) + 1) /\ Opponent(p) = Turn(hist')
    <3> DEFINE n == Len(hist)
    <3>1. n \in Nat /\ Len(hist') = n + 1
      BY <1>3
    <3>2. n % 2 = 0 <=> (n + 1) % 2 = 1
      BY <3>1, TurnFacts
    <3>3. p = IF n % 2 = 0 THEN Black ELSE White
      BY <1>2 DEF Turn
    <3>4. (n + 1) % 2 \in {0, 1}
      BY <3>1, TurnFacts
    <3> HIDE DEF n
    <3>5. p = (IF (n + 1) % 2 = 1 THEN Black ELSE White)
      BY <3>2, <3>3
    <3>6. Opponent(p) = (IF (n + 1) % 2 = 0 THEN Black ELSE White)
      BY <3>4, <3>5, DeliveryAssumption DEF Opponent
    <3> QED
      BY <3>1, <3>5, <3>6 DEF Owner, Turn, n
  <2>3. /\ moved.type = "moved" /\ moved.count = Len(hist) + 1 /\ moved.cell = m.cell
        /\ moved.by = p /\ moved.turn = Opponent(p)
    BY <1>1
  <2>4. /\ moved.count \in DOMAIN hist' /\ moved.cell = hist'[moved.count].cell
        /\ moved.by = Owner(moved.count) /\ moved.turn = Turn(SubSeq(hist', 1, moved.count))
    BY <1>3, <2>1, <2>2, <2>3
  <2> QED
    BY <2>3, <2>4 DEF Fits
<1>7. LET a == Ack(m, "ok") IN PacketOK(a) /\ Fits(a)' /\ Brings(a) = {}
  BY DEF Ack, PacketOK, Fits, Brings
<1>8. PacketOK(Ended) /\ Fits(Ended)' /\ Brings(Ended) = {}
  BY DEF Ended, PacketOK, Fits, Brings
<1> DEFINE a == Ack(m, "ok")
<1> HIDE DEF a, x
<1>9. ASSUME NEW q \in Players
      PROVE  IsQueue(extra[q]) /\ In(extra[q]) \subseteq {moved, a, Ended}
  <2>1. /\ IsQueue(after) /\ In(after) \subseteq {Ended}
        /\ IsQueue(<<moved, a>>) /\ In(<<moved, a>>) = {moved, a}
        /\ IsQueue(<<moved>>) /\ In(<<moved>>) = {moved}
    BY ShortQueues
  <2>2. extra[q] = (IF q = p THEN <<moved, a>> \o after ELSE <<moved>> \o after)
    BY DEF a
  <2> HIDE DEF after, extra
  <2> QED
    BY <2>1, <2>2, ConcatQueues
<1>10. \A q \in Players : down'[q] = down[q] \o extra[q]
  BY <1>1 DEF after
<1>11. \A first \in acks' : /\ first.moved.type = "moved" /\ PacketOK(first.moved)
                            /\ undos = 0 => Fits(first.moved)'
  <2>1. \A first \in acks : /\ first.moved.type = "moved" /\ PacketOK(first.moved)
                            /\ undos = 0 => Fits(first.moved)
    BY DEF PastInv, ViewsOK
  <2>2. \A n : Fits(n) => Fits(n)'
    BY <1>2, PastStays
  <2>3. \A first \in acks' : first \in acks \/ first.moved = moved
    BY <1>1
  <2> QED
    BY <1>5, <1>6, <2>1, <2>2, <2>3 DEF Fits
<1> HIDE DEF extra
<1>12. \A q \in Players : /\ IsQueue(extra[q]) /\ down'[q] = down[q] \o extra[q]
                          /\ \A n \in In(extra[q]) : PacketOK(n)
  BY <1>5, <1>7, <1>8, <1>9, <1>10 DEF a
<1>13. \A q \in Players : \A n \in In(extra[q]) :
         Fits(n)' /\ \A s \in Brings(n) : Current(s) => IsPast(s)'
  <2> SUFFICES ASSUME NEW q \in Players, NEW n \in In(extra[q])
               PROVE  Fits(n)' /\ \A s \in Brings(n) : Current(s) => IsPast(s)'
    OBVIOUS
  <2>1. n = moved \/ n = a \/ n = Ended
    BY <1>9
  <2>2. CASE n = moved
    BY <1>5, <1>6, <2>2 DEF Fits
  <2>3. CASE n = a
    BY <1>7, <2>3 DEF a, Fits
  <2>4. CASE n = Ended
    BY <1>8, <2>4 DEF Fits
  <2> QED
    BY <2>1, <2>2, <2>3, <2>4
<1> QED
  BY <1>2, <1>4, <1>11, <1>12, <1>13, SentKeeps


\* Something is taken back: nothing is promised of the rest of this game.
LEMMA UndoKeepsPast ==
  ASSUME DeliveryInv, PastInv, NEW p \in Players, Undo(p)
  PROVE  PastInv'
<1>1. PICK last \in DOMAIN hist :
        /\ hist' = SubSeq(hist, 1, last - 1)
        /\ \E msg : /\ down' = Everybody(msg)
                    /\ msg.type = "undo" /\ msg.turn = p /\ msg.count = last - 1
  <2>1. PICK last \in DOMAIN hist :
          /\ hist' = SubSeq(hist, 1, last - 1)
          /\ down' = Everybody([type |-> "undo", turn |-> p, count |-> last - 1,
                                cleared |-> {hist[i].cell : i \in last..Len(hist)}])
    BY DEF Undo
  <2>2. \E msg : /\ down' = Everybody(msg)
                 /\ msg.type = "undo" /\ msg.turn = p /\ msg.count = last - 1
    <3> DEFINE u == [type |-> "undo", turn |-> p, count |-> last - 1,
                     cleared |-> {hist[i].cell : i \in last..Len(hist)}]
    <3>1. down' = Everybody(u) /\ u.type = "undo" /\ u.turn = p /\ u.count = last - 1
      BY <2>1
    <3> HIDE DEF u
    <3> QED
      BY <3>1
  <2> QED
    BY <2>1, <2>2
<1> PICK msg : /\ down' = Everybody(msg)
               /\ msg.type = "undo" /\ msg.turn = p /\ msg.count = last - 1
  BY <1>1
<1>2. UNCHANGED <<acks, game, view>> /\ undos' = undos + 1
  BY DEF Undo, client
<1>3. undos' \in Nat /\ undos' # 0
  BY <1>2 DEF PastInv, ViewsOK
<1>4. hist \in Seq(Entries)
  BY DEF DeliveryInv, StateOK, Entries
<1>5. last \in 1..Len(hist) /\ Len(hist) \in Nat /\ last - 1 \in 0..Len(hist) /\ last - 1 \in Nat
  <2>1. last \in 1..Len(hist) /\ Len(hist) \in Nat
    BY <1>1, <1>4, LenProperties
  <2> QED
    BY <2>1
<1>6. \A i, j \in DOMAIN hist' : hist'[i].cell = hist'[j].cell => i = j
  <2>1. /\ DOMAIN SubSeq(hist, 1, last - 1) = 1..(last - 1)
        /\ \A i \in 1..(last - 1) : SubSeq(hist, 1, last - 1)[i] = hist[i]
        /\ DOMAIN hist = 1..Len(hist)
    BY <1>4, <1>5, PrefixFacts
  <2>2. \A i \in 1..(last - 1) : i \in DOMAIN hist
    BY <1>5, <2>1
  <2> QED
    BY <1>1, <2>1, <2>2 DEF PastInv, ViewsOK
<1>7. ViewsOK'
  BY <1>2, <1>3, <1>6 DEF PastInv, ViewsOK, PacketOK
<1>8. PacketOK(msg)
  BY <1>1, <1>5 DEF PacketOK, Brings
<1>9. ASSUME NEW q \in Players
      PROVE  PacketsOK(q)'
  <2>1. down'[q] = down[q] \o <<msg>> /\ IsQueue(down[q]) /\ IsQueue(<<msg>>) /\ In(<<msg>>) = {msg}
    BY <1>1, ShortQueues DEF Everybody, DeliveryInv, StateOK
  <2>2. \A i \in DOMAIN down'[q] :
          \/ i \in DOMAIN down[q] /\ down'[q][i] = down[q][i]
          \/ down'[q][i] \in {msg}
    BY <2>1, GrownQueue
  <2>3. PacketsOK(q)
    BY DEF PastInv
  <2> QED
    BY <1>2, <1>8, <2>2, <2>3 DEF PacketsOK, PacketOK
<1> QED
  BY <1>3, <1>7, <1>9 DEF PastInv

\* A new game: whatever is on the way is of an old one, but for game:init.
LEMMA NextGameKeepsPast ==
  ASSUME DeliveryInv, PastInv, NextGame
  PROVE  PastInv'
<1>1. PICK msg, s :
        /\ down' = Everybody(msg) /\ msg.type = "init" /\ msg.state = s /\ s = Fresh(game + 1)
  BY DEF NextGame
<1>2. /\ hist' = <<>> /\ acks' = {} /\ game' = game + 1 /\ undos' = 0 /\ UNCHANGED view
      /\ game \in Nat /\ game' \in Nat
  BY DEF NextGame, client, PastInv, ViewsOK
<1>3. Brings(msg) = {s} /\ s \in Positions /\ s.game = game'
  BY <1>1, <1>2, FreshFacts DEF Brings
<1>4. IsPast(s)'
  BY <1>1, <1>2, FreshFacts DEF IsPast
<1>5. ViewsOK'
  <2>1. \A q \in Players : view[q] \in Positions /\ view[q].game <= game
    BY DEF PastInv, ViewsOK
  <2>2. \A q \in Players : view[q].game <= game'
    BY <1>2, <2>1 DEF Positions
  <2>3. DOMAIN hist' = {}
    BY <1>2
  <2> QED
    BY <1>2, <2>2, <2>3 DEF PastInv, ViewsOK
<1>6. ASSUME NEW m, PacketOK(m)
      PROVE  PacketOK(m)' /\ \A t \in Brings(m) : ~Current(t)'
  <2>1. \A t \in Brings(m) : t.game \in Nat /\ t.game <= game /\ t \in Positions
    BY <1>6 DEF PacketOK, Positions
  <2>2. \A t \in Brings(m) : t.game <= game' /\ t.game # game'
    BY <1>2, <2>1
  <2> QED
    BY <1>6, <2>1, <2>2 DEF PacketOK, Current
<1>7. PacketOK(msg)' /\ Fits(msg)'
  BY <1>1, <1>2, <1>3 DEF PacketOK, Fits
<1>8. ASSUME NEW q \in Players
      PROVE  PacketsOK(q)' /\ ViewPast(q)' /\ QueuePast(q)'
  <2>1. /\ down'[q] = down[q] \o <<msg>> /\ IsQueue(down[q])
        /\ IsQueue(<<msg>>) /\ In(<<msg>>) = {msg}
    BY <1>1, ShortQueues DEF Everybody, DeliveryInv, StateOK
  <2>2. /\ DOMAIN down[q] = 1..Len(down[q]) /\ Len(down[q]) \in Nat
        /\ \A i \in DOMAIN down'[q] :
             \/ i \in DOMAIN down[q] /\ down'[q][i] = down[q][i]
             \/ down'[q][i] = msg /\ i \notin DOMAIN down[q]
        /\ DOMAIN down[q] \subseteq DOMAIN down'[q]
    BY <2>1, GrownQueue
  <2>3. \A i \in DOMAIN down[q] : PacketOK(down[q][i])
    BY DEF PastInv, PacketsOK
  <2>4. ~Current(view[q])'
    <3>1. view[q].game \in Nat /\ view[q].game <= game
      BY DEF PastInv, ViewsOK, Positions
    <3>2. view[q].game # game'
      BY <1>2, <3>1
    <3> QED
      BY <1>2, <3>2 DEF Current
  <2>5. \A i \in DOMAIN down'[q] : \A m : m = down'[q][i] => PacketOK(m)'
    BY <1>6, <1>7, <2>2, <2>3
  <2>6. PacketsOK(q)'
    BY <2>5 DEF PacketsOK, PacketOK, Brings
  <2>7. ASSUME NEW i \in DOMAIN down[q]
        PROVE  ~KnowsGame(q, i)'
    <3>1. \A j \in 1..(i - 1) : j \in DOMAIN down[q]
      BY <2>2
    <3>2. \A j \in 1..(i - 1) : \A t \in Brings(down'[q][j]) : ~Current(t)'
      BY <1>6, <2>2, <2>3, <3>1
    <3> QED
      BY <2>4, <3>2 DEF KnowsGame, Brings
  <2>8. ASSUME NEW i \in DOMAIN down'[q], NEW m, m = down'[q][i]
        PROVE  /\ \A t \in Brings(m) : Current(t)' => IsPast(t)'
               /\ KnowsGame(q, i)' => Fits(m)'
    <3>1. CASE i \in DOMAIN down[q]
      BY <1>6, <2>2, <2>3, <2>7, <2>8, <3>1
    <3>2. CASE i \notin DOMAIN down[q]
      <4>1. m = msg
        BY <2>2, <2>8, <3>2
      <4>2. \A t \in Brings(m) : IsPast(t)'
        BY <1>3, <1>4, <4>1 DEF IsPast
      <4>3. Fits(m)'
        BY <1>7, <4>1 DEF Fits
      <4> QED
        BY <4>2, <4>3
    <3> QED
      BY <3>1, <3>2
  <2>9. QueuePast(q)'
    BY <2>8 DEF QueuePast, Brings, Fits
  <2> QED
    BY <2>4, <2>6, <2>9 DEF ViewPast
<1> QED
  BY <1>2, <1>5, <1>8 DEF PastInv

LEMMA NextPast == DeliveryInv /\ PastInv /\ [Next]_vars => PastInv'
<1> SUFFICES ASSUME DeliveryInv, PastInv, [Next]_vars
             PROVE  PastInv'
  OBVIOUS
<1>1. ASSUME NEW p \in Players, ReceiveMove(p)
      PROVE  PastInv'
  <2>1. PICK m : m = Head(up[p]) /\ (Replayed(p, m) \/ Rejected(p, m) \/ Applied(p, m))
    BY <1>1 DEF ReceiveMove
  <2>2. m \in Moves(p) /\ UNCHANGED view
    BY <1>1, <2>1, ArrivalFacts DEF ReceiveMove, client
  <2>3. m.id \in Ids /\ m.cell \in Cells
    BY <2>2 DEF DeliveryInv, NumbersOK, Numbered
  <2> QED
    BY <2>1, <2>2, <2>3, RefusalKeepsPast, PlayKeepsPast
<1>2. ASSUME NEW p \in Players, ReceiveResync(p)
      PROVE  PastInv'
  BY <1>2, ResyncKeepsPast
<1>3. ASSUME NEW p \in Players, Undo(p)
      PROVE  PastInv'
  BY <1>3, UndoKeepsPast
<1>4. CASE NextGame
  BY <1>4, NextGameKeepsPast
<1>5. ASSUME NEW p \in Players,
             \/ \E cell \in Cells : Click(p, cell)
             \/ AckTimeout(p) \/ MoveConfirm(p) \/ TurnWatchdog(p)
             \/ OnAck(p) \/ Lose(p)
      PROVE  PastInv'
  BY <1>5, ClientsKeepPast
<1>6. ASSUME NEW p \in Players, OnMoved(p)
      PROVE  PastInv'
  BY <1>6, MovedKeepsPast
<1>7. ASSUME NEW p \in Players, OnJoined(p) \/ OnInit(p)
      PROVE  PastInv'
  BY <1>7, StatesKeepPast
<1>8. ASSUME NEW p \in Players, OnEnded(p) \/ OnUndoApplied(p)
      PROVE  PastInv'
  BY <1>8, NoticesKeepPast
<1>9. CASE UNCHANGED vars
  BY <1>9, CalmKeeps DEF vars, server, client
<1> QED
  BY <1>1, <1>2, <1>3, <1>4, <1>5, <1>6, <1>7, <1>8, <1>9 DEF Next, Deliver

THEOREM PastInvariance == Spec => []PastInv
<1>1. DeliveryInv /\ PastInv /\ [Next]_vars => PastInv'
  BY NextPast
<1> QED
  BY InitPast, <1>1, DeliveryInvariance, PTL DEF Spec

\* Whatever is lost or late, in any number of games, what a player sees of a
\* game in which nothing was undone is a past position of it: the counts of
\* game:moved and the gap check of its handler are enough for deltas that carry
\* neither a game nor a position.
THEOREM ViewsCorrect == Spec => []ViewsArePast
<1>1. PastInv => ViewsArePast
  BY DEF PastInv, ViewPast, Current, IsPast, ViewsArePast, SeesPast
<1> QED
  BY <1>1, PastInvariance, PTL

=============================================================================
