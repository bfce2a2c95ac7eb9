------------------------------- MODULE Lobby -------------------------------
(***************************************************************************)
(* Quick match and friend challenges over the same users, sockets and      *)
(* rooms: a user may wait in the queue while challenging somebody, be      *)
(* seated by either, walk into a room on their own, or lose the socket.    *)
(* server/socket/SocketHandler.js evicts the older socket of a user who    *)
(* connects again, whose disconnect handlers run before anything else.     *)
(***************************************************************************)
EXTENDS Matchmaking, Challenges

vars == <<lobbyVars, queueVars, offerVars>>

TypeOK ==
  /\ sock \in [Users -> SocketIds \cup {None}]
  /\ roomOf \in [Users -> RoomIds \cup {NoRoom}]
  /\ queue \in Seq([user : Users, socket : SocketIds, chip : Chips,
                    rating : Nat, age : 0..WindowOpen])
  /\ ticking \in BOOLEAN
  /\ offers \subseteq [id : OfferIds, from : Users, to : Users]
  /\ armed \subseteq [id : OfferIds, from : Users, to : Users]
  /\ notified \subseteq Users \X Users

Init ==
  /\ sock = [u \in Users |-> None]
  /\ roomOf = [u \in Users |-> NoRoom]
  /\ queue = <<>>
  /\ ticking = FALSE
  /\ offers = {}
  /\ armed = {}
  /\ notified = {}

\* A new socket; the one before it, if any, is evicted and its queue entry goes.
NewSocket(u) ==
  Min({s \in SocketIds \ {sock[u]} : \A i \in DOMAIN queue : queue[i].user = u => queue[i].socket # s})

Connect(u) ==
  /\ sock' = [sock EXCEPT ![u] = NewSocket(u)]
  /\ DropEntry(u)
  /\ UNCHANGED <<roomOf, offerVars>>

Disconnect(u) ==
  /\ sock[u] # None
  /\ sock' = [sock EXCEPT ![u] = None]
  /\ DropEntry(u)
  /\ UNCHANGED <<roomOf, offerVars>>

QueueStep ==
  \/ Ticker
  \/ \E u \in Users : LeaveQueue(u)
  \/ \E u \in Users, chip \in Chips : JoinQueue(u, chip)

OfferStep ==
  \/ \E u, v \in Users : Send(u, v)
  \/ \E c \in offers : Accept(c)
  \/ \E c \in offers : Close(c)
  \/ \E c \in armed : Expire(c)

RoomStep ==
  \/ \E u \in Users : CreateRoom(u)
  \/ \E u \in Users, r \in LiveRooms(roomOf) : JoinRoom(u, r)
  \/ \E u \in Users : LeaveRoom(u)

Next ==
  \/ QueueStep /\ UNCHANGED offerVars
  \/ OfferStep /\ UNCHANGED queueVars
  \/ RoomStep /\ UNCHANGED <<queueVars, offerVars>>
  \/ \E u \in Users : Connect(u)
  \/ \E u \in Users : Disconnect(u)

Spec == Init /\ [][Next]_vars

\* A tick that can change something: somebody's window still grows, somebody has
\* to be dropped, or two can be paired.  Named, because TLC is too slow at
\* working out when a whole pass is enabled.
TickMatters ==
  /\ ticking
  /\ \E i \in DOMAIN queue :
       \/ queue[i].chip.rated /\ queue[i].age < WindowOpen
       \/ ~CanPlay(queue[i])
       \/ \E j \in DOMAIN queue : i < j /\ Matches(queue[i], queue[j])

\* Weak fairness of the ticker: setInterval fires.  Users owe nobody anything.
FairSpec == Spec /\ ([]<>~TickMatters \/ []<><<Ticker>>_vars)

(***************************************************************************)
(* What must be true.                                                      *)
(***************************************************************************)

\* After every pass of pair() nobody is left waiting beside somebody their
\* rating window already covers, whatever joined, left, was vetoed or was
\* taken by an older entry in between.
NobodyWaitsBesideAMatch ==
  \A i, j \in DOMAIN queue : i < j => ~Matches(queue[i], queue[j])

\* A tick costs a place in the queue only for a room: the user was seated with a
\* partner, is in a room already, or was paired with somebody as free as they
\* when createRoom refused one of the two, at its limit for all or for the
\* address, to which an earlier pair of the same pass may have brought it.  One
\* side being busy or gone must not cost the other its place.
Dropped(u) == Queued(u) /\ ~Queued(u)'
PlacesAreLostForARoom ==
  [][\A u \in Users : Dropped(u) =>
       \/ ~Roomless(u)
       \/ roomOf'[u] # NoRoom /\ \E v \in Users \ {u} : roomOf'[v] = roomOf'[u]
       \/ \E v \in Users \ {u} :
            /\ ~Queued(v)' /\ Roomless(v) /\ (Queued(v) \/ \E chip \in Chips : JoinQueue(v, chip))
            /\ \E w \in {u, v} : ~MayCreate(roomOf', AddressOf[w])
       \/ sock'[u] # sock[u]
       \/ LeaveQueue(u)]_vars

\* A target has a challenge notification from somebody exactly while that
\* offer is pending, however often it was sent again, cancelled or timed out.
OffersAreNotified == notified = {<<c.to, c.from>> : c \in offers}

WaitTogether(u, v) ==
  \E i, j \in DOMAIN queue :
    i < j /\ queue[i].user = u /\ queue[j].user = v /\ Compatible(queue[i], queue[j])

\* Two entries that could be paired do not wait for ever: the window opens, and
\* the ticker runs as long as somebody waits.  Only rated entries, which are
\* never a guest's, wait beside each other at all.
WaitersMeet ==
  \A u \in Users \ Guests : \A v \in Users \ (Guests \cup {u}) :
    WaitTogether(u, v) ~> ~WaitTogether(u, v)
=============================================================================
