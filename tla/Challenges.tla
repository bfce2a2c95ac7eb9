----------------------------- MODULE Challenges -----------------------------
(***************************************************************************)
(* Friend challenges before they become a room:                            *)
(* server/managers/ChallengeService.js.  A pending challenge lives in      *)
(* memory with a timer of its own, and leaves a notification with its      *)
(* target, which server/managers/NotificationService.js keys by type and   *)
(* actor.  The settings, the stake and its guards are ChallengeSeries's    *)
(* business; a stake that is refused changes nothing.  That a user has at  *)
(* most 100 notifications is left out.                                     *)
(***************************************************************************)
EXTENDS PairRooms

CONSTANTS
  MaxOutgoing,   \* MAX_OUTGOING
  OfferIds       \* ids, enough for every offer that is pending

VARIABLES
  offers,    \* pending
  armed,     \* the offers whose expiry timer is set
  notified   \* <<user, actor>>: the challenge notifications users have

offerVars == <<offers, armed, notified>>

Outgoing(u) == {c \in offers : c.from = u}

Resent(from, to) == {c \in offers : c.from = from /\ c.to = to}

Disarm_Never(cs) == armed

Disarm(cs) == armed \ cs

\* Ids are never used twice; here, not by one user to another while a timer of
\* theirs refers to one.
FreshIds(from, to) ==
  OfferIds \ {c.id : c \in {d \in Disarm(Resent(from, to)) : d.from = from /\ d.to = to}}

\* send(), members only: an older offer to the same target is removed first,
\* then the limit is looked at, so that sending again never meets it.
Send(from, to) ==
  /\ from # to
  /\ {from, to} \cap Guests = {}
  /\ Cardinality(Outgoing(from) \ Resent(from, to)) < MaxOutgoing
  /\ LET c == [id |-> Min(FreshIds(from, to)), from |-> from, to |-> to]
     IN  /\ offers' = (offers \ Resent(from, to)) \cup {c}
         /\ armed' = Disarm(Resent(from, to)) \cup {c}
  /\ notified' = notified \cup {<<to, from>>}
  /\ UNCHANGED lobbyVars

\* remove(): with its timer and its notification.
RemoveOffer(c) ==
  /\ offers' = offers \ {c}
  /\ armed' = Disarm({c})
  /\ notified' = notified \ {<<c.to, c.from>>}

\* accept(): refused while either is in a room, or when no room can be made.
\* The sender is its host, but it counts against the target, whose request it is.
Accept(c) ==
  /\ c \in offers
  /\ Seatable(roomOf, AddressOf[c.to], c.from, c.to)
  /\ roomOf' = SeatPair(roomOf, AddressOf[c.to], c.from, c.to)
  /\ RemoveOffer(c)
  /\ UNCHANGED sock

\* close(): the target declines or the sender cancels.
Close(c) ==
  /\ c \in offers
  /\ RemoveOffer(c)
  /\ UNCHANGED lobbyVars

\* The timer armed by send().
Expire(c) ==
  /\ c \in armed
  /\ offers' = offers \ {c}
  /\ armed' = armed \ {c}
  /\ notified' = notified \ {<<c.to, c.from>>}
  /\ UNCHANGED lobbyVars
=============================================================================
