-------------------------------- MODULE Feeds --------------------------------
(***************************************************************************)
(* The lists that pages keep up to date by deltas: server/socket/state.js  *)
(* (the rooms and the online users of the lobby, the users of a room),     *)
(* server/socket/handlers/TournamentHandler.js (the tournaments, and the   *)
(* entries of one) and server/socket/home-feed.js (the numbers and the     *)
(* games of the home screen), with the pages that show them.  All work     *)
(* alike: a subscriber gets everything once, a change only starts a timer, *)
(* and when the timer expires the server sends everybody what differs from *)
(* what it sent last.  They differ in details, so one module has them all  *)
(* and a behaviour is about one of them, its kind.  The home screen also   *)
(* asks for everything now and then, over HTTP (server/routes/home.js).    *)
(*                                                                         *)
(* A socket is FIFO and loses what is in flight when it drops; what a page *)
(* emits while it has no socket is sent by the next one.  HTTP has nothing *)
(* to do with either: an answer may overtake pushes or be overtaken, and a *)
(* page waits for one at a time.  The items are rooms, tournaments or users*)
(* other than those whose pages are modelled.                              *)
(***************************************************************************)
EXTENDS Naturals, Sequences, FiniteSets

CONSTANTS
  Clients,
  Items,        \* rooms, users, tournaments, entries; numbers and live games
  Values,       \* what a list says of an item
  Absent,       \* the item is not on the list
  NoList,       \* no list: a page before its first no baseline
  Kinds,
  HomeItems,    \* bound: what the home screen shows of them
  FirstItems,   \* bound: what may be there before the first page
  MaxChanges, MaxDrops, MaxFlips  \* bounds

ASSUME KindsAreFeeds ==
  Kinds \subseteq {"rooms", "online", "tournaments", "entries", "roster", "home"}

ASSUME ListsAssumption ==
  /\ Items # {} /\ Values # {}
  /\ Absent \notin Values
  /\ HomeItems \subseteq Items /\ FirstItems \subseteq Items
  /\ NoList \notin [Items -> Values \cup {Absent}]

VARIABLES
  kind,
  truth,       \* listRooms, getOnlineUsersList, room.users, ...
  baseline,    \* _lobbySnapshots, _onlineSnapshots, ..., _last
  seen,        \* _onlineSnapshotSeen, seenUserIds
  timer,       \* whether a flush is scheduled
  force,       \* _force
  members,     \* the sockets in the socket.io room; for roster, room.users
  connected,   \* the clients with a live socket
  showing,     \* whether the page is on the screen of the client
  subscribed,  \* lobbySubscribed, subscribed, ~tournamentsDropped
  copy,        \* what the page shows
  fetched,     \* the answer of /api/home on its way, or NoList
  up, down,    \* the messages in flight
  silent,      \* history: items changed without a word since the last flush
  cause,       \* history: why a client holds other than the baseline says
  changes, drops, flips

server == <<truth, baseline, seen, timer, force, members>>
client == <<connected, showing, subscribed, copy, fetched>>
network == <<up, down>>
vars == <<kind, server, client, network, silent, cause, changes, drops, flips>>

Lists == [Items -> Values \cup {Absent}]
Empty == [i \in Items |-> Absent]
\* The home screen has numbers and a list of games, which are never absent.
Content == IF kind = "home" THEN Values ELSE Values \cup {Absent}
Listed == IF kind = "home" THEN HomeItems ELSE Items
On(list) == {i \in Items : list[i] # Absent}
NoCause == [i \in Items |-> "none"]

\* snapshots.get(io) || new Map()
Told == IF baseline = NoList THEN Empty ELSE baseline

Full(list) == [type |-> "full", list |-> list]
Patch(items) == [type |-> "patch", list |-> [i \in items |-> truth[i]]]

\* Pages that load and have not connected yet.  Tournaments, their entries and
\* the user who opened a room are there before anything was sent of them, and so
\* are the numbers; a room and an online user are announced when they come.
Init ==
  /\ kind \in Kinds
  /\ truth \in [Items -> {Absent, CHOOSE v \in Values : TRUE}]
  /\ IF kind = "home" THEN On(truth) = HomeItems ELSE On(truth) \subseteq FirstItems
  /\ baseline = IF kind \in {"rooms", "online"} /\ truth # Empty THEN truth ELSE NoList
  /\ seen = {} /\ timer = FALSE /\ force = FALSE
  /\ members = {} /\ connected = {}
  /\ showing = [c \in Clients |-> TRUE]
  /\ subscribed = [c \in Clients |-> TRUE]
  /\ copy = [c \in Clients |-> NoList]
  /\ fetched = [c \in Clients |-> NoList]
  /\ up = [c \in Clients |-> <<"subscribe">>]
  /\ down = [c \in Clients |-> <<>>]
  /\ silent = {}
  /\ cause = [c \in Clients |-> NoCause]
  /\ changes = 0 /\ drops = 0 /\ flips = 0

-----------------------------------------------------------------------------
(* The server. *)

\* Mutant: who was told in this window is not remembered.
SeenAtCall_Nobody(list) == seen

\* broadcastRoomUpdate remembers who was in the room at every call.
SeenAtCall(list) == IF kind = "roster" THEN seen \cup On(list) ELSE seen

\* broadcastLobbyUpdate, broadcastOnlineUsers, broadcastRoomUpdate,
\* broadcastTournamentListUpdate, _queueTournamentDetailUpdate,
\* scheduleHomeUpdate: a pending flush is enough.
Announce(list) ==
  /\ timer' = TRUE
  /\ seen' = SeenAtCall(list)

\* Something changes and a handler says that something did.
Change(i, v) ==
  /\ changes < MaxChanges
  /\ v # truth[i]
  /\ changes' = changes + 1
  /\ truth' = [truth EXCEPT ![i] = v]
  /\ Announce(truth')
  /\ UNCHANGED <<kind, baseline, force, members, client, network, silent, cause, drops, flips>>

\* A game is interrupted or resumed, or a viewer drops: the list of rooms
\* changes and only the room itself is told.  startDisconnectGrace,
\* cancelDisconnectGrace, startSpectatorGrace.  The number of those who search
\* for an opponent falls when a tick drops an entry, or a pair that gets no
\* room: tick, pair, makeRoom.
ChangeQuietly(i, v) ==
  /\ kind \in {"rooms", "home"}
  /\ changes < MaxChanges
  /\ {v, truth[i]} \subseteq Values
  /\ v # truth[i]
  /\ changes' = changes + 1
  /\ truth' = [truth EXCEPT ![i] = v]
  /\ silent' = silent \cup {i}
  /\ UNCHANGED <<kind, baseline, seen, timer, force, members, client, network, cause, drops, flips>>

\* What differs from the baseline, under _diffLobbyRooms and its siblings.
Changed == {i \in Items : truth[i] # Told[i]}

\* Who has gone since somebody was told of them: _diffOnlineUsers and
\* _diffRoomUsers name them even if the baseline does not.
Gone == seen \ On(truth)

\* The home screen: somebody subscribed while the flush was coming, or nobody
\* listened at the last one.
Everything == kind = "home" /\ (force \/ baseline = NoList)

Difference == IF Everything THEN Listed ELSE Changed \cup Gone

\* The timer expires.
Flush ==
  /\ timer
  /\ timer' = FALSE /\ force' = FALSE /\ seen' = {} /\ silent' = {}
  /\ LET listening == members \cap connected
     IN  /\ baseline' = IF kind = "home" /\ members = {} THEN NoList ELSE truth
         /\ down' = [c \in Clients |->
                       IF c \in listening /\ Difference # {}
                       THEN Append(down[c], Patch(Difference)) ELSE down[c]]
         /\ cause' = [c \in Clients |->
                        [i \in Items |-> IF c \in listening /\ i \in Difference
                                         THEN "none" ELSE cause[c][i]]]
  /\ UNCHANGED <<kind, truth, members, client, up, changes, drops, flips>>

\* The first snapshot is the baseline of the deltas, in the feeds that look;
\* home:subscribe makes it the baseline unless a flush is coming.
Seeded ==
  CASE kind \in {"rooms", "online", "tournaments"} /\ baseline = NoList -> truth
    [] kind = "home" /\ ~timer -> truth
    [] OTHER -> baseline

\* History: why a delta may never come for what a new subscriber was told.
Reason(i, sent) ==
  CASE kind # "home" /\ sent = NoList /\ truth[i] # Absent -> "unseeded"
    [] kind # "home" /\ sent # NoList /\ truth[i] # sent[i] -> "window"
    [] OTHER -> "none"

\* History: a new baseline hides from the others what they were not told.
Rebased(c, i) ==
  IF kind = "home" /\ ~timer /\ truth[i] # Told[i] THEN "rebased" ELSE cause[c][i]

\* The server is asked to subscribe: lobby:subscribe, tournament:subscribe,
\* tournament:get, home:subscribe, and room:join, which also announces.
Subscribe(c) ==
  /\ members' = members \cup {c}
  /\ baseline' = Seeded
  /\ seen' = IF kind = "online" THEN seen \cup On(truth) ELSE SeenAtCall(truth)
  /\ timer' = (timer \/ kind = "roster")
  /\ force' = (force \/ (kind = "home" /\ timer))
  /\ down' = [down EXCEPT ![c] = Append(@, Full(truth))]
  /\ silent' = IF kind = "home" /\ ~timer THEN {} ELSE silent
  /\ cause' = [d \in Clients |->
                 [i \in Items |-> IF d = c THEN Reason(i, baseline') ELSE Rebased(d, i)]]

Unsubscribe(c) ==
  /\ members' = members \ {c}
  /\ UNCHANGED <<baseline, seen, timer, force, down, silent, cause>>

HandleUp(c) ==
  /\ c \in connected
  /\ up[c] # <<>>
  /\ IF Head(up[c]) = "subscribe" THEN Subscribe(c) ELSE Unsubscribe(c)
  /\ up' = [up EXCEPT ![c] = Tail(@)]
  /\ UNCHANGED <<kind, truth, client, changes, drops, flips>>

-----------------------------------------------------------------------------
(* The pages. *)

Patched(list, items) ==
  [i \in Items |-> IF i \in DOMAIN items THEN items[i] ELSE list[i]]

\* lobby:update, lobby:online_users, tournament:list, tournament:detail and
\* room:joined replace the list; the others change the items they name, which
\* the page of a tournament ignores while it has no list.
Merged(c, m) ==
  IF m.type = "full" THEN m.list
  ELSE IF copy[c] # NoList THEN Patched(copy[c], m.list)
  ELSE IF kind = "entries" THEN NoList ELSE Patched(Empty, m.list)

\* The home screen ignores what comes while another screen is up; a hidden tab
\* does not: applyPush.
Deliver(c) ==
  /\ down[c] # <<>>
  /\ down' = [down EXCEPT ![c] = Tail(@)]
  /\ \/ copy' = [copy EXCEPT ![c] = Merged(c, Head(down[c]))]
     \/ kind = "home" /\ ~showing[c] /\ UNCHANGED copy
  /\ UNCHANGED <<kind, server, connected, showing, subscribed, fetched, up,
                 silent, cause, changes, drops, flips>>

\* loadHome: on opening the home screen, whenever its socket connects, and every
\* minute while it is on the screen.
Poll(c) ==
  /\ kind = "home"
  /\ showing[c] /\ fetched[c] = NoList
  /\ fetched' = [fetched EXCEPT ![c] = truth]
  /\ UNCHANGED <<kind, server, connected, showing, subscribed, copy, network,
                 silent, cause, changes, drops, flips>>

\* renderHome shows the answer, whatever was pushed since it was made.
Answer(c) ==
  /\ fetched[c] # NoList
  /\ copy' = [copy EXCEPT ![c] = fetched[c]]
  /\ fetched' = [fetched EXCEPT ![c] = NoList]
  /\ cause' = [cause EXCEPT ![c] =
                 [i \in Items |-> IF fetched[c][i] # Told[i] THEN "fetched" ELSE cause[c][i]]]
  /\ UNCHANGED <<kind, server, connected, showing, subscribed, network,
                 silent, changes, drops, flips>>

\* setSubscribed, setLobbySubscribed: nothing to do, or a message, which waits
\* for the next socket if there is none.
Flag(c, on) ==
  /\ subscribed' = [subscribed EXCEPT ![c] = on]
  /\ up' = IF subscribed[c] = on THEN up
           ELSE [up EXCEPT ![c] = Append(@, IF on THEN "subscribe" ELSE "unsubscribe")]

\* The user opens another screen or tab, or comes back: showScreen and the
\* visibilitychange listener of lobby-home.js.
Flip(c) ==
  /\ kind \in {"rooms", "online", "home"}
  /\ flips < MaxFlips
  /\ flips' = flips + 1
  /\ showing' = [showing EXCEPT ![c] = ~@]
  /\ Flag(c, ~showing[c])
  /\ UNCHANGED <<kind, server, connected, copy, fetched, down, silent, cause, changes, drops>>

\* A socket drops; the user stays in the room, marked as away, which is
\* announced there.
Drop(c) ==
  /\ c \in connected
  /\ drops < MaxDrops
  /\ drops' = drops + 1
  /\ connected' = connected \ {c}
  /\ up' = [up EXCEPT ![c] = <<>>]
  /\ down' = [down EXCEPT ![c] = <<>>]
  /\ subscribed' = [subscribed EXCEPT ![c] = FALSE]
  /\ IF kind = "roster"
     THEN /\ UNCHANGED members
          /\ IF c \in members THEN Announce(truth) ELSE UNCHANGED <<timer, seen>>
     ELSE /\ members' = members \ {c}
          /\ UNCHANGED <<timer, seen>>
  /\ UNCHANGED <<kind, truth, baseline, force, showing, copy, fetched, silent, cause,
                 changes, flips>>

\* Mutant: a page subscribes once.
Resubscribes_Never(c) == FALSE

\* The 'connect' listeners of lobby-home.js and tournaments.js; the page of a
\* tournament has none.
Resubscribes(c) == kind \in {"rooms", "online", "home", "tournaments"} /\ showing[c]

\* A socket connects, the first or another one.
Connect(c) ==
  /\ c \notin connected
  /\ ~(kind = "roster" /\ c \in members)
  /\ connected' = connected \cup {c}
  /\ IF Resubscribes(c) THEN Flag(c, TRUE) ELSE UNCHANGED <<subscribed, up>>
  /\ UNCHANGED <<kind, server, showing, copy, fetched, down, silent, cause,
                 changes, drops, flips>>

\* A user of a room is back; the room is told that they are active again.
Return(c) ==
  /\ kind = "roster"
  /\ c \in members \ connected
  /\ connected' = connected \cup {c}
  /\ UNCHANGED <<kind, truth, showing, subscribed, copy, fetched, up,
                 changes, drops, flips>>

\* No game waits for them: they get the whole room (room:joined).
ReturnToRoom(c) == Return(c) /\ Subscribe(c)

\* A game waits for them: they get the game and not the room.
\* cancelDisconnectGrace.
ReturnToGame(c) ==
  /\ Return(c)
  /\ Announce(truth)
  /\ cause' = [cause EXCEPT ![c] =
                 [i \in Items |-> IF copy[c] = NoList \/ copy[c][i] # Told[i]
                                  THEN "away" ELSE "none"]]
  /\ UNCHANGED <<members, baseline, force, down, silent>>

Next ==
  \/ \E i \in Listed, v \in Content : Change(i, v) \/ ChangeQuietly(i, v)
  \/ Flush
  \/ \E c \in Clients :
       \/ HandleUp(c) \/ Deliver(c) \/ Poll(c) \/ Answer(c) \/ Flip(c)
       \/ Drop(c) \/ Connect(c) \/ ReturnToRoom(c) \/ ReturnToGame(c)

\* Timers expire, sockets deliver and reconnect, requests are answered.  Nobody
\* has to look at a page or to change anything.
Fairness ==
  /\ WF_vars(Flush)
  /\ \A c \in Clients :
       /\ WF_vars(HandleUp(c))
       /\ WF_vars(Deliver(c))
       /\ WF_vars(Poll(c))
       /\ WF_vars(Answer(c))
       /\ WF_vars(Connect(c) \/ ReturnToRoom(c) \/ ReturnToGame(c))

Spec == Init /\ [][Next]_vars
FairSpec == Spec /\ Fairness

-----------------------------------------------------------------------------
Causes == {"none", "window", "unseeded", "away", "rebased", "fetched"}

TypeOK ==
  /\ kind \in Kinds
  /\ truth \in Lists
  /\ baseline \in Lists \cup {NoList}
  /\ seen \subseteq Items /\ silent \subseteq Items
  /\ members \subseteq Clients /\ connected \subseteq Clients
  /\ copy \in [Clients -> Lists \cup {NoList}]
  /\ fetched \in [Clients -> Lists \cup {NoList}]
  /\ cause \in [Clients -> [Items -> Causes]]

\* A page that hears the feed and has nothing more to hear for now.
Quiet(c) ==
  /\ c \in members \cap connected
  /\ ~timer
  /\ up[c] = <<>> /\ down[c] = <<>>

\* Somebody who has gone is named again if anybody was told of them since the
\* last flush: _onlineSnapshotSeen, seenUserIds.
Remembered(i) ==
  /\ kind \in {"online", "roster"}
  /\ truth[i] = Absent

\* What a page may show otherwise: what nobody announced, what changed and
\* changed back around its subscription, an entry of a tournament of which
\* nothing was sent yet, what happened while a game waited for the user; and the
\* home screen, what nobody announced before another page subscribed, and what
\* an answer says that was made before or after the last push.
MayDiffer(c, i) ==
  \/ i \in silent
  \/ cause[c][i] = "window" /\ ~Remembered(i)
  \/ cause[c][i] = "unseeded" /\ kind = "entries"
  \/ cause[c][i] \in {"away", "rebased", "fetched"}

Right(c) ==
  IF copy[c] = NoList THEN \E i \in Items : cause[c][i] = "away"
  ELSE \A i \in Items : copy[c][i] = truth[i] \/ MayDiffer(c, i)

\* Deltas add up: once a page has heard everything, whatever joined, left,
\* subscribed and dropped within one window, it shows the truth, but for the
\* ways out that MayDiffer names; the list of tournaments has one only for what
\* changed back.  sendLobbySnapshot and its siblings, the diffs, _force and the
\* handlers of the patches.
DriftHasACause ==
  /\ TypeOK
  /\ \A c \in Clients : Quiet(c) => Right(c)

\* The page is on the screen of somebody connected; a page that a dropped
\* socket took out of a tournament stays out, as does one that lost its
\* room:join.
Watching(c) ==
  /\ c \in connected
  /\ showing[c]
  /\ kind \in {"entries", "roster"} => c \in members

\* A page that stays on the screen catches up once nothing changes any more,
\* after any drops and flips: with what it was pushed, and the home screen with
\* everything there is.  The 'connect' listeners of lobby-home.js and
\* tournaments.js, setSubscribed, setLobbySubscribed, the timers, startPolling.
PagesCatchUp ==
  \A c \in Clients :
    <>[]Watching(c) => <>[](IF kind = "home" THEN copy[c] = truth ELSE Right(c))

\* An unregistered entry is removed from every page, as
\* server/tests/TournamentHandler.test.js:598 says.  Not so on the first flush
\* after a restart, which compares with nothing.
UnregisteredAreRemoved ==
  kind = "entries" =>
    \A c \in Clients : Quiet(c) /\ copy[c] # NoList => On(copy[c]) \subseteq On(truth)

\* A subscriber who comes between two flushes misses nothing, as
\* docs/todo/B230-online-users-delta.md asks.  Not so for somebody who was
\* away only around the subscription.
SubscribersMissNothing ==
  kind = "online" =>
    \A c \in Clients : Quiet(c) /\ copy[c] # NoList => copy[c] = truth
=============================================================================
