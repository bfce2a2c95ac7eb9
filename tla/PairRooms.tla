----------------------------- MODULE PairRooms -----------------------------
(***************************************************************************)
(* What quick match and friend challenges know of connections and rooms:   *)
(* the socket registry of server/socket/SocketHandler.js (one live socket  *)
(* per user), userRoomMap of server/managers/RoomManager.js, and seatPair  *)
(* of server/managers/PairRoom.js, which turns two users into a seated     *)
(* room.  What happens inside a room is CasualRoom's business: here a user *)
(* enters one, is seated in one, or leaves one for whatever reason.        *)
(***************************************************************************)
EXTENDS Naturals, Sequences, FiniteSets, FiniteSetsExt, SequencesExt

CONSTANTS
  Users,
  Guests,             \* the users without an account
  None,               \* no socket, no address
  SocketIds,          \* enough to tell a user's socket from the one before it
  Addresses,          \* IP addresses
  AddressOf,          \* the address each user comes from, the same all along
  MaxRooms,           \* MAX_ROOMS, a bound on the rooms that exist at once
  MaxRoomsPerIp,      \* MAX_ROOMS_PER_IP, on those made from one address
  MaxGraceRoomsPerIp  \* MAX_GRACE_ROOMS_PER_IP, on those of them left by all

ASSUME PairRoomsAssumption ==
  /\ IsFiniteSet(Users) /\ Guests \subseteq Users
  /\ None \notin SocketIds /\ SocketIds \subseteq Nat
  /\ Cardinality(SocketIds) >= 2
  /\ None \notin Addresses /\ AddressOf \in [Users -> Addresses]
  /\ {MaxRooms, MaxRoomsPerIp, MaxGraceRoomsPerIp} \subseteq Nat \ {0}

\* A room has its creatorIp for ever; the number tells it from the others.
RoomIds == Addresses \X (1..MaxRooms)
NoRoom  == <<None, 0>>

VARIABLES
  sock,    \* sessions: the live socket of each user, or None
  roomOf   \* userRoomMap, NoRoom when the user is in none

lobbyVars == <<sock, roomOf>>

Roomless(u) == roomOf[u] = NoRoom

\* The rooms that exist: whoever leaves one last takes it along.
LiveRooms(map)   == {map[u] : u \in Users} \ {NoRoom}
RoomsOf(map, at) == {r \in LiveRooms(map) : r[1] = at}

\* createRoom's two limits, for a caller that hands it no graceRoomIds.
MayCreate(map, at) ==
  /\ Cardinality(LiveRooms(map)) < MaxRooms
  /\ Cardinality(RoomsOf(map, at)) < MaxRoomsPerIp

NewRoom(map, at) ==
  <<at, CHOOSE n \in 1..MaxRooms : <<at, n>> \notin LiveRooms(map)>>

\* seatPair for a creator at that address: createRoom refuses at its limits and
\* a user who is in a room, joinRoom the latter: a failure undoes what was done,
\* so that nothing has changed.
Seatable(map, at, a, b) ==
  /\ map[a] = NoRoom
  /\ map[b] = NoRoom
  /\ MayCreate(map, at)

SeatPair(map, at, a, b) ==
  IF Seatable(map, at, a, b)
  THEN [u \in Users |-> IF u \in {a, b} THEN NewRoom(map, at) ELSE map[u]]
  ELSE map

\* room:create hands createRoom the rooms whose grace period is running, which
\* nobody in them has a socket to be told of: they count against a limit of
\* their own instead.
Abandoned(at) ==
  {r \in RoomsOf(roomOf, at) : \A v \in Users : roomOf[v] = r => sock[v] = None}

CreateRoom(u) ==
  /\ sock[u] # None
  /\ Roomless(u)
  /\ Cardinality(LiveRooms(roomOf)) < MaxRooms
  /\ \E grace \in SUBSET Abandoned(AddressOf[u]) :
       /\ Cardinality(RoomsOf(roomOf, AddressOf[u]) \ grace) < MaxRoomsPerIp
       /\ Cardinality(grace) < MaxGraceRoomsPerIp
  /\ roomOf' = [roomOf EXCEPT ![u] = NewRoom(roomOf, AddressOf[u])]
  /\ UNCHANGED sock

\* room:join of a room that exists.
JoinRoom(u, r) ==
  /\ sock[u] # None
  /\ Roomless(u)
  /\ roomOf' = [roomOf EXCEPT ![u] = r]
  /\ UNCHANGED sock

\* room:leave, a kick, a grace period or a seat check that expires.
LeaveRoom(u) ==
  /\ ~Roomless(u)
  /\ roomOf' = [roomOf EXCEPT ![u] = NoRoom]
  /\ UNCHANGED sock
=============================================================================
