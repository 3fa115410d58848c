--------------------------------- MODULE Lobby ---------------------------------
(***************************************************************************)
(* The LobbyServer (src/LobbyServer): the list of rooms that clients make  *)
(* and start by HTTP requests.                                             *)
(*                                                                         *)
(* The requests are handled by the threads of the HTTP server.  A method   *)
(* of the RoomManager holds its mutex from beginning to end, and is a step;*)
(* the handler of POST /rooms calls two of them, and the other requests    *)
(* come between.  GET /rooms reads the list: the clients know the ids that *)
(* were given out, however long ago they asked.                            *)
(***************************************************************************)
EXTENDS Naturals

CONSTANTS
    Requests,       \* the handlers of POST /rooms that may run at a time
    NoRoom,
    MaxRooms        \* bound: the rooms that are created

ASSUME NoRoomIsNone == NoRoom \notin Nat
ASSUME MaxRoomsIsNumber == MaxRooms \in Nat

VARIABLES
    rooms,          \* the keys of RoomManager::rooms
    nextRoomId,
    creating,       \* creating[r]: the room that the handler r has created and not started
    server,         \* server[id]: what became of the process of the room
    started         \* the rooms that POST /start_room was answered for

lobbyVars == <<rooms, nextRoomId, creating, server, started>>

Ids == 1..MaxRooms

LobbyInit == /\ rooms = {} /\ nextRoomId = 1
             /\ creating = [r \in Requests |-> NoRoom]
             /\ server = [id \in Ids |-> "none"]
             /\ started = {}

\* POST /rooms: CreateRoom.
CreateRoom(r) ==
    /\ creating[r] = NoRoom /\ nextRoomId <= MaxRooms
    /\ rooms' = rooms \cup {nextRoomId}
    /\ nextRoomId' = nextRoomId + 1
    /\ creating' = [creating EXCEPT ![r] = nextRoomId]
    /\ UNCHANGED <<server, started>>

\* Does the handler look for the room?  It may have been started by now.
IsListed(id) == id \in rooms

\* POST /rooms goes on: StartRoom(roomId, args) launches the room's process,
\* unless GetModuleFileName or ShellExecute fails; the reply is the id anyway.
\* The fault forgets the process that it meant to launch.
Unlaunched(id) == {"none"}
Launched(id) == IF IsListed(id) THEN {"launched", "failed"} ELSE {"none"}

StartProcess(r) ==
    /\ creating[r] # NoRoom
    /\ \E outcome \in Launched(creating[r]) : server' = [server EXCEPT ![creating[r]] = outcome]
    /\ creating' = [creating EXCEPT ![r] = NoRoom]
    /\ UNCHANGED <<rooms, nextRoomId, started>>

\* POST /start_room: StartRoom(roomId), for a room that somebody was shown.
StartRoom(id) ==
    /\ id < nextRoomId
    /\ rooms' = rooms \ {id}
    /\ started' = started \cup {id}
    /\ UNCHANGED <<nextRoomId, creating, server>>

LobbyNext == \/ \E r \in Requests : CreateRoom(r) \/ StartProcess(r)
             \/ \E id \in Ids : StartRoom(id)

LobbySpec == LobbyInit /\ [][LobbyNext]_lobbyVars

-----------------------------------------------------------------------------

\* The variables have their types.
LobbyTypeOK ==
    /\ rooms \subseteq Ids /\ nextRoomId \in 1..MaxRooms + 1
    /\ creating \in [Requests -> Ids \cup {NoRoom}]
    /\ server \in [Ids -> {"none", "launched", "failed"}]
    /\ started \subseteq Ids

\* What the clients see is so, whatever comes between the two halves of a
\* POST /rooms: a room that was started is not listed again, so that a late
\* request to start it cannot take another room off the list; a listed room
\* has a process, or has had its chance of one, or its handler is about to
\* launch it; and no room is given a second process.
ListIsTrue ==
    /\ LobbyTypeOK
    /\ rooms \cap started = {}
    /\ \A id \in rooms : server[id] # "none" \/ \E r \in Requests : creating[r] = id
    /\ \A r, s \in Requests : creating[r] # NoRoom =>
          /\ server[creating[r]] = "none"
          /\ creating[r] = creating[s] => r = s
=============================================================================
