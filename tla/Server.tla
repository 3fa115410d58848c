--------------------------------- MODULE Server ---------------------------------
(***************************************************************************)
(* A game from the lobby to its monsters: the LobbyServer launches the     *)
(* process of a room, its main function opens the Listener and launches    *)
(* the threads, clients connect, and one of them sends C_ENTER_GAME, whose *)
(* handler initialises the NavigationSystem on the thread that received    *)
(* it.  Of the processes we follow the first that is launched.             *)
(*                                                                         *)
(* A thread is in one place at a time: it accepts, or handles the packet,  *)
(* or runs the Room's jobs.                                                *)
(***************************************************************************)
EXTENDS Lobby, Listener, Navigation

CONSTANT NoHost

ASSUME NoHostIsNone == NoHost \notin Hosts

VARIABLES
    process,        \* the room whose process we follow, or NoRoom
    entering        \* entering[t]: the C_ENTER_GAME whose handler t is in, or NoHost

serverVars == <<process, entering>>
vars == <<serverVars, lobbyVars, listenerVars, navigationVars>>

Init == /\ LobbyInit /\ ListenerInit /\ NavigationInit
        /\ process = NoRoom
        /\ entering = [t \in Workers |-> NoHost]

(***************************************************************************)
(* The lobby.                                                              *)
(***************************************************************************)
LobbyStep ==
    /\ \/ \E r \in Requests : CreateRoom(r)
       \/ \E id \in Ids : StartRoom(id)
    /\ UNCHANGED <<serverVars, listenerVars, navigationVars>>

\* ShellExecute of Server.exe.
LaunchProcess(r) ==
    /\ StartProcess(r)
    /\ process' = IF process = NoRoom /\ server'[creating[r]] = "launched" THEN creating[r] ELSE process
    /\ UNCHANGED <<entering, listenerVars, navigationVars>>

(***************************************************************************)
(* The process.                                                            *)
(***************************************************************************)
\* The process was launched, and has not died.
Lives == process # NoRoom /\ died = "no"

\* A thread between two of its tasks.
Idle(t) == pc[t] = "idle" /\ entering[t] = NoHost

ListenerStep ==
    /\ Lives
    /\ \/ pc[Main] # "update" /\ Start
       \/ \E e \in AcceptEvents : Complete(e)
       \/ \E t \in Workers : entering[t] = NoHost /\ Accept(t)
       \/ \E s \in Sessions : ReleaseSession(s)
    /\ UNCHANGED <<serverVars, lobbyVars, navigationVars>>

\* main's own UpdateRoom.
MainStep ==
    /\ Lives
    /\ pc[Main] = "update" /\ Start /\ MainUpdate
    /\ UNCHANGED <<serverVars, lobbyVars>>

\* A thread that received C_ENTER_GAME from a client stays in its handler to the
\* end, whatever becomes of the client.
EnterGameHandler(t, h) ==
    /\ Lives
    /\ \/ entering[t] = h
       \/ Idle(t) /\ stage[h] = "received" /\ sessions # {}
    /\ Handler(h)
    /\ entering' = [entering EXCEPT ![t] = IF stage'[h] = "done" THEN NoHost ELSE h]
    /\ UNCHANGED <<process, lobbyVars, listenerVars>>

\* Packets, timers and jobs need a thread that is free for them.
RoomStep ==
    /\ Lives
    /\ \E t \in Workers : Idle(t)
    /\ \/ Queue("UpdateRoom") \/ Queue("SpawnMonster")
       \/ sessions # {} /\ Queue("GameInit")
       \/ RunJob
    /\ UNCHANGED <<serverVars, lobbyVars, listenerVars>>

Next == \/ LobbyStep
        \/ \E r \in Requests : LaunchProcess(r)
        \/ ListenerStep
        \/ MainStep
        \/ \E t \in Workers, h \in Hosts : EnterGameHandler(t, h)
        \/ RoomStep

Spec == Init /\ [][Next]_vars

-----------------------------------------------------------------------------

\* The variables have their types; and while main runs UpdateRoom itself, which
\* is the only time that code of the Room runs outside its queue, nobody else is
\* about to: no thread works, no packet is being handled and no job is queued,
\* although the clients may connect already.
FirstUpdateIsAlone ==
    /\ process \in Ids \cup {NoRoom} /\ entering \in [Workers -> Hosts \cup {NoHost}]
    /\ pc[Main] = "update" =>
          /\ \A t \in Threads : pc[t] = "absent"
          /\ \A h \in Hosts : stage[h] = "received"
          /\ jobs = <<>>
=============================================================================
