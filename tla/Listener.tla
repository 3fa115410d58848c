-------------------------------- MODULE Listener --------------------------------
(***************************************************************************)
(* How the server comes to listen, and goes on (src/Core/Listener.cpp,     *)
(* Service.cpp, ThreadManager.cpp, src/Server/main.cpp).                   *)
(*                                                                         *)
(* The main thread opens the socket, posts an AcceptEx for each of the     *)
(* accept events and launches the threads.  A thread that takes the        *)
(* completion of an AcceptEx connects the Session that waited for the      *)
(* client, or gives it up, and posts the event again with a new Session.   *)
(* What becomes of a connection is the subject of Session: here it is in   *)
(* the Service until it ends.                                              *)
(***************************************************************************)
EXTENDS Naturals, FiniteSets

CONSTANTS
    Threads,        \* the threads that main launches
    Main,
    AcceptEvents,   \* as many as GetMaxSessionCount says
    Sessions,       \* the Session objects that can exist
    NoSession, NoEvent,
    MaxClients      \* bound: clients come while there are fewer

ASSUME MainIsNoThread == Main \notin Threads
ASSUME NoneAreNone == NoSession \notin Sessions /\ NoEvent \notin AcceptEvents

VARIABLES
    sessionOf,      \* sessionOf[e]: AcceptEvent::_session
    pending,        \* the events whose AcceptEx is pending
    completed,      \* the events that are completed and wait in the port
    pc,             \* pc[t]: what t does
    eventOf,        \* eventOf[t]: the event that t has in hand
    sessions        \* the Service's _sessions

listenerVars == <<sessionOf, pending, completed, pc, eventOf, sessions>>

Workers == Threads \cup {Main}

\* main begins; the other threads are not there.
ListenerInit ==
    /\ sessionOf = [e \in AcceptEvents |-> NoSession]
    /\ pending = {} /\ completed = {} /\ sessions = {}
    /\ pc = [t \in Workers |-> IF t = Main THEN "socket" ELSE "absent"]
    /\ eventOf = [t \in Workers |-> NoEvent]

Moves(t, from, to) == pc[t] = from /\ pc' = [pc EXCEPT ![t] = to]

(***************************************************************************)
(* The main thread: Service::Start, then the threads.                      *)
(***************************************************************************)
\* StartAccept: the socket is created, registered, bound and listens, or else
\* Start fails and main crashes (ASSERT_CRASH).
OpenSocket ==
    /\ Moves(Main, "socket", "accept") \/ Moves(Main, "socket", "crashed")
    /\ UNCHANGED <<sessionOf, pending, completed, eventOf, sessions>>

\* StartAccept: the loop, the next event.
StartAccept(e) ==
    /\ sessionOf[e] = NoSession /\ Moves(Main, "accept", "first")
    /\ eventOf' = [eventOf EXCEPT ![Main] = e]
    /\ UNCHANGED <<sessionOf, pending, completed, sessions>>

\* How main goes on after Start; the fault launches the threads too early.
ThreadsFirst == [accept |-> "launch", launch |-> "update", update |-> "idle"]
MainGoesOn == [accept |-> "update", update |-> "launch", launch |-> "idle"]

\* StartAccept returns.
StartReturns ==
    /\ \A e \in AcceptEvents : sessionOf[e] # NoSession
    /\ Moves(Main, "accept", MainGoesOn.accept)
    /\ UNCHANGED <<sessionOf, pending, completed, eventOf, sessions>>

\* main calls Room::UpdateRoom itself, and not through the queue.
FirstUpdate ==
    /\ Moves(Main, "update", MainGoesOn.update)
    /\ UNCHANGED <<sessionOf, pending, completed, eventOf, sessions>>

\* ThreadManager::Launch of the next thread.
Launch(t) ==
    /\ pc[Main] = "launch" /\ Moves(t, "absent", "idle")
    /\ UNCHANGED <<sessionOf, pending, completed, eventOf, sessions>>

\* main calls DoWorkerJob itself.
BeginWork ==
    /\ \A t \in Threads : pc[t] # "absent"
    /\ Moves(Main, "launch", MainGoesOn.launch)
    /\ UNCHANGED <<sessionOf, pending, completed, eventOf, sessions>>

Start == OpenSocket \/ (\E e \in AcceptEvents : StartAccept(e)) \/ StartReturns
            \/ FirstUpdate \/ (\E t \in Threads : Launch(t)) \/ BeginWork

(***************************************************************************)
(* The accept events.                                                      *)
(***************************************************************************)
\* CreateSession makes a Session that nobody has; the fault posts the event with
\* the Session it had.
SessionKept(e) == IF sessionOf[e] = NoSession THEN Sessions \ sessions ELSE {sessionOf[e]}
CreateSession(e) == Sessions \ (sessions \cup {sessionOf[f] : f \in AcceptEvents})

\* Where a thread goes on after RegisterAccept.
Caller == [first |-> "accept", register |-> "idle"]

\* RegisterAccept posts the event; it calls itself, with another Session, when
\* AcceptEx fails.
RegisterAccept(t) ==
    LET e == eventOf[t]
    IN /\ pc[t] \in DOMAIN Caller
       /\ \E s \in CreateSession(e) : sessionOf' = [sessionOf EXCEPT ![e] = s]
       /\ \/ /\ pending' = pending \cup {e}
             /\ pc' = [pc EXCEPT ![t] = Caller[pc[t]]]
             /\ eventOf' = [eventOf EXCEPT ![t] = NoEvent]
          \/ UNCHANGED <<pending, pc, eventOf>>
       /\ UNCHANGED <<completed, sessions>>

\* A client connects, or the operation fails.
Clients == Cardinality(sessions \cup completed) + Cardinality({t \in Workers : pc[t] = "process"})
Complete(e) ==
    /\ e \in pending /\ Clients < MaxClients
    /\ pending' = pending \ {e} /\ completed' = completed \cup {e}
    /\ UNCHANGED <<sessionOf, pc, eventOf, sessions>>

\* IocpCore::Dispatch hands the completion to the Listener.
Dispatch(t, e) ==
    /\ e \in completed /\ Moves(t, "idle", "process")
    /\ completed' = completed \ {e}
    /\ eventOf' = [eventOf EXCEPT ![t] = e]
    /\ UNCHANGED <<sessionOf, pending, sessions>>

\* SetUpdateAcceptSocket or getpeername fails, and the Session is given up;
\* the event is posted again.
ProcessAcceptFailed(t) ==
    /\ Moves(t, "process", "register")
    /\ UNCHANGED <<sessionOf, pending, completed, eventOf, sessions>>

\* ProcessConnect, which adds the Session to the Service; then the event again.
ProcessAccept(t) ==
    /\ Moves(t, "process", "register")
    /\ sessions' = sessions \cup {sessionOf[eventOf[t]]}
    /\ UNCHANGED <<sessionOf, pending, completed, eventOf>>

Accept(t) == \/ \E e \in AcceptEvents : Dispatch(t, e)
             \/ ProcessAcceptFailed(t) \/ ProcessAccept(t) \/ RegisterAccept(t)

\* A connection ends: ReleaseSession.
ReleaseSession(s) ==
    /\ s \in sessions /\ sessions' = sessions \ {s}
    /\ UNCHANGED <<sessionOf, pending, completed, pc, eventOf>>

ListenerNext == \/ Start
                \/ \E e \in AcceptEvents : Complete(e)
                \/ \E t \in Workers : Accept(t)
                \/ \E s \in Sessions : ReleaseSession(s)

ListenerSpec == ListenerInit /\ [][ListenerNext]_listenerVars

-----------------------------------------------------------------------------

\* The variables have their types.
ListenerTypeOK ==
    /\ sessionOf \in [AcceptEvents -> Sessions \cup {NoSession}]
    /\ pending \subseteq AcceptEvents /\ completed \subseteq AcceptEvents
    /\ pc \in [Workers -> {"socket", "accept", "crashed", "first", "update", "launch", "absent",
                           "idle", "process", "register"}]
    /\ eventOf \in [Workers -> AcceptEvents \cup {NoEvent}]
    /\ sessions \subseteq Sessions

\* Where an event is: in the kernel, in the port, or in the hands of a thread.
Handling(e) == {t \in Workers : eventOf[t] = e /\ pc[t] \in {"first", "process", "register"}}
Places(e) == Cardinality({e} \cap pending) + Cardinality({e} \cap completed) + Cardinality(Handling(e))

\* The Listener never loses a place for a client and never uses one twice: from
\* its first RegisterAccept each event is in one place; and an AcceptEx that is
\* under way, or done and not yet processed, has a Session that was given to no
\* client and to no other event.
KeepsListening ==
    /\ ListenerTypeOK
    /\ \A e \in AcceptEvents :
          /\ Places(e) <= 1
          /\ sessionOf[e] # NoSession => Places(e) = 1
          /\ \A t \in Workers : (e \in pending \cup completed) \/ (eventOf[t] = e /\ pc[t] = "process") =>
                /\ sessionOf[e] \in Sessions \ sessions
                /\ \A f \in AcceptEvents \ {e} : sessionOf[f] # sessionOf[e]
=============================================================================
