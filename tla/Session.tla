-------------------------------- MODULE Session --------------------------------
(***************************************************************************)
(* One connection: src/Core/Session.cpp, with the parts of IocpCore.cpp,   *)
(* Service.cpp and GameSession.cpp that its life passes through.           *)
(*                                                                         *)
(* A Session has one event per kind of overlapped operation, which it      *)
(* reuses; the event's _owner is the reference that keeps the Session      *)
(* alive while the operation is pending.  Completions are handled by       *)
(* whichever thread takes them from the port, so the receive loop, the     *)
(* sends of any number of threads, and the disconnection run side by side. *)
(*                                                                         *)
(* A step is one access to shared state, or one section under the lock of  *)
(* the Session, with the thread-local code around it.  stack[t] is the     *)
(* call stack of t: where it is, then where it goes on when it returns.    *)
(* That a received packet fits _recvBuffer is the subject of RecvBuffer.   *)
(***************************************************************************)
EXTENDS Naturals, Sequences, FiniteSets

CONSTANTS
    Threads,        \* the threads that dispatch completions and run jobs
    NoThread,
    Buffers,        \* the SendBuffers sent to this Session, each once
    Errors,         \* the errors WSASend and WSARecv fail with while connected
    DisconnectFails \* whether DisconnectEx may fail: a set of BOOLEAN

ASSUME NoThreadIsNone == NoThread \notin Threads
ASSUME ErrorKinds == Errors \subseteq {"reset", "other"}
ASSUME DisconnectFailsBoolean == DisconnectFails \subseteq BOOLEAN

VARIABLES
    connected,      \* _connected
    sendQueue,      \* _sendQueue
    sendRegistered, \* _sendRegistered
    sendBuffers,    \* _sendEvent.sendBuffers
    owner,          \* owner[e]: the _owner of event e is this Session
    pending,        \* pending[e]: the overlapped operation of event e
    lock,           \* the thread that holds the Session's Lock
    stack,          \* stack[t]: see above
    sending,        \* sending[t]: the argument of the Send t is in
    inService,      \* the Session is in the Service's _sessions
    inManager,      \* the Session is in the GSessionManager's _sessions
    entered,        \* a packet was handled, so that the Room may know the Session
    wire            \* the buffers WSASend has taken, in order

sendVars == <<sendQueue, sendRegistered, sendBuffers, wire>>
ioVars == <<owner, pending>>
memberVars == <<inService, inManager, entered>>
vars == <<connected, lock, stack, sending, sendVars, ioVars, memberVars>>

Events == {"connect", "recv", "send", "disconnect"}
InSeq(s) == {s[i] : i \in DOMAIN s}
Sent == InSeq(wire)
Used == Sent \cup InSeq(sendQueue) \cup InSeq(sendBuffers) \cup UNION {sending[t] : t \in Threads}
Places == {"connect", "addSession", "onConnected", "registerRecv", "postRecv", "recvFailed",
           "handle", "enqueue", "registerSend", "drain", "post", "sendFailed", "unregister",
           "processSend", "unlock", "disconnect", "registerDisconnect", "onDisconnected", "release"}

At(t, place) == stack[t] # <<>> /\ Head(stack[t]) = place
\* t goes on at the places given, one after the other; at none, it returns.
GoTo(t, places) == stack' = [stack EXCEPT ![t] = places \o Tail(@)]
Call(t, places) == stack' = [stack EXCEPT ![t] = places \o @]

\* A Lock is free for a thread if no other thread holds it: it is recursive.
Lockable(t) == lock \in {t, NoThread}

\* RegisterConnect posts ConnectEx (a Listener, AcceptEx).
RegisterConnect == [e \in Events |-> IF e = "connect" THEN "pending" ELSE "none"]

\* A new Session, which is connecting.
Init == /\ connected = FALSE
        /\ sendQueue = <<>> /\ sendRegistered = FALSE /\ sendBuffers = <<>>
        /\ owner = [e \in Events |-> e = "connect"]
        /\ pending = RegisterConnect
        /\ lock = NoThread
        /\ stack = [t \in Threads |-> <<>>]
        /\ sending = [t \in Threads |-> {}]
        /\ inService = FALSE /\ inManager = FALSE /\ entered = FALSE
        /\ wire = <<>>

(***************************************************************************)
(* The port.  An operation ends with bytes, or with none when it fails or  *)
(* the peer is gone; IocpCore::Dispatch hands both to the Session.         *)
(***************************************************************************)
Complete(e) ==
    /\ pending[e] = "pending"
    /\ \E outcome \in IF e \in {"recv", "send"} THEN {"bytes", "zero"} ELSE {"bytes"} :
          pending' = [pending EXCEPT ![e] = outcome]
    /\ UNCHANGED <<connected, owner, lock, stack, sending, sendVars, memberVars>>

\* Dispatch, and the first statements of ProcessConnect, ProcessRecv,
\* ProcessSend and ProcessDisconnect: RELEASE_REF, then what numOfBytes says.
Handlers == [connect |-> [bytes |-> <<"connect">>],
             recv |-> [bytes |-> <<"handle">>, zero |-> <<"disconnect">>],
             send |-> [bytes |-> <<"processSend">>, zero |-> <<"disconnect">>],
             disconnect |-> [bytes |-> <<"onDisconnected">>]]

Dispatch(t, e) ==
    /\ stack[t] = <<>>
    /\ pending[e] \in {"bytes", "zero"}
    /\ Call(t, Handlers[e][pending[e]])
    /\ pending' = [pending EXCEPT ![e] = "none"]
    /\ owner' = [owner EXCEPT ![e] = FALSE]
    /\ sendBuffers' = IF e = "send" THEN <<>> ELSE sendBuffers
    /\ UNCHANGED <<connected, sendQueue, sendRegistered, lock, sending, wire, memberVars>>

(***************************************************************************)
(* ProcessConnect.                                                         *)
(***************************************************************************)
SetConnected(t) ==
    /\ At(t, "connect")
    /\ connected' = TRUE
    /\ GoTo(t, <<"addSession">>)
    /\ UNCHANGED <<lock, sending, sendVars, ioVars, memberVars>>

AddSession(t) ==
    /\ At(t, "addSession")
    /\ inService' = TRUE
    /\ GoTo(t, <<"onConnected">>)
    /\ UNCHANGED <<connected, lock, sending, inManager, entered, sendVars, ioVars>>

\* GameSession::OnConnected: GSessionManager.Add.
OnConnected(t) ==
    /\ At(t, "onConnected")
    /\ inManager' = TRUE
    /\ GoTo(t, <<"registerRecv">>)
    /\ UNCHANGED <<connected, lock, sending, inService, entered, sendVars, ioVars>>

(***************************************************************************)
(* RegisterRecv and ProcessRecv.                                           *)
(***************************************************************************)
\* RegisterRecv: nothing if disconnected; else ADD_REF.
RegisterRecv(t) ==
    /\ At(t, "registerRecv")
    /\ \/ connected /\ owner' = [owner EXCEPT !.recv = TRUE] /\ GoTo(t, <<"postRecv">>)
       \/ ~connected /\ UNCHANGED owner /\ GoTo(t, <<>>)
    /\ UNCHANGED <<connected, pending, lock, sending, sendVars, memberVars>>

\* What HandleError does: for most errors, nothing.
HandleError(error) == IF error = "reset" THEN <<"disconnect">> ELSE <<>>
\* A socket that is being disconnected fails in any way.
PossibleErrors == IF connected THEN Errors ELSE {"reset", "other"}

\* WSARecv.
PostRecv(t) ==
    /\ At(t, "postRecv")
    /\ \/ /\ pending' = [pending EXCEPT !.recv = "pending"]
          /\ GoTo(t, <<>>)
       \/ /\ \E error \in PossibleErrors : GoTo(t, HandleError(error) \o <<"recvFailed">>)
          /\ UNCHANGED pending
    /\ UNCHANGED <<connected, owner, lock, sending, sendVars, memberVars>>

\* RELEASE_REF after a failure; the fault forgets it.
Kept == owner
Released == [owner EXCEPT !.recv = FALSE]

\* RegisterRecv after a failure.
RecvFailed(t) ==
    /\ At(t, "recvFailed")
    /\ owner' = Released
    /\ GoTo(t, <<>>)
    /\ UNCHANGED <<connected, pending, lock, sending, sendVars, memberVars>>

\* OnRecv returns; Handle_C_ENTER_ROOM has made the Session known to the Room.
EndHandle(t) ==
    /\ At(t, "handle")
    /\ entered' = TRUE
    /\ GoTo(t, <<"registerRecv">>)
    /\ UNCHANGED <<connected, lock, sending, inService, inManager, sendVars, ioVars>>

(***************************************************************************)
(* Send, RegisterSend and ProcessSend.                                     *)
(***************************************************************************)
\* A job of the Room calls Send, on a thread that does nothing else or inside
\* OnRecv; Send returns at once if it finds the Session disconnected.
Send(t) ==
    /\ entered /\ connected
    /\ stack[t] = <<>> \/ At(t, "handle")
    /\ \E b \in Buffers \ Used : sending' = [sending EXCEPT ![t] = {b}]
    /\ Call(t, <<"enqueue">>)
    /\ UNCHANGED <<connected, lock, sendVars, ioVars, memberVars>>

\* The exchange that decides who registers; the fault only stores.
EveryoneRegisters == TRUE
MustRegister == ~sendRegistered

\* Send: the section under the lock.
Enqueue(t) ==
    /\ At(t, "enqueue") /\ Lockable(t)
    /\ \E b \in sending[t] : sendQueue' = Append(sendQueue, b)
    /\ sendRegistered' = TRUE
    /\ sending' = [sending EXCEPT ![t] = {}]
    /\ GoTo(t, IF MustRegister THEN <<"registerSend">> ELSE <<>>)
    /\ UNCHANGED <<connected, sendBuffers, lock, wire, ioVars, memberVars>>

\* RegisterSend: nothing if disconnected; else ADD_REF.
RegisterSend(t) ==
    /\ At(t, "registerSend")
    /\ \/ connected /\ owner' = [owner EXCEPT !.send = TRUE] /\ GoTo(t, <<"drain">>)
       \/ ~connected /\ UNCHANGED owner /\ GoTo(t, <<>>)
    /\ UNCHANGED <<connected, pending, lock, sending, sendVars, memberVars>>

\* RegisterSend: the section under the lock moves _sendQueue to the event.
Drain(t) ==
    /\ At(t, "drain") /\ Lockable(t)
    /\ sendBuffers' = sendBuffers \o sendQueue
    /\ sendQueue' = <<>>
    /\ GoTo(t, <<"post">>)
    /\ UNCHANGED <<connected, sendRegistered, lock, sending, wire, ioVars, memberVars>>

\* What RegisterSend does after a failure; the fault swaps it round.
UndoSendSwapped == <<"unregister", "sendFailed">>
UndoSend == <<"sendFailed", "unregister">>

\* WSASend.
PostSend(t) ==
    /\ At(t, "post")
    /\ \/ /\ pending' = [pending EXCEPT !.send = "pending"]
          /\ wire' = wire \o sendBuffers
          /\ GoTo(t, <<>>)
       \/ /\ \E error \in PossibleErrors : GoTo(t, HandleError(error) \o UndoSend)
          /\ UNCHANGED <<pending, wire>>
    /\ UNCHANGED <<connected, sendQueue, sendRegistered, sendBuffers, owner, lock, sending, memberVars>>

\* RegisterSend after a failure: RELEASE_REF of the Session and the buffers ...
SendFailed(t) ==
    /\ At(t, "sendFailed")
    /\ owner' = [owner EXCEPT !.send = FALSE]
    /\ sendBuffers' = <<>>
    /\ GoTo(t, <<>>)
    /\ UNCHANGED <<connected, sendQueue, sendRegistered, pending, lock, sending, wire, memberVars>>

\* ... and then _sendRegistered.store(false), without the lock.
Unregister(t) ==
    /\ At(t, "unregister")
    /\ sendRegistered' = FALSE
    /\ GoTo(t, <<>>)
    /\ UNCHANGED <<connected, sendQueue, sendBuffers, lock, sending, wire, ioVars, memberVars>>

\* A fault in ProcessSend: it unregisters without a look at _sendQueue.
ProcessSendOnce(t) ==
    /\ At(t, "processSend") /\ lock = NoThread
    /\ sendRegistered' = FALSE
    /\ GoTo(t, <<>>)
    /\ UNCHANGED <<connected, sendQueue, sendBuffers, lock, sending, wire, ioVars, memberVars>>

\* ProcessSend under the lock: unregister if nothing was queued meanwhile, or
\* register again and give the lock back afterwards.
ProcessSend(t) ==
    /\ At(t, "processSend") /\ lock = NoThread
    /\ \/ /\ sendQueue = <<>>
          /\ sendRegistered' = FALSE
          /\ GoTo(t, <<>>)
          /\ UNCHANGED lock
       \/ /\ sendQueue # <<>>
          /\ lock' = t
          /\ GoTo(t, <<"registerSend", "unlock">>)
          /\ UNCHANGED sendRegistered
    /\ UNCHANGED <<connected, sendQueue, sendBuffers, sending, wire, ioVars, memberVars>>

Unlock(t) ==
    /\ At(t, "unlock")
    /\ lock' = NoThread
    /\ GoTo(t, <<>>)
    /\ UNCHANGED <<connected, sending, sendVars, ioVars, memberVars>>

(***************************************************************************)
(* Disconnect and ProcessDisconnect.                                       *)
(***************************************************************************)
\* Who goes on in Disconnect: the caller whose exchange finds _connected set.
\* The fault is to store, not to exchange.
AnyCaller == TRUE
FirstCaller == connected

\* Disconnect: _connected.exchange(false).
Disconnect(t) ==
    /\ At(t, "disconnect")
    /\ connected' = FALSE
    /\ GoTo(t, IF FirstCaller THEN <<"registerDisconnect">> ELSE <<>>)
    /\ UNCHANGED <<lock, sending, sendVars, ioVars, memberVars>>

\* RegisterDisconnect: DisconnectEx; the reference is dropped if it fails.
RegisterDisconnect(t) ==
    /\ At(t, "registerDisconnect")
    /\ \E fails \in DisconnectFails :
          /\ owner' = [owner EXCEPT !.disconnect = ~fails]
          /\ pending' = [pending EXCEPT !.disconnect = IF fails THEN @ ELSE "pending"]
    /\ GoTo(t, <<>>)
    /\ UNCHANGED <<connected, lock, sending, sendVars, memberVars>>

\* GameSession::OnDisconnected: GSessionManager.Remove.
OnDisconnected(t) ==
    /\ At(t, "onDisconnected")
    /\ inManager' = FALSE
    /\ GoTo(t, <<"release">>)
    /\ UNCHANGED <<connected, lock, sending, inService, entered, sendVars, ioVars>>

\* Service::ReleaseSession.
ReleaseSession(t) ==
    /\ At(t, "release")
    /\ inService' = FALSE
    /\ GoTo(t, <<>>)
    /\ UNCHANGED <<connected, lock, sending, inManager, entered, sendVars, ioVars>>
Step(t) ==
    \/ \E e \in Events : Dispatch(t, e)
    \/ SetConnected(t) \/ AddSession(t) \/ OnConnected(t)
    \/ RegisterRecv(t) \/ PostRecv(t) \/ RecvFailed(t) \/ EndHandle(t)
    \/ Enqueue(t) \/ RegisterSend(t) \/ Drain(t) \/ PostSend(t)
    \/ SendFailed(t) \/ Unregister(t) \/ ProcessSend(t) \/ Unlock(t)
    \/ Disconnect(t) \/ RegisterDisconnect(t) \/ OnDisconnected(t) \/ ReleaseSession(t)

Next == \/ \E e \in Events : Complete(e)
        \/ \E t \in Threads : Send(t) \/ Step(t)

Spec == Init /\ [][Next]_vars

(***************************************************************************)
(* Fairness: threads run; the port delivers in order what is complete, and *)
(* a thread comes back to it again and again; operations                   *)
(* on the socket of a disconnected Session complete; a thread that spins   *)
(* for the lock gets it (GetsLock of Lock).  A peer may stay silent.       *)
(***************************************************************************)
Fairness == /\ \A t \in Threads : /\ WF_vars(Step(t))
                                   /\ SF_vars(Enqueue(t) \/ Drain(t) \/ ProcessSend(t))
            /\ WF_vars(Complete("connect") \/ Complete("disconnect") \/ Complete("send"))
            /\ WF_vars(~connected /\ Complete("recv"))
            /\ \A e \in Events : SF_vars(\E t \in Threads : Dispatch(t, e))

LiveSpec == Spec /\ Fairness

-----------------------------------------------------------------------------

\* Sequences of buffers, each in them once.
Queues == {q \in Seq(Buffers) : \A i, j \in DOMAIN q : q[i] = q[j] => i = j}

\* The variables have their types.
TypeOK ==
    /\ connected \in BOOLEAN /\ sendRegistered \in BOOLEAN
    /\ sendQueue \in Queues /\ sendBuffers \in Queues /\ wire \in Queues
    /\ owner \in [Events -> BOOLEAN]
    /\ pending \in [Events -> {"none", "pending", "bytes", "zero"}]
    /\ lock \in Threads \cup {NoThread}
    /\ stack \in [Threads -> Seq(Places)]
    /\ sending \in [Threads -> SUBSET Buffers]
    /\ inService \in BOOLEAN /\ inManager \in BOOLEAN /\ entered \in BOOLEAN

\* Who uses an event: a thread that fills it in or handles its failure, and the
\* operation that is pending with it.
Uses(t, e) == \E i \in DOMAIN stack[t] :
    stack[t][i] \in CASE e = "send" -> {"registerSend", "drain", "post", "sendFailed", "unregister"}
                      [] e = "recv" -> {"handle", "registerRecv", "postRecv", "recvFailed"}
                      [] e = "disconnect" -> {"registerDisconnect"}
                      [] e = "connect" -> {}
Users(e) == {t \in Threads : Uses(t, e)} \cup (IF pending[e] = "none" THEN {} ELSE {NoThread})

\* An event is never used twice at a time: _sendEvent and _recvEvent can be
\* reused, and _recvBuffer is touched by one thread only.
EventsUsedOnce == \A e \in Events : Cardinality(Users(e)) <= 1

\* As long as an operation is pending, or its completion waits in the port, the
\* event refers to the Session: Dispatch does not find a null _owner.
OwnerWhilePending == \A e \in Events : pending[e] # "none" => owner[e]

\* The variables have their types; a buffer stays referenced until the completion
\* of the send it is part of; and WSASend is never given nothing to send, which
\* would complete with no bytes and be taken for the end of the connection.
BuffersWhilePending ==
    /\ TypeOK
    /\ pending.send # "none" => /\ Len(sendBuffers) \in 1..Len(wire)
                                /\ sendBuffers = SubSeq(wire, Len(wire) - Len(sendBuffers) + 1, Len(wire))
    /\ \A t \in Threads : At(t, "post") => sendBuffers # <<>>

\* Whoever registers, or will look at _sendQueue again.
Sender(t) == \E i \in DOMAIN stack[t] : stack[t][i] \in {"registerSend", "drain", "processSend"}

\* Buffers queued on a connected Session have somebody who will send them:
\* no Send leaves its buffer behind because it takes a send for registered
\* that has just ended.  (It needs that WSASend fails with a reset only.)
NothingStranded ==
    connected /\ sendQueue # <<>> => pending.send # "none" \/ \E t \in Threads :
        Uses(t, "send") \/ Sender(t) \/ At(t, "disconnect")

\* ReleaseSession finds the Session (ASSERT_CRASH in Service.cpp): it was added
\* before, and it is released once.
ReleaseFindsIt == \A t \in Threads : At(t, "release") => inService

\* The channel: what is not posted yet is in the event or in _sendQueue.
Channel == INSTANCE SendChannel WITH
    accepted <- (IF pending.send = "none" THEN sendBuffers ELSE <<>>) \o sendQueue

\* Send delivers in order, each buffer at most once.
SendsInOrder == Channel!Spec

\* WSASend has failed with an error that HandleError does not act upon.
Ignored == connected /\ \E t \in Threads : At(t, "sendFailed")

\* What Send has accepted is given to the socket, if the connection lasts and
\* no such failure is ignored.
SendsHappen ==
    []~Ignored => \A b \in Buffers : b \in InSeq(sendQueue) ~> b \in Sent \/ ~connected

\* A Session that is disconnected is released and gives up every reference to
\* itself, so that it is destroyed.
Gone == ~inService /\ ~inManager /\ \A e \in Events : ~owner[e]
IsDestroyed == (inService /\ ~connected) ~> []Gone
=============================================================================
