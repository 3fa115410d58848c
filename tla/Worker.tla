-------------------------------- MODULE Worker --------------------------------
(***************************************************************************)
(* The loop every thread of the server runs (DoWorkerJob in                *)
(* src/Server/main.cpp): handle one I/O completion, distribute the timers  *)
(* that are due (JobTimer), execute queues of the GlobalQueue until        *)
(* LEndTickCount.  It drives JobQueue, whose steps it constrains: a thread *)
(* pushes from packet handlers, from JobTimer::Distribute and from the     *)
(* bodies of jobs, and pops the GlobalQueue only in DoGlobalQueueWork.     *)
(*                                                                         *)
(* The job that keeps the game alive is Room::UpdateRoom, which reserves   *)
(* its next run as its last statement: lose it once and the Room stops     *)
(* for good; duplicate it once and the Room runs at double speed.          *)
(***************************************************************************)
EXTENDS JobQueue

CONSTANTS
    Room,       \* the queue of GRoom, which UpdateRoom belongs to
    Beats,      \* identities for the UpdateRoom jobs
    Ticks       \* the values of executeTick and now, up to order

ASSUME RoomIsQueue == Room \in Queues
ASSUME BeatsAreJobs == Beats \subseteq Jobs
ASSUME TicksAreNumbers == Ticks \subseteq Nat
\* Distribute calls Push(job).
ASSUME PushExecutes == FALSE \in PushOnly

VARIABLES
    phase,          \* phase[t]: where t is in DoWorkerJob
    late,           \* late[t]: GetTickCount64() > LEndTickCount
    timers,         \* the contents of GJobTimer's _items
    due,            \* due[t]: the items t has popped in Distribute and not pushed
    distributing,   \* _distributing
    rearmed         \* rearmed[t]: the UpdateRoom t runs has reached its DoTimer

workerVars == <<phase, late, timers, due, distributing, rearmed>>
allVars == <<vars, workerVars>>

Phases == {"io", "timer", "takeDue", "distribute", "global"}

Item(q, j, tick) == [owner |-> q, job |-> j, tick |-> tick]

InTimers == {x.job : x \in timers} \cup UNION {{x.job : x \in JobsIn(due[t])} : t \in Threads}
\* Every DoAsync and DoTimer makes a new Job; the fault would push one again
\* that is still queued.
UnusedByTimer == Jobs \ InTimers
Unused == Jobs \ (Live \cup InTimers)

\* Main has called GRoom->UpdateRoom() on the empty Room, and launches the workers.
WInit == /\ Init
         /\ phase = [t \in Threads |-> "io"]
         /\ late = [t \in Threads |-> FALSE]
         /\ \E b \in Beats, tick \in Ticks : timers = {Item(Room, b, tick)}
         /\ due = [t \in Threads |-> <<>>]
         /\ distributing = FALSE
         /\ rearmed = [t \in Threads |-> FALSE]

\* A packet handler, or the body of a job, calls DoAsync.
DoAsync(t) ==
    /\ phase[t] = "io" \/ InBody(t)
    /\ \E q \in Queues, j \in Unused \ Beats, only \in PushOnly : CountJob(t, q, j, only)
    /\ UNCHANGED workerVars

CurrentJob(t) == Head(batch[t])
RunsBeat(t) == InBody(t) /\ CurrentJob(t) \in Beats

\* DoTimer, called by a job for its own queue: JobTimer::Reserve.
DoTimer(t) ==
    /\ InBody(t) /\ ~RunsBeat(t)
    /\ \E j \in Unused \ Beats, tick \in Ticks : timers' = timers \cup {Item(current[t], j, tick)}
    /\ UNCHANGED <<vars, phase, late, due, distributing, rearmed>>

\* The last statement of UpdateRoom: DoTimer(DELTA_TIME, &Room::UpdateRoom).
Rearm(t) ==
    /\ RunsBeat(t) /\ ~rearmed[t]
    /\ \E b \in Beats \cap Unused, tick \in Ticks : timers' = timers \cup {Item(current[t], b, tick)}
    /\ rearmed' = [rearmed EXCEPT ![t] = TRUE]
    /\ UNCHANGED <<vars, phase, late, due, distributing>>

\* UpdateRoom returns only after its DoTimer; the fault is an early return.
MayReturnEarly(t) == TRUE
MayReturn(t) == RunsBeat(t) => rearmed[t]

\* service->GetIocpCore()->Dispatch(10) returns.
EndDispatch(t) ==
    /\ phase[t] = "io" /\ AtTopLevel(t)
    /\ phase' = [phase EXCEPT ![t] = "timer"]
    /\ UNCHANGED <<vars, late, timers, due, distributing, rearmed>>

\* A fault in Distribute: the flag is set but not looked at.
TryDistributeBlindly(t) ==
    /\ phase[t] = "timer"
    /\ distributing' = TRUE
    /\ phase' = [phase EXCEPT ![t] = "takeDue"]
    /\ UNCHANGED <<vars, late, timers, due, rearmed>>

\* Distribute: _distributing.exchange(true); whoever finds it set goes on.
TryDistribute(t) ==
    /\ phase[t] = "timer"
    /\ distributing' = TRUE
    /\ phase' = [phase EXCEPT ![t] = IF distributing THEN "global" ELSE "takeDue"]
    /\ UNCHANGED <<vars, late, timers, due, rearmed>>

\* The orders in which the priority queue can deliver a set of items.
InTickOrder(items) ==
    {s \in [1..Cardinality(items) -> items] :
        \A i, k \in DOMAIN s : i < k => s[i] # s[k] /\ s[i].tick <= s[k].tick}

\* Distribute: pop everything due at now, under the lock.
TakeDue(t, now) ==
    /\ phase[t] = "takeDue"
    /\ LET items == {x \in timers : x.tick <= now}
       IN  /\ timers' = timers \ items
           /\ \E s \in InTickOrder(items) : due' = [due EXCEPT ![t] = s]
    /\ phase' = [phase EXCEPT ![t] = "distribute"]
    /\ UNCHANGED <<vars, late, distributing, rearmed>>

TakeDueNow(t) == \E now \in Ticks \cup {0} : TakeDue(t, now)

\* Distribute: owner->Push(job), for the next item.
PushDue(t) ==
    /\ phase[t] = "distribute" /\ AtTopLevel(t) /\ due[t] # <<>>
    /\ CountJob(t, Head(due[t]).owner, Head(due[t]).job, FALSE)
    /\ due' = [due EXCEPT ![t] = Tail(@)]
    /\ UNCHANGED <<phase, late, timers, distributing, rearmed>>

\* A fault in Distribute: it returns without the store.
EndDistributeHolding(t) ==
    /\ phase[t] = "distribute" /\ AtTopLevel(t) /\ due[t] = <<>>
    /\ phase' = [phase EXCEPT ![t] = "global"]
    /\ UNCHANGED <<vars, late, timers, due, distributing, rearmed>>

\* Distribute: _distributing.store(false).
EndDistribute(t) ==
    /\ phase[t] = "distribute" /\ AtTopLevel(t) /\ due[t] = <<>>
    /\ distributing' = FALSE
    /\ phase' = [phase EXCEPT ![t] = "global"]
    /\ UNCHANGED <<vars, late, timers, due, rearmed>>

\* DoGlobalQueueWork: there is time left and a queue to execute.
TakeGlobal(t) ==
    /\ phase[t] = "global" /\ ~late[t]
    /\ PopGlobal(t)
    /\ UNCHANGED workerVars

\* DoGlobalQueueWork returns, and DoWorkerJob sets LEndTickCount anew.
NextIteration(t) ==
    /\ phase[t] = "global" /\ AtTopLevel(t)
    /\ late[t] \/ globalQueue = <<>>
    /\ phase' = [phase EXCEPT ![t] = "io"]
    /\ late' = [late EXCEPT ![t] = FALSE]
    /\ UNCHANGED <<vars, timers, due, distributing, rearmed>>

\* A step inside Push or Execute.  Execute takes another batch only while now
\* is below LEndTickCount.
InsideQueue(t) ==
    \/ /\ EnqueueJob(t) \/ PushGlobal(t) \/ PopAll(t) \/ StartJob(t) \/ Return(t) \/ HandOver(t)
       /\ UNCHANGED workerVars
    \/ /\ Continue(t) /\ ~late[t]
       /\ UNCHANGED workerVars
    \/ /\ FinishJob(t) /\ MayReturn(t)
       /\ rearmed' = [rearmed EXCEPT ![t] = FALSE]
       /\ UNCHANGED <<phase, late, timers, due, distributing>>

\* 64 ms have passed since DoWorkerJob set LEndTickCount.
Expire(t) ==
    /\ ~late[t]
    /\ late' = [late EXCEPT ![t] = TRUE]
    /\ UNCHANGED <<vars, phase, timers, due, distributing, rearmed>>

WorkerStep(t) == \/ EndDispatch(t) \/ TryDistribute(t) \/ TakeDueNow(t)
                 \/ PushDue(t) \/ EndDistribute(t) \/ TakeGlobal(t) \/ NextIteration(t)
                 \/ Rearm(t) \/ InsideQueue(t)

WNext == \E t \in Threads : DoAsync(t) \/ DoTimer(t) \/ Expire(t) \/ WorkerStep(t)

WSpec == WInit /\ [][WNext]_allVars

(***************************************************************************)
(* Fairness.  Every thread runs; Dispatch returns (it waits at most 10 ms) *)
(* and job bodies end; a thread that keeps looping in Execute gets past    *)
(* LEndTickCount; time gets past every executeTick, so that an item is not *)
(* left behind in _items for ever.                                         *)
(***************************************************************************)
TakesBeat == \E t \in Threads : TakeDueNow(t) /\ \E x \in timers \ timers' : x.job \in Beats

WFairness == /\ \A t \in Threads : /\ WF_allVars(WorkerStep(t))
                                    /\ SF_allVars(EndDispatch(t))
                                    /\ SF_allVars(InsideQueue(t) /\ FinishJob(t))
                                    /\ SF_allVars(InsideQueue(t) /\ HandOver(t))
                                    /\ SF_allVars(TakeGlobal(t))
             /\ SF_allVars(TakesBeat)

WLiveSpec == WSpec /\ WFairness

-----------------------------------------------------------------------------

\* The variables have their types.
WTypeOK ==
    /\ TypeOK
    /\ phase \in [Threads -> Phases]
    /\ late \in [Threads -> BOOLEAN]
    /\ timers \subseteq [owner : Queues, job : Jobs, tick : Ticks]
    /\ due \in [Threads -> Seq([owner : Queues, job : Jobs, tick : Ticks])]
    /\ distributing \in BOOLEAN
    /\ rearmed \in [Threads -> BOOLEAN]

\* Only one thread is between the exchange and the store in Distribute, and the
\* flag is set as long as it is there ("only one thread passes at a time").
OneDistributor ==
    Cardinality({t \in Threads : phase[t] \in {"takeDue", "distribute"}}) = IF distributing THEN 1 ELSE 0

\* Timer jobs of one queue reach it in the order of their executeTick: when an
\* item is pushed, no thread still holds an earlier one for the same queue.
TimersInOrder ==
    [][\A t \in Threads : PushDue(t) =>
          \A u \in Threads : \A x \in JobsIn(due[u]) :
              x.owner = Head(due[t]).owner => Head(due[t]).tick <= x.tick]_allVars

\* The UpdateRoom jobs whose DoTimer is still to come.
PendingBeats == (Beats \cap (Live \cup InTimers))
                  \ {CurrentJob(t) : t \in {u \in Threads : stage[u] = "body" /\ rearmed[u]}}

\* There is always exactly one UpdateRoom to come, wherever it is: in the
\* timer, popped by Distribute, inside Push, in the Room's queue or running.
OneHeartbeat == Cardinality(PendingBeats) = 1

Beating == \E t \in Threads : stage[t] = "body" /\ CurrentJob(t) \in Beats

\* Some thread comes to DoGlobalQueueWork with time left again and again: the
\* worker "with time to spare" the comments in Push and Execute count on.
Spare(t) == phase[t] = "global" /\ AtTopLevel(t) /\ ~late[t]
NotOverloaded == \E t \in Threads : []<>Spare(t)

\* The Room is updated again and again, whatever packets come in, unless every
\* thread is late every time it gets to the GlobalQueue.
HeartbeatGoesOn == NotOverloaded => []<>Beating /\ []<>~Beating

\* _distributing does not stay set: the thread that set it comes back, even
\* though it may execute whole queues before the store.
DistributingEnds == distributing ~> ~distributing

\* The loop uses JobQueue as JobQueue.tla says it is used.
DrivesJobQueue == Spec
=============================================================================
