------------------------------- MODULE JobQueue -------------------------------
(***************************************************************************)
(* JobQueue and GlobalQueue (src/Core/JobQueue.cpp, LockQueue.h,           *)
(* GlobalQueue.cpp): the scheduler that serialises the work of every Room. *)
(*                                                                         *)
(* Any thread pushes a job; the thread that raises _jobCount from zero is  *)
(* responsible for having the queue executed.  It executes it itself       *)
(* unless it is already executing a queue, in which case it hands the      *)
(* queue over to the GlobalQueue, from which an idle worker takes it.      *)
(* There is no lock around Execute: the counter alone keeps two threads    *)
(* out of one queue.  A step below is one access to shared memory (an      *)
(* atomic operation, or an operation of a LockQueue under its lock) with   *)
(* the thread-local code up to the next one.                               *)
(***************************************************************************)
EXTENDS Integers, Sequences, FiniteSets

CONSTANTS
    Threads,        \* the threads: the main thread and the ten workers
    Queues,         \* the JobQueue objects
    Jobs,           \* identities of Job objects; one is free again once its Job has run
    NoQueue,        \* nullptr, for LCurrentJobQueue
    PushOnly        \* the values callers give Push's parameter pushOnly

ASSUME ThreadsFinite == IsFiniteSet(Threads)
ASSUME NoQueueIsNull == NoQueue \notin Queues
ASSUME PushOnlyBoolean == PushOnly \subseteq BOOLEAN

VARIABLES
    jobCount,       \* jobCount[q]: _jobCount
    jobs,           \* jobs[q]: the contents of _jobs
    globalQueue,    \* the contents of GGlobalQueue's _jobQueues
    current,        \* current[t]: LCurrentJobQueue, the queue t is executing
    stage,          \* stage[t]: where t is in Execute
    batch,          \* batch[t]: the jobs t took with PopAll and has not finished
    taken,          \* taken[t]: the local jobCount of Execute
    push            \* push[t]: the Push call, or the hand-over, t is in

vars == <<jobCount, jobs, globalQueue, current, stage, batch, taken, push>>

Stages == {"idle", "popAll", "loop", "body"}

NoPush == [at |-> "none"]
Enqueueing(q, j, prev, only) ==
    [at |-> "enqueue", queue |-> q, job |-> j, prev |-> prev, only |-> only]
HandingOver(q) == [at |-> "toGlobal", queue |-> q]
Enqueues == [at : {"enqueue"}, queue : Queues, job : Jobs, prev : Int, only : BOOLEAN]
HandOvers == [at : {"toGlobal"}, queue : Queues]

(***************************************************************************)
(* A thread runs code of its own (a packet handler, the timer, the body of *)
(* a job) and may call Push when it is neither inside Push nor inside the  *)
(* bookkeeping of Execute.                                                 *)
(***************************************************************************)
AtTopLevel(t) == stage[t] = "idle" /\ push[t] = NoPush
InBody(t) == stage[t] = "body" /\ push[t] = NoPush

\* Identities of the Job objects that exist: each Push makes a new one.
JobsIn(s) == {s[i] : i \in DOMAIN s}
Live == (UNION {JobsIn(jobs[q]) : q \in Queues})
            \cup (UNION {JobsIn(batch[t]) : t \in Threads})
            \cup {push[t].job : t \in {u \in Threads : push[u].at = "enqueue"}}

Init == /\ jobCount = [q \in Queues |-> 0]
        /\ jobs = [q \in Queues |-> <<>>]
        /\ globalQueue = <<>>
        /\ current = [t \in Threads |-> NoQueue]
        /\ stage = [t \in Threads |-> "idle"]
        /\ batch = [t \in Threads |-> <<>>]
        /\ taken = [t \in Threads |-> 0]
        /\ push = [t \in Threads |-> NoPush]

\* Push: prevCount = _jobCount.fetch_add(1).
CountJob(t, q, j, only) ==
    /\ AtTopLevel(t) \/ InBody(t)
    /\ jobCount' = [jobCount EXCEPT ![q] = @ + 1]
    /\ push' = [push EXCEPT ![t] = Enqueueing(q, j, jobCount[q], only)]
    /\ UNCHANGED <<jobs, globalQueue, current, stage, batch, taken>>

\* The first statement of Execute; the rest of Execute is PopAll to HandOver.
EnterExecute(t, q) ==
    /\ current' = [current EXCEPT ![t] = q]
    /\ stage' = [stage EXCEPT ![t] = "popAll"]

\* The test that decides who is responsible, and a fault: it also lets in the
\* Push that found one job.
FirstJobOrSecond(t) == push[t].prev <= 1
FirstJob(t) == push[t].prev = 0

\* The test that keeps a busy thread from executing; the fault forgets it.
MayExecuteNested(t) == ~push[t].only
MayExecute(t) == current[t] = NoQueue /\ ~push[t].only

\* Push: _jobs.Push(job), then who executes: the counter was zero and this
\* thread executes nothing, so it does; or it is busy and hands over; or the
\* queue was not empty and its holder will see the job.
EnqueueJob(t) ==
    LET q == push[t].queue
    IN  /\ push[t].at = "enqueue"
        /\ jobs' = [jobs EXCEPT ![q] = Append(@, push[t].job)]
        /\ \/ /\ FirstJob(t) /\ MayExecute(t)
              /\ push' = [push EXCEPT ![t] = NoPush]
              /\ EnterExecute(t, q)
           \/ /\ FirstJob(t) /\ ~MayExecute(t)
              /\ push' = [push EXCEPT ![t] = HandingOver(q)]
              /\ UNCHANGED <<current, stage>>
           \/ /\ ~FirstJob(t)
              /\ push' = [push EXCEPT ![t] = NoPush]
              /\ UNCHANGED <<current, stage>>
        /\ UNCHANGED <<jobCount, globalQueue, batch, taken>>

\* GGlobalQueue->Push, called by Push and at the end of Execute.
PushGlobal(t) ==
    /\ push[t].at = "toGlobal"
    /\ globalQueue' = Append(globalQueue, push[t].queue)
    /\ push' = [push EXCEPT ![t] = NoPush]
    /\ UNCHANGED <<jobCount, jobs, current, stage, batch, taken>>

\* DoGlobalQueueWork: GGlobalQueue->Pop and Execute.
PopGlobal(t) ==
    /\ AtTopLevel(t)
    /\ globalQueue # <<>>
    /\ globalQueue' = Tail(globalQueue)
    /\ EnterExecute(t, Head(globalQueue))
    /\ UNCHANGED <<jobCount, jobs, batch, taken, push>>

\* Execute: _jobs.PopAll.
PopAll(t) ==
    /\ stage[t] = "popAll"
    /\ batch' = [batch EXCEPT ![t] = jobs[current[t]]]
    /\ taken' = [taken EXCEPT ![t] = Len(jobs[current[t]])]
    /\ jobs' = [jobs EXCEPT ![current[t]] = <<>>]
    /\ stage' = [stage EXCEPT ![t] = "loop"]
    /\ UNCHANGED <<jobCount, globalQueue, current, push>>

\* Execute: jobs[i]->Execute() is called ...
StartJob(t) ==
    /\ stage[t] = "loop" /\ batch[t] # <<>>
    /\ stage' = [stage EXCEPT ![t] = "body"]
    /\ UNCHANGED <<jobCount, jobs, globalQueue, current, batch, taken, push>>

\* ... and returns.
FinishJob(t) ==
    /\ InBody(t)
    /\ stage' = [stage EXCEPT ![t] = "loop"]
    /\ batch' = [batch EXCEPT ![t] = Tail(@)]
    /\ UNCHANGED <<jobCount, jobs, globalQueue, current, taken, push>>

\* _jobCount.fetch_sub(jobCount), after the last job of the batch; the fault
\* counts the batch as one job.
SubtractOne(t) ==
    /\ stage[t] = "loop" /\ batch[t] = <<>>
    /\ jobCount' = [jobCount EXCEPT ![current[t]] = @ - 1]
    /\ taken' = [taken EXCEPT ![t] = 0]
    /\ UNCHANGED <<jobs, globalQueue, batch>>
SubtractBatch(t) ==
    /\ stage[t] = "loop" /\ batch[t] = <<>>
    /\ jobCount' = [jobCount EXCEPT ![current[t]] = @ - taken[t]]
    /\ taken' = [taken EXCEPT ![t] = 0]
    /\ UNCHANGED <<jobs, globalQueue, batch>>

\* "No job is left": the count was what this thread took.  The fault looks at
\* _jobs instead, and overlooks a Push between its two halves.
QueueEmpty(t) == jobs[current[t]] = <<>>
Drained(t) == jobCount[current[t]] = taken[t]

LeaveExecute(t) ==
    /\ current' = [current EXCEPT ![t] = NoQueue]
    /\ stage' = [stage EXCEPT ![t] = "idle"]

\* Execute: nothing was pushed since: return.
Return(t) ==
    /\ SubtractBatch(t) /\ Drained(t)
    /\ LeaveExecute(t)
    /\ UNCHANGED push

\* Execute: more was pushed, and there is time left: take the next batch.
Continue(t) ==
    /\ SubtractBatch(t) /\ ~Drained(t)
    /\ stage' = [stage EXCEPT ![t] = "popAll"]
    /\ UNCHANGED <<current, push>>

\* Execute: more was pushed, but now >= LEndTickCount: GGlobalQueue gets the queue.
HandOver(t) ==
    /\ SubtractBatch(t) /\ ~Drained(t)
    /\ LeaveExecute(t)
    /\ push' = [push EXCEPT ![t] = HandingOver(current[t])]

CallPush(t) == \E q \in Queues, j \in Jobs \ Live, only \in PushOnly : CountJob(t, q, j, only)

\* The steps of a thread that is inside Push or Execute.
Proceed(t) == \/ EnqueueJob(t) \/ PushGlobal(t)
              \/ PopAll(t) \/ StartJob(t) \/ FinishJob(t)
              \/ Return(t) \/ Continue(t) \/ HandOver(t)

Next == \E t \in Threads : CallPush(t) \/ PopGlobal(t) \/ Proceed(t)

Spec == Init /\ [][Next]_vars

(***************************************************************************)
(* Fairness: a thread keeps going inside Push and Execute, and the body of *)
(* a job ends, though it may push in between.  Nothing is assumed of       *)
(* PopGlobal: DoGlobalQueueWork pops nothing when the thread is late.      *)
(***************************************************************************)
Fairness == \A t \in Threads : /\ WF_vars(Proceed(t))
                               /\ SF_vars(FinishJob(t))

LiveSpec == Spec /\ Fairness

-----------------------------------------------------------------------------

\* The variables have their types.
TypeOK ==
    /\ jobCount \in [Queues -> Int]
    /\ jobs \in [Queues -> Seq(Jobs)]
    /\ globalQueue \in Seq(Queues)
    /\ current \in [Threads -> Queues \cup {NoQueue}]
    /\ stage \in [Threads -> Stages]
    /\ batch \in [Threads -> Seq(Jobs)]
    /\ taken \in [Threads -> Nat]
    /\ push \in [Threads -> {NoPush} \cup Enqueues \cup HandOvers]

\* Two threads are never inside Execute of the same queue, although no lock
\* is held there: the bodies of a Room's jobs need no locks of their own.
MutualExclusion ==
    \A t, u \in Threads : current[t] = current[u] /\ current[t] # NoQueue => t = u

\* The threads between the fetch_add and the _jobs.Push of a Push to q.
Pushing(q) == {t \in Threads : push[t].at = "enqueue" /\ push[t].queue = q}

\* The number of jobs of q that Execute has taken and not yet subtracted.
TakenFrom(q) == IF \E t \in Threads : current[t] = q
                THEN taken[CHOOSE t \in Threads : current[t] = q]
                ELSE 0

\* _jobCount counts the jobs queued, the jobs taken by the executing thread,
\* and the jobs whose Push is past the increment: nothing is lost or counted
\* twice whatever the interleaving of Push, PopAll and fetch_sub.
CountIsExact ==
    \A q \in Queues : jobCount[q] = Len(jobs[q]) + TakenFrom(q) + Cardinality(Pushing(q))

\* Who must see to it that q is executed: the Push that raised its count from
\* zero, the thread that hands it over, its entry in the GlobalQueue, or the
\* thread that executes it.
Owes(t, q) == \/ push[t].at = "enqueue" /\ push[t].queue = q /\ push[t].prev = 0
              \/ push[t].at = "toGlobal" /\ push[t].queue = q
Responsible(q) ==
    {<<"push", t>> : t \in {u \in Threads : Owes(u, q)}}
        \cup {<<"global", i>> : i \in {k \in DOMAIN globalQueue : globalQueue[k] = q}}
        \cup {<<"execute", t>> : t \in {u \in Threads : current[u] = q}}

\* A queue with jobs has exactly one party responsible for it (none: its jobs
\* are never run; two: they run concurrently), a queue without jobs has none.
OneResponsible ==
    \A q \in Queues : Cardinality(Responsible(q)) = IF jobCount[q] = 0 THEN 0 ELSE 1

\* A thread that executes one queue never starts another one inside it, and
\* leaves it only when every job it took has run: a job that pushes to another
\* Room's queue does not wait for that Room.
NoNestedExecute ==
    [][\A t \in Threads : current[t] # NoQueue /\ current'[t] # current[t]
                              => current'[t] = NoQueue /\ batch[t] = <<>>]_vars

\* Some thread, now and then, comes to DoGlobalQueueWork before LEndTickCount
\* has passed, as long as the GlobalQueue has something to take.  The code does
\* not see to that: threads that are late each time they come leave it alone.
GlobalQueueServed ==
    []<>(globalQueue # <<>>) => []<><<\E t \in Threads : PopGlobal(t)>>_vars

\* While the GlobalQueue is served, every job that is pushed is eventually run
\* and its Job object released, whoever pushed it and in the middle of what.
EveryJobRuns == GlobalQueueServed => \A j \in Jobs : j \in Live ~> j \notin Live

(***************************************************************************)
(* The inductive invariant behind these, for the proofs.                   *)
(***************************************************************************)
\* Where a thread is in Execute, and what it then holds.
Control ==
    \A t \in Threads :
        /\ stage[t] = "idle" <=> current[t] = NoQueue
        /\ stage[t] \in {"popAll", "loop"} => push[t] = NoPush
        /\ stage[t] \in {"idle", "popAll"} => batch[t] = <<>> /\ taken[t] = 0
        /\ stage[t] = "body" => batch[t] # <<>>

\* CountIsExact, by whether some thread executes the queue.
CountedIfFree(q) == (\A t \in Threads : current[t] # q)
                        => jobCount[q] = Len(jobs[q]) + Cardinality(Pushing(q))
CountedIfTaken(t, q) == current[t] = q
                        => jobCount[q] = Len(jobs[q]) + taken[t] + Cardinality(Pushing(q))
Counted ==
    \A q \in Queues : CountedIfFree(q) /\ \A t \in Threads : CountedIfTaken(t, q)

InGlobal(q) == \E i \in DOMAIN globalQueue : globalQueue[i] = q

\* No two parties are responsible for the same queue.
Exclusive ==
    /\ MutualExclusion
    /\ \A q \in Queues, t, u \in Threads :
          Owes(t, q) => /\ Owes(u, q) => t = u
                        /\ current[u] # q
                        /\ ~InGlobal(q)
    /\ \A q \in Queues : InGlobal(q) => \A t \in Threads : current[t] # q
    /\ \A i, k \in DOMAIN globalQueue : globalQueue[i] = globalQueue[k] => i = k

\* Some party is responsible for a queue exactly when its count is not zero.
Held ==
    \A q \in Queues :
        jobCount[q] # 0 <=> \/ InGlobal(q)
                           \/ \E t \in Threads : Owes(t, q) \/ current[t] = q

\* What keeps a queue in exactly one pair of hands at every step: the control
\* state of the threads, the exact count, and who is responsible.
IndInv == TypeOK /\ Control /\ Counted /\ Exclusive /\ Held

(***************************************************************************)
(* The abstract view.  What is not started of a queue is the rest of the   *)
(* batch of the thread executing it, then the contents of _jobs.           *)
(***************************************************************************)
Unstarted(t) == IF stage[t] = "body" THEN Tail(batch[t]) ELSE batch[t]

Waiting(q) == IF \E t \in Threads : current[t] = q
              THEN Unstarted(CHOOSE t \in Threads : current[t] = q) \o jobs[q]
              ELSE jobs[q]

Running(q) == {Head(batch[t]) : t \in {u \in Threads : current[u] = q /\ stage[u] = "body"}}

Abstract == INSTANCE SerialExecutor WITH
    waiting <- [q \in Queues |-> Waiting(q)],
    running <- [q \in Queues |-> Running(q)]

\* A queue is a serial executor: its jobs run one at a time, in the order of
\* their _jobs.Push, each exactly once.
SerialExecution == Abstract!Spec
=============================================================================
