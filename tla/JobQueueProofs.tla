---------------------------- MODULE JobQueueProofs ----------------------------
(***************************************************************************)
(* Theorems about JobQueue, and about Worker, the loop that drives it, for *)
(* any finite set of threads and any sets of queues, jobs and ticks.       *)
(***************************************************************************)
EXTENDS Worker, FiniteSetTheorems, SequenceTheorems, TLAPS

\* A record built for a call of Push, or for a hand-over, is one of the
\* records push ranges over.
LEMMA PushRecords ==
    /\ NoPush.at = "none"
    /\ \A q \in Queues : /\ HandingOver(q) \in HandOvers
                         /\ HandingOver(q).at = "toGlobal"
                         /\ HandingOver(q).queue = q
    /\ \A q \in Queues, j \in Jobs, n \in Int, b \in BOOLEAN :
          /\ Enqueueing(q, j, n, b) \in Enqueues
          /\ Enqueueing(q, j, n, b).at = "enqueue"
          /\ Enqueueing(q, j, n, b).queue = q
          /\ Enqueueing(q, j, n, b).prev = n
BY DEF NoPush, HandingOver, HandOvers, Enqueueing, Enqueues

\* Replacing one thread's record keeps the type of push.
LEMMA PushUpdate ==
    ASSUME TypeOK, NEW t \in Threads, NEW p \in {NoPush} \cup Enqueues \cup HandOvers,
           push' = [push EXCEPT ![t] = p]
    PROVE  push' \in [Threads -> {NoPush} \cup Enqueues \cup HandOvers]
BY DEF TypeOK

\* The fields of the record of a thread inside Push.
LEMMA PushFields ==
    ASSUME TypeOK, NEW t \in Threads
    PROVE  /\ push[t].at = "enqueue" => /\ push[t].queue \in Queues
                                        /\ push[t].job \in Jobs
                                        /\ push[t].prev \in Int
                                        /\ push[t].only \in BOOLEAN
           /\ push[t].at = "toGlobal" => push[t].queue \in Queues
<1>1. push[t] = NoPush \/ push[t] \in Enqueues \/ push[t] \in HandOvers
  BY DEF TypeOK
<1>2. CASE push[t] = NoPush
  BY <1>2 DEF NoPush
<1>3. CASE push[t] \in Enqueues
  BY <1>3 DEF Enqueues
<1>4. CASE push[t] \in HandOvers
  BY <1>4 DEF HandOvers
<1>. QED
  BY <1>1, <1>2, <1>3, <1>4

\* TypeOK is kept by every step.
LEMMA StepPreservesType ==
    ASSUME TypeOK, Control, [Next]_vars
    PROVE  TypeOK'
<1> USE NoQueueIsNull, PushOnlyBoolean DEF TypeOK
<1>1. CASE UNCHANGED vars
  BY <1>1 DEF vars
<1>2. ASSUME NEW t \in Threads, NEW q \in Queues, NEW j \in Jobs, NEW only \in PushOnly,
             CountJob(t, q, j, only)
      PROVE  TypeOK'
  BY <1>2, PushRecords DEF CountJob
<1>3. ASSUME NEW t \in Threads, EnqueueJob(t)
      PROVE  TypeOK'
  <2>1. push[t].queue \in Queues /\ push[t].job \in Jobs
    BY <1>3, PushFields DEF EnqueueJob
  <2>2. jobs' \in [Queues -> Seq(Jobs)]
    BY <1>3, <2>1 DEF EnqueueJob
  <2>3. current' \in [Threads -> Queues \cup {NoQueue}] /\ stage' \in [Threads -> Stages]
    BY <1>3, <2>1 DEF EnqueueJob, EnterExecute, Stages
  <2>4. \E p \in {NoPush, HandingOver(push[t].queue)} : push' = [push EXCEPT ![t] = p]
    BY <1>3 DEF EnqueueJob
  <2>5. push' \in [Threads -> {NoPush} \cup Enqueues \cup HandOvers]
    BY <2>1, <2>4, PushRecords, PushUpdate
  <2>. QED
    BY <1>3, <2>2, <2>3, <2>5 DEF EnqueueJob
<1>4. ASSUME NEW t \in Threads, PushGlobal(t)
      PROVE  TypeOK'
  BY <1>4, PushFields DEF PushGlobal
<1>5. ASSUME NEW t \in Threads, PopGlobal(t)
      PROVE  TypeOK'
  BY <1>5 DEF PopGlobal, EnterExecute, Stages
<1>6. ASSUME NEW t \in Threads, PopAll(t)
      PROVE  TypeOK'
  <2>1. current[t] \in Queues
    BY <1>6 DEF PopAll, Control
  <2>. QED
    BY <1>6, <2>1 DEF PopAll, Stages
<1>7. ASSUME NEW t \in Threads, StartJob(t)
      PROVE  TypeOK'
  BY <1>7 DEF StartJob, Stages
<1>8. ASSUME NEW t \in Threads, FinishJob(t)
      PROVE  TypeOK'
  <2>1. batch[t] \in Seq(Jobs) /\ batch[t] # <<>>
    BY <1>8 DEF FinishJob, InBody, Control
  <2>2. Tail(batch[t]) \in Seq(Jobs)
    BY <2>1
  <2>. QED
    BY <1>8, <2>2 DEF FinishJob, Stages
<1>9. ASSUME NEW t \in Threads, Return(t) \/ Continue(t) \/ HandOver(t)
      PROVE  TypeOK'
  <2>1. current[t] \in Queues
    BY <1>9 DEF Return, Continue, HandOver, SubtractBatch, Control
  <2>2. jobCount' \in [Queues -> Int] /\ taken' \in [Threads -> Nat]
    <3>1. SubtractBatch(t)
      BY <1>9 DEF Return, Continue, HandOver
    <3>2. taken[t] \in Int /\ jobCount[current[t]] - taken[t] \in Int
      BY <2>1
    <3>. QED
      BY <2>1, <3>1, <3>2 DEF SubtractBatch
  <2>3. current' \in [Threads -> Queues \cup {NoQueue}] /\ stage' \in [Threads -> Stages]
    BY <1>9 DEF Return, Continue, HandOver, LeaveExecute, Stages
  <2>4. push' \in [Threads -> {NoPush} \cup Enqueues \cup HandOvers]
    <3>1. CASE HandOver(t)
      BY <2>1, <3>1, PushRecords, PushUpdate DEF HandOver
    <3>2. CASE push' = push
      BY <3>2
    <3>. QED
      BY <1>9, <3>1, <3>2 DEF Return, Continue
  <2>. QED
    BY <1>9, <2>2, <2>3, <2>4 DEF Return, Continue, HandOver, SubtractBatch
<1>. QED
  BY <1>1, <1>2, <1>3, <1>4, <1>5, <1>6, <1>7, <1>8, <1>9 DEF Next, CallPush, Proceed

\* Control is kept by every step.
LEMMA StepPreservesControl ==
    ASSUME TypeOK, Control, [Next]_vars
    PROVE  Control'
<1> USE NoQueueIsNull DEF TypeOK, Control
<1>1. CASE UNCHANGED vars
  BY <1>1 DEF vars
<1>2. ASSUME NEW t \in Threads, NEW q \in Queues, NEW j \in Jobs, NEW only \in PushOnly,
             CountJob(t, q, j, only)
      PROVE  Control'
  BY <1>2 DEF CountJob, AtTopLevel, InBody
<1>3. ASSUME NEW t \in Threads, EnqueueJob(t)
      PROVE  Control'
  <2>1. push[t] # NoPush /\ push[t].queue \in Queues
    BY <1>3, PushFields, PushRecords DEF EnqueueJob
  <2>2. stage[t] \in {"idle", "body"}
    BY <2>1 DEF Stages
  <2>. QED
    BY <1>3, <2>1, <2>2 DEF EnqueueJob, EnterExecute, MayExecute
<1>4. ASSUME NEW t \in Threads, PushGlobal(t)
      PROVE  Control'
  BY <1>4 DEF PushGlobal, NoPush
<1>5. ASSUME NEW t \in Threads, PopGlobal(t)
      PROVE  Control'
  BY <1>5 DEF PopGlobal, EnterExecute, AtTopLevel
<1>6. ASSUME NEW t \in Threads, PopAll(t)
      PROVE  Control'
  BY <1>6 DEF PopAll
<1>7. ASSUME NEW t \in Threads, StartJob(t)
      PROVE  Control'
  BY <1>7 DEF StartJob
<1>8. ASSUME NEW t \in Threads, FinishJob(t)
      PROVE  Control'
  BY <1>8 DEF FinishJob, InBody
<1>9. ASSUME NEW t \in Threads, Return(t) \/ Continue(t) \/ HandOver(t)
      PROVE  Control'
  BY <1>9 DEF Return, Continue, HandOver, SubtractBatch, LeaveExecute, HandingOver, NoPush
<1>. QED
  BY <1>1, <1>2, <1>3, <1>4, <1>5, <1>6, <1>7, <1>8, <1>9 DEF Next, CallPush, Proceed

-----------------------------------------------------------------------------
\* The set of threads inside a Push to q is finite, so its size is a number.
LEMMA PushingFinite ==
    ASSUME NEW q \in Queues
    PROVE  IsFiniteSet(Pushing(q)) /\ Cardinality(Pushing(q)) \in Nat
BY ThreadsFinite, FS_Subset, FS_CardinalityType DEF Pushing

\* A count is never below what the executing thread has taken, nor below zero.
LEMMA CountBounds ==
    ASSUME TypeOK, Counted, NEW q \in Queues
    PROVE  /\ jobCount[q] >= 0
           /\ \A t \in Threads : current[t] = q => jobCount[q] >= taken[t]
<1>1. Cardinality(Pushing(q)) \in Nat /\ Len(jobs[q]) \in Nat /\ jobCount[q] \in Int
  BY PushingFinite DEF TypeOK
<1>2. \A t \in Threads : taken[t] \in Nat
  BY DEF TypeOK
<1>. QED
  BY <1>1, <1>2 DEF Counted, CountedIfFree, CountedIfTaken

\* fetch_add puts the thread among those inside a Push to q.
LEMMA PushingAfterCount ==
    ASSUME TypeOK, NEW t \in Threads, NEW q \in Queues, NEW j \in Jobs, NEW only \in PushOnly,
           CountJob(t, q, j, only)
    PROVE  /\ Cardinality(Pushing(q)') = Cardinality(Pushing(q)) + 1
           /\ \A r \in Queues \ {q} : Pushing(r)' = Pushing(r)
<1>1. push[t] = NoPush /\ push \in [Threads -> {NoPush} \cup Enqueues \cup HandOvers]
  BY DEF CountJob, AtTopLevel, InBody, TypeOK
<1>2. push' = [push EXCEPT ![t] = Enqueueing(q, j, jobCount[q], only)]
  BY DEF CountJob
<1>3. /\ Enqueueing(q, j, jobCount[q], only).at = "enqueue"
      /\ Enqueueing(q, j, jobCount[q], only).queue = q
  BY DEF Enqueueing
<1>4. push[t].at # "enqueue"
  BY <1>1, PushRecords
<1>5. t \notin Pushing(q) /\ Pushing(q)' = Pushing(q) \cup {t}
  BY <1>1, <1>2, <1>3, <1>4 DEF Pushing
<1>6. \A r \in Queues \ {q} : Pushing(r)' = Pushing(r)
  BY <1>1, <1>2, <1>3, <1>4 DEF Pushing
<1>. QED
  BY <1>5, <1>6, PushingFinite, FS_AddElement

\* _jobs.Push takes it out again.
LEMMA PushingAfterEnqueue ==
    ASSUME TypeOK, NEW t \in Threads, NEW q \in Queues, push[t].queue = q, EnqueueJob(t)
    PROVE  /\ Cardinality(Pushing(q)') = Cardinality(Pushing(q)) - 1
           /\ \A r \in Queues \ {q} : Pushing(r)' = Pushing(r)
<1>1. push \in [Threads -> {NoPush} \cup Enqueues \cup HandOvers]
  BY DEF TypeOK
<1>2. push[t].at = "enqueue"
  BY DEF EnqueueJob
<1>3. PICK p \in {NoPush, HandingOver(q)} : push' = [push EXCEPT ![t] = p]
  BY DEF EnqueueJob
<1>4. p.at # "enqueue"
  BY <1>2, PushRecords
<1>5. \A u \in Threads : push'[u] = IF u = t THEN p ELSE push[u]
  BY <1>1, <1>3
<1>6. t \in Pushing(q) /\ Pushing(q)' = Pushing(q) \ {t}
  BY <1>2, <1>4, <1>5 DEF Pushing
<1>7. \A r \in Queues \ {q} : Pushing(r)' = Pushing(r)
  BY <1>2, <1>4, <1>5 DEF Pushing
<1>. QED
  BY <1>2, <1>6, <1>7, PushingFinite, FS_RemoveElement

\* No other step starts or ends the first half of a Push.
LEMMA PushingUnchanged ==
    ASSUME TypeOK, Control, NEW t \in Threads,
           \/ PushGlobal(t) \/ PopGlobal(t) \/ PopAll(t) \/ StartJob(t) \/ FinishJob(t)
           \/ Return(t) \/ Continue(t) \/ HandOver(t)
    PROVE  \A q \in Queues : Pushing(q)' = Pushing(q)
<1>1. push \in [Threads -> {NoPush} \cup Enqueues \cup HandOvers]
  BY DEF TypeOK
<1>2. CASE push' = push
  BY <1>2 DEF Pushing
<1>3. CASE PushGlobal(t)
  <2>1. push' = [push EXCEPT ![t] = NoPush] /\ push[t].at = "toGlobal"
    BY <1>3 DEF PushGlobal
  <2>. QED
    BY <1>1, <2>1, PushRecords DEF Pushing
<1>4. CASE HandOver(t)
  <2>1. push' = [push EXCEPT ![t] = HandingOver(current[t])] /\ push[t] = NoPush /\ current[t] \in Queues
    BY <1>4 DEF HandOver, SubtractBatch, Control, TypeOK
  <2>. QED
    BY <1>1, <2>1, PushRecords DEF Pushing
<1>. QED
  BY <1>2, <1>3, <1>4 DEF PopGlobal, PopAll, StartJob, FinishJob, Return, Continue

-----------------------------------------------------------------------------
\* Counted is kept by the two halves of Push.
LEMMA PushPreservesCounted ==
    ASSUME IndInv, NEW t \in Threads,
           \/ \E q \in Queues, j \in Jobs, only \in PushOnly : CountJob(t, q, j, only)
           \/ EnqueueJob(t)
    PROVE  Counted'
<1> USE NoQueueIsNull DEF IndInv
<1>a. \A q \in Queues : Cardinality(Pushing(q)) \in Nat /\ Len(jobs[q]) \in Nat /\ jobCount[q] \in Int
  BY PushingFinite DEF TypeOK
<1>b. \A u \in Threads : taken[u] \in Nat
  BY DEF TypeOK
<1>1. ASSUME NEW q \in Queues, NEW j \in Jobs, NEW only \in PushOnly, CountJob(t, q, j, only)
      PROVE  Counted'
  <2>1. /\ jobCount'[q] = jobCount[q] + 1
        /\ \A r \in Queues \ {q} : jobCount'[r] = jobCount[r]
        /\ jobs' = jobs /\ current' = current /\ taken' = taken
    BY <1>1 DEF CountJob, TypeOK
  <2>2. /\ Cardinality(Pushing(q)') = Cardinality(Pushing(q)) + 1
        /\ \A r \in Queues \ {q} : Cardinality(Pushing(r)') = Cardinality(Pushing(r))
    BY <1>1, PushingAfterCount
  <2>. SUFFICES ASSUME NEW r \in Queues
                PROVE  CountedIfFree(r)' /\ \A u \in Threads : CountedIfTaken(u, r)'
    BY DEF Counted
  <2>3. CountedIfFree(r) /\ \A u \in Threads : CountedIfTaken(u, r)
    BY DEF Counted
  <2>4. Len(jobs[r]) \in Nat /\ Cardinality(Pushing(r)) \in Nat /\ jobCount[r] \in Int
    BY <1>a, <1>b
  <2>5. IF r = q THEN jobCount'[r] = jobCount[r] + 1 /\ Cardinality(Pushing(r)') = Cardinality(Pushing(r)) + 1
                 ELSE jobCount'[r] = jobCount[r] /\ Cardinality(Pushing(r)') = Cardinality(Pushing(r))
    BY <2>1, <2>2
  <2>6. CountedIfFree(r)'
    <3>1. (\A u \in Threads : current'[u] # r) => jobCount[r] = Len(jobs[r]) + Cardinality(Pushing(r))
      BY <2>1, <2>3 DEF CountedIfFree
    <3>2. Len(jobs'[r]) = Len(jobs[r])
      BY <2>1
    <3>3. CASE r = q
      BY <2>4, <2>5, <3>1, <3>2, <3>3 DEF CountedIfFree
    <3>4. CASE r # q
      BY <2>4, <2>5, <3>1, <3>2, <3>4 DEF CountedIfFree
    <3>. QED
      BY <3>3, <3>4
  <2>7. ASSUME NEW u \in Threads, current'[u] = r
        PROVE  jobCount'[r] = Len(jobs'[r]) + taken'[u] + Cardinality(Pushing(r)')
    <3>1. jobCount[r] = Len(jobs[r]) + taken[u] + Cardinality(Pushing(r)) /\ taken[u] \in Nat
      BY <1>b, <2>1, <2>3, <2>7 DEF CountedIfTaken
    <3>2. Len(jobs'[r]) = Len(jobs[r]) /\ taken'[u] = taken[u]
      BY <2>1
    <3>3. CASE r = q
      <4>1. jobCount'[r] = jobCount[r] + 1 /\ Cardinality(Pushing(r)') = Cardinality(Pushing(r)) + 1
        BY <2>5, <3>3
      <4>. QED
        BY <2>4, <3>1, <3>2, <4>1
    <3>4. CASE r # q
      BY <2>5, <3>1, <3>2, <3>4
    <3>. QED
      BY <3>3, <3>4
  <2>. QED
    BY <2>6, <2>7 DEF CountedIfTaken
<1>2. CASE EnqueueJob(t)
  <2>1. PICK q \in Queues : push[t].queue = q
    BY <1>2, PushFields DEF EnqueueJob
  <2>2. /\ Cardinality(Pushing(q)') = Cardinality(Pushing(q)) - 1
        /\ \A r \in Queues \ {q} : Cardinality(Pushing(r)') = Cardinality(Pushing(r))
    BY <1>2, <2>1, PushingAfterEnqueue
  <2>3. Len(jobs'[q]) = Len(jobs[q]) + 1 /\ \A r \in Queues \ {q} : Len(jobs'[r]) = Len(jobs[r])
    BY <1>2, <2>1, PushFields DEF EnqueueJob, TypeOK
  <2>4. jobCount' = jobCount /\ taken' = taken
    BY <1>2 DEF EnqueueJob
  <2>5. \/ current' = current
        \/ EnterExecute(t, q) /\ push[t].prev = 0 /\ current[t] = NoQueue
    BY <1>2, <2>1 DEF EnqueueJob, FirstJob, MayExecute
  <2>. SUFFICES ASSUME NEW r \in Queues
                PROVE  CountedIfFree(r)' /\ \A u \in Threads : CountedIfTaken(u, r)'
    BY DEF Counted
  <2>6. CountedIfFree(r) /\ \A u \in Threads : CountedIfTaken(u, r)
    BY DEF Counted
  <2>7. /\ jobCount'[r] = jobCount[r] /\ jobCount[r] \in Int
        /\ Len(jobs[r]) \in Int /\ Cardinality(Pushing(r)) \in Int
        /\ Len(jobs'[r]) \in Int /\ Cardinality(Pushing(r)') \in Int
        /\ Len(jobs'[r]) + Cardinality(Pushing(r)') = Len(jobs[r]) + Cardinality(Pushing(r))
    <3>1. jobCount[r] \in Int /\ Len(jobs[r]) \in Int /\ Cardinality(Pushing(r)) \in Int
      BY <1>a
    <3>2. CASE r = q
      BY <2>2, <2>3, <2>4, <3>1, <3>2
    <3>3. CASE r # q
      BY <2>2, <2>3, <2>4, <3>1, <3>3
    <3>. QED
      BY <3>2, <3>3
  <2>8. \A u \in Threads : taken'[u] = taken[u] /\ taken[u] \in Int
    BY <1>b, <2>4
  <2>9. CASE current' = current
    <3>1. CountedIfFree(r)'
      BY <2>6, <2>7, <2>9 DEF CountedIfFree
    <3>2. ASSUME NEW u \in Threads, current'[u] = r
          PROVE  jobCount'[r] = Len(jobs'[r]) + taken'[u] + Cardinality(Pushing(r)')
      <4>1. /\ jobCount[r] = Len(jobs[r]) + taken[u] + Cardinality(Pushing(r))
            /\ taken'[u] = taken[u] /\ taken[u] \in Int
        BY <2>6, <2>8, <2>9, <3>2 DEF CountedIfTaken
      <4>. QED
        BY <2>7, <4>1
    <3>. QED
      BY <3>1, <3>2 DEF CountedIfTaken
  <2>10. CASE EnterExecute(t, q) /\ push[t].prev = 0 /\ current[t] = NoQueue
    <3>1. Owes(t, q) /\ taken[t] = 0
      BY <1>2, <2>1, <2>10 DEF Owes, EnqueueJob, Control
    <3>2. \A u \in Threads : current[u] # q
      BY <3>1 DEF Exclusive
    <3>3. \A u \in Threads : current'[u] = IF u = t THEN q ELSE current[u]
      BY <2>10 DEF EnterExecute, TypeOK
    <3>4. CASE r = q
      <4>1. jobCount[r] = Len(jobs[r]) + Cardinality(Pushing(r))
        BY <2>6, <3>2, <3>4 DEF CountedIfFree
      <4>2. jobCount'[r] = Len(jobs'[r]) + taken'[t] + Cardinality(Pushing(r)')
        BY <2>7, <2>8, <3>1, <4>1
      <4>. QED
        BY <3>2, <3>3, <3>4, <4>2 DEF CountedIfFree, CountedIfTaken
    <3>5. CASE r # q
      <4>1. \A u \in Threads : current'[u] = r <=> current[u] = r
        BY <2>10, <3>3, <3>5
      <4>2. CountedIfFree(r)'
        BY <2>6, <2>7, <4>1 DEF CountedIfFree
      <4>3. ASSUME NEW u \in Threads, current'[u] = r
            PROVE  jobCount'[r] = Len(jobs'[r]) + taken'[u] + Cardinality(Pushing(r)')
        <5>1. /\ jobCount[r] = Len(jobs[r]) + taken[u] + Cardinality(Pushing(r))
              /\ taken'[u] = taken[u] /\ taken[u] \in Int
          BY <2>6, <2>8, <4>1, <4>3 DEF CountedIfTaken
        <5>. QED
          BY <2>7, <5>1
      <4>. QED
        BY <4>2, <4>3 DEF CountedIfTaken
    <3>. QED
      BY <3>4, <3>5
  <2>. QED
    BY <2>5, <2>9, <2>10
<1>. QED
  BY <1>1, <1>2

\* Counted is kept by every other step.
LEMMA ExecutePreservesCounted ==
    ASSUME IndInv, NEW t \in Threads,
           \/ PushGlobal(t) \/ PopGlobal(t) \/ PopAll(t) \/ StartJob(t) \/ FinishJob(t)
           \/ Return(t) \/ Continue(t) \/ HandOver(t)
    PROVE  Counted'
<1> USE NoQueueIsNull DEF IndInv
<1>a. \A q \in Queues : Cardinality(Pushing(q)) \in Nat /\ Len(jobs[q]) \in Nat /\ jobCount[q] \in Int
  BY PushingFinite DEF TypeOK
<1>b. \A u \in Threads : taken[u] \in Nat
  BY DEF TypeOK
<1> USE <1>a, <1>b
<1>1. \A q \in Queues : Pushing(q)' = Pushing(q)
  BY PushingUnchanged
<1>2. CASE PushGlobal(t) \/ StartJob(t) \/ FinishJob(t)
  BY <1>1, <1>2 DEF PushGlobal, StartJob, FinishJob, Counted, CountedIfFree, CountedIfTaken
<1>3. CASE PopGlobal(t)
  <2>1. PICK q \in Queues : q = Head(globalQueue) /\ EnterExecute(t, q) /\ InGlobal(q)
    BY <1>3 DEF PopGlobal, TypeOK, InGlobal
  <2>2. taken[t] = 0 /\ \A u \in Threads : current[u] # q
    BY <1>3, <2>1 DEF PopGlobal, AtTopLevel, Control, Exclusive
  <2>3. \A u \in Threads : current'[u] = IF u = t THEN q ELSE current[u]
    BY <2>1 DEF EnterExecute, TypeOK
  <2>4. jobCount' = jobCount /\ taken' = taken /\ jobs' = jobs
    BY <1>3 DEF PopGlobal
  <2>. QED
    BY <1>1, <2>2, <2>3, <2>4 DEF Counted, CountedIfFree, CountedIfTaken
<1>4. CASE PopAll(t)
  <2>1. PICK q \in Queues : current[t] = q
    BY <1>4 DEF PopAll, Control, TypeOK
  <2>2. taken[t] = 0 /\ \A u \in Threads \ {t} : current[u] # q
    BY <1>4, <2>1 DEF PopAll, Control, Exclusive, MutualExclusion
  <2>3. /\ \A r \in Queues : Len(jobs'[r]) = IF r = q THEN 0 ELSE Len(jobs[r])
        /\ \A u \in Threads : taken'[u] = IF u = t THEN Len(jobs[q]) ELSE taken[u]
    BY <1>4, <2>1 DEF PopAll, TypeOK
  <2>4. jobCount' = jobCount /\ current' = current
    BY <1>4 DEF PopAll
  <2>. QED
    BY <1>1, <2>1, <2>2, <2>3, <2>4 DEF Counted, CountedIfFree, CountedIfTaken
<1>5. CASE Return(t) \/ Continue(t) \/ HandOver(t)
  <2>1. SubtractBatch(t)
    BY <1>5 DEF Return, Continue, HandOver
  <2>2. PICK q \in Queues : current[t] = q
    BY <2>1 DEF SubtractBatch, Control, TypeOK
  <2>3. \A u \in Threads \ {t} : current[u] # q
    BY <2>2 DEF Exclusive, MutualExclusion
  <2>4. /\ \A r \in Queues : jobCount'[r] = IF r = q THEN jobCount[q] - taken[t] ELSE jobCount[r]
        /\ \A u \in Threads : taken'[u] = IF u = t THEN 0 ELSE taken[u]
        /\ jobs' = jobs
    BY <2>1, <2>2 DEF SubtractBatch, TypeOK
  <2>5. \/ current' = current
        \/ \A u \in Threads : current'[u] = IF u = t THEN NoQueue ELSE current[u]
    BY <1>5 DEF Return, Continue, HandOver, LeaveExecute, TypeOK
  <2>. QED
    BY <1>1, <2>2, <2>3, <2>4, <2>5 DEF Counted, CountedIfFree, CountedIfTaken
<1>. QED
  BY <1>2, <1>3, <1>4, <1>5

-----------------------------------------------------------------------------
\* How each step moves the responsibility for a queue.  Raising the count from
\* zero takes it on ...
LEMMA OwesAfterCount ==
    ASSUME TypeOK, NEW t \in Threads, NEW q \in Queues, NEW j \in Jobs, NEW only \in PushOnly,
           CountJob(t, q, j, only)
    PROVE  \A u \in Threads, r \in Queues :
              Owes(u, r)' <=> Owes(u, r) \/ (u = t /\ r = q /\ jobCount[q] = 0)
<1>1. push[t] = NoPush /\ jobCount[q] \in Int /\ only \in BOOLEAN
  BY PushOnlyBoolean DEF CountJob, AtTopLevel, InBody, TypeOK
<1>2. \A u \in Threads : push'[u] = IF u = t THEN Enqueueing(q, j, jobCount[q], only) ELSE push[u]
  BY DEF CountJob, TypeOK
<1>. QED
  BY <1>1, <1>2, PushRecords DEF Owes

\* ... _jobs.Push keeps it if the thread hands the queue over, and ends it if
\* the thread executes the queue or is not responsible ...
LEMMA OwesAfterEnqueue ==
    ASSUME TypeOK, NEW t \in Threads, NEW q \in Queues, push[t].queue = q, EnqueueJob(t)
    PROVE  \/ /\ Owes(t, q) /\ current[t] = NoQueue /\ EnterExecute(t, q)
              /\ \A u \in Threads, r \in Queues : Owes(u, r)' <=> Owes(u, r) /\ u # t
           \/ /\ UNCHANGED <<current, stage>>
              /\ \A u \in Threads, r \in Queues : Owes(u, r)' <=> Owes(u, r)
<1>1. push[t].at = "enqueue"
  BY DEF EnqueueJob
<1>2. ASSUME NEW p, push' = [push EXCEPT ![t] = p]
      PROVE  \A u \in Threads : push'[u] = IF u = t THEN p ELSE push[u]
  BY <1>2 DEF TypeOK
<1>3. CASE push[t].prev = 0 /\ current[t] = NoQueue /\ EnterExecute(t, q) /\ push' = [push EXCEPT ![t] = NoPush]
  <2>1. \A u \in Threads : push'[u] = IF u = t THEN NoPush ELSE push[u]
    BY <1>2, <1>3
  <2>. QED
    BY <1>1, <1>3, <2>1, PushRecords DEF Owes
<1>4. CASE /\ push[t].prev = 0 /\ push' = [push EXCEPT ![t] = HandingOver(q)]
           /\ UNCHANGED <<current, stage>>
  <2>1. \A u \in Threads : push'[u] = IF u = t THEN HandingOver(q) ELSE push[u]
    BY <1>2, <1>4
  <2>. QED
    BY <1>1, <1>4, <2>1, PushRecords DEF Owes
<1>5. CASE push[t].prev # 0 /\ push' = [push EXCEPT ![t] = NoPush] /\ UNCHANGED <<current, stage>>
  <2>1. \A u \in Threads : push'[u] = IF u = t THEN NoPush ELSE push[u]
    BY <1>2, <1>5
  <2>. QED
    BY <1>1, <1>5, <2>1, PushRecords DEF Owes
<1>. QED
  BY <1>3, <1>4, <1>5 DEF EnqueueJob, FirstJob, MayExecute

\* ... GGlobalQueue->Push ends it, the queue now being in the GlobalQueue ...
LEMMA OwesAfterPushGlobal ==
    ASSUME TypeOK, NEW t \in Threads, NEW q \in Queues, push[t].queue = q, PushGlobal(t)
    PROVE  /\ Owes(t, q)
           /\ \A u \in Threads, r \in Queues : Owes(u, r)' <=> Owes(u, r) /\ u # t
           /\ \A r \in Queues : InGlobal(r)' <=> InGlobal(r) \/ r = q
<1>1. push[t].at = "toGlobal"
  BY DEF PushGlobal
<1>2. \A u \in Threads : push'[u] = IF u = t THEN NoPush ELSE push[u]
  BY DEF PushGlobal, TypeOK
<1>3. /\ globalQueue \in Seq(Queues) /\ globalQueue' = Append(globalQueue, q)
      /\ Len(globalQueue') = Len(globalQueue) + 1
      /\ DOMAIN globalQueue = 1..Len(globalQueue) /\ DOMAIN globalQueue' = 1..Len(globalQueue')
  BY DEF PushGlobal, TypeOK
<1>4. \A r \in Queues : InGlobal(r)' <=> InGlobal(r) \/ r = q
  BY <1>3 DEF InGlobal
<1>. QED
  BY <1>1, <1>2, <1>4, PushRecords DEF Owes

\* ... and a hand-over at the end of Execute takes it on.
LEMMA OwesAfterHandOver ==
    ASSUME TypeOK, Control, NEW t \in Threads, NEW q \in Queues, current[t] = q, HandOver(t)
    PROVE  \A u \in Threads, r \in Queues : Owes(u, r)' <=> Owes(u, r) \/ (u = t /\ r = q)
<1>1. push[t] = NoPush
  BY DEF HandOver, SubtractBatch, Control
<1>2. \A u \in Threads : push'[u] = IF u = t THEN HandingOver(q) ELSE push[u]
  BY DEF HandOver, TypeOK
<1>. QED
  BY <1>1, <1>2, PushRecords DEF Owes

\* The oldest entry leaves the GlobalQueue; the entries being distinct, the
\* queue is then no longer in it.
LEMMA InGlobalAfterPop ==
    ASSUME TypeOK, Exclusive, NEW t \in Threads, NEW q \in Queues, q = Head(globalQueue), PopGlobal(t)
    PROVE  /\ InGlobal(q)
           /\ \A r \in Queues : InGlobal(r)' <=> InGlobal(r) /\ r # q
           /\ \A i, k \in DOMAIN globalQueue' : globalQueue'[i] = globalQueue'[k] => i = k
<1>1. globalQueue \in Seq(Queues) /\ globalQueue # <<>> /\ globalQueue' = Tail(globalQueue)
  BY DEF PopGlobal, TypeOK
<1>2. /\ Len(globalQueue) \in Nat \ {0} /\ DOMAIN globalQueue = 1..Len(globalQueue)
      /\ DOMAIN globalQueue' = 1..(Len(globalQueue) - 1)
      /\ \A i \in 1..(Len(globalQueue) - 1) : globalQueue'[i] = globalQueue[i + 1]
      /\ q = globalQueue[1]
  BY <1>1
<1>3. \A i, k \in DOMAIN globalQueue : globalQueue[i] = globalQueue[k] => i = k
  BY DEF Exclusive
<1>4. InGlobal(q)
  BY <1>2 DEF InGlobal
<1>5. ASSUME NEW r \in Queues
      PROVE  InGlobal(r)' <=> InGlobal(r) /\ r # q
  <2>1. ASSUME InGlobal(r)'
        PROVE  InGlobal(r) /\ r # q
    <3>1. PICK i \in 1..(Len(globalQueue) - 1) : globalQueue[i + 1] = r
      BY <1>2, <2>1 DEF InGlobal
    <3>2. i + 1 \in 1..Len(globalQueue) /\ 1 \in 1..Len(globalQueue) /\ i + 1 # 1
      BY <1>2
    <3>. QED
      BY <1>2, <1>3, <3>1, <3>2 DEF InGlobal
  <2>2. ASSUME InGlobal(r), r # q
        PROVE  InGlobal(r)'
    <3>1. PICK i \in 1..Len(globalQueue) : globalQueue[i] = r
      BY <1>2, <2>2 DEF InGlobal
    <3>2. i - 1 \in 1..(Len(globalQueue) - 1) /\ (i - 1) + 1 = i
      BY <1>2, <2>2, <3>1
    <3>3. globalQueue'[i - 1] = r
      BY <1>2, <3>1, <3>2
    <3>. QED
      BY <1>2, <3>2, <3>3 DEF InGlobal
  <2>. QED
    BY <2>1, <2>2
<1>6. \A i, k \in DOMAIN globalQueue' : globalQueue'[i] = globalQueue'[k] => i = k
  <2>. SUFFICES ASSUME NEW i \in 1..(Len(globalQueue) - 1), NEW k \in 1..(Len(globalQueue) - 1),
                       globalQueue[i + 1] = globalQueue[k + 1]
                PROVE  i = k
    BY <1>2
  <2>1. i + 1 \in 1..Len(globalQueue) /\ k + 1 \in 1..Len(globalQueue)
    BY <1>2
  <2>2. i + 1 = k + 1
    BY <1>2, <1>3, <2>1
  <2>. QED
    BY <2>2
<1>. QED
  BY <1>4, <1>5, <1>6

-----------------------------------------------------------------------------
\* Every step leaves each queue with at most one responsible party, and with
\* one exactly when its count is not zero.
LEMMA PushPreservesHolders ==
    ASSUME IndInv, NEW t \in Threads,
           \/ \E q \in Queues, j \in Jobs, only \in PushOnly : CountJob(t, q, j, only)
           \/ EnqueueJob(t)
    PROVE  Exclusive' /\ Held'
<1> USE NoQueueIsNull DEF IndInv
<1>1. ASSUME NEW q \in Queues, NEW j \in Jobs, NEW only \in PushOnly, CountJob(t, q, j, only)
      PROVE  Exclusive' /\ Held'
  <2>1. \A u \in Threads, r \in Queues :
           Owes(u, r)' <=> Owes(u, r) \/ (u = t /\ r = q /\ jobCount[q] = 0)
    BY <1>1, OwesAfterCount
  <2>2. globalQueue' = globalQueue /\ current' = current
    BY <1>1 DEF CountJob
  <2>3. /\ jobCount[q] \in Int /\ jobCount[q] >= 0 /\ jobCount'[q] = jobCount[q] + 1
        /\ \A r \in Queues \ {q} : jobCount'[r] = jobCount[r]
    BY <1>1, CountBounds DEF CountJob, TypeOK
  <2>4. jobCount'[q] # 0
    BY <2>3
  <2>5. Exclusive'
    <3>1. jobCount[q] = 0 => ~InGlobal(q) /\ \A u \in Threads : ~Owes(u, q) /\ current[u] # q
      BY DEF Held
    <3>. QED
      BY <2>1, <2>2, <3>1 DEF Exclusive, MutualExclusion, InGlobal
  <2>6. Held'
    <3>1. \A r \in Queues \ {q} : jobCount'[r] = jobCount[r]
      BY <2>3
    <3>2. jobCount[q] = 0 => Owes(t, q)'
      BY <2>1
    <3>3. jobCount[q] # 0 => InGlobal(q) \/ \E u \in Threads : Owes(u, q)' \/ current[u] = q
      BY <2>1 DEF Held
    <3>4. InGlobal(q) \/ \E u \in Threads : Owes(u, q)' \/ current[u] = q
      BY <3>2, <3>3
    <3>5. \A r \in Queues \ {q} : \A u \in Threads : Owes(u, r)' <=> Owes(u, r)
      BY <2>1
    <3>. QED
      BY <2>2, <2>4, <3>1, <3>4, <3>5 DEF Held, InGlobal
  <2>. QED
    BY <2>5, <2>6
<1>2. CASE EnqueueJob(t)
  <2>1. PICK q \in Queues : push[t].queue = q
    BY <1>2, PushFields DEF EnqueueJob
  <2>2. globalQueue' = globalQueue /\ jobCount' = jobCount
    BY <1>2 DEF EnqueueJob
  <2>3. CASE /\ Owes(t, q) /\ current[t] = NoQueue /\ EnterExecute(t, q)
             /\ \A u \in Threads, r \in Queues : Owes(u, r)' <=> Owes(u, r) /\ u # t
    <3>1. \A u \in Threads : current'[u] = IF u = t THEN q ELSE current[u]
      BY <2>3 DEF EnterExecute, TypeOK
    <3>2. ~InGlobal(q) /\ \A u \in Threads : current[u] # q /\ (Owes(u, q) => u = t)
      BY <2>3 DEF Exclusive
    <3>3. \A r \in Queues : Owes(t, r) => r = q
      BY <2>1 DEF Owes
    <3>4. Exclusive'
      BY <2>2, <2>3, <3>1, <3>2, <3>3 DEF Exclusive, MutualExclusion, InGlobal
    <3>5. Held'
      BY <2>2, <2>3, <3>1, <3>2, <3>3 DEF Held, InGlobal
    <3>. QED
      BY <3>4, <3>5
  <2>4. CASE /\ UNCHANGED <<current, stage>>
             /\ \A u \in Threads, r \in Queues : Owes(u, r)' <=> Owes(u, r)
    <3>1. Exclusive'
      BY <2>2, <2>4 DEF Exclusive, MutualExclusion, InGlobal
    <3>2. Held'
      BY <2>2, <2>4 DEF Held, InGlobal
    <3>. QED
      BY <3>1, <3>2
  <2>. QED
    BY <1>2, <2>1, <2>3, <2>4, OwesAfterEnqueue
<1>. QED
  BY <1>1, <1>2

LEMMA GlobalPreservesHolders ==
    ASSUME IndInv, NEW t \in Threads, PushGlobal(t) \/ PopGlobal(t)
    PROVE  Exclusive' /\ Held'
<1> USE NoQueueIsNull DEF IndInv
<1>1. CASE PushGlobal(t)
  <2>1. PICK q \in Queues : push[t].queue = q
    BY <1>1, PushFields DEF PushGlobal
  <2>2. current' = current /\ jobCount' = jobCount
    BY <1>1 DEF PushGlobal
  <2>3. /\ Owes(t, q)
        /\ \A u \in Threads, r \in Queues : Owes(u, r)' <=> Owes(u, r) /\ u # t
        /\ \A r \in Queues : InGlobal(r)' <=> InGlobal(r) \/ r = q
    BY <1>1, <2>1, OwesAfterPushGlobal
  <2>4. \A r \in Queues : Owes(t, r) => r = q
    BY <2>1 DEF Owes
  <2>5. ~InGlobal(q) /\ \A u \in Threads : current[u] # q /\ (Owes(u, q) => u = t)
    BY <2>3 DEF Exclusive
  <2>6. \A i, k \in DOMAIN globalQueue' : globalQueue'[i] = globalQueue'[k] => i = k
    <3>1. /\ globalQueue' = Append(globalQueue, q) /\ globalQueue \in Seq(Queues)
      BY <1>1, <2>1 DEF PushGlobal, TypeOK
    <3>2. /\ DOMAIN globalQueue' = 1..(Len(globalQueue) + 1) /\ DOMAIN globalQueue = 1..Len(globalQueue)
          /\ Len(globalQueue) \in Nat /\ globalQueue'[Len(globalQueue) + 1] = q
          /\ \A i \in 1..Len(globalQueue) : globalQueue'[i] = globalQueue[i]
      BY <3>1
    <3>3. \A i \in 1..Len(globalQueue) : globalQueue[i] # q
      BY <2>5, <3>2 DEF InGlobal
    <3>4. \A i, k \in 1..Len(globalQueue) : globalQueue[i] = globalQueue[k] => i = k
      BY <3>2 DEF Exclusive
    <3>. QED
      BY <3>2, <3>3, <3>4
  <2>7. Exclusive'
    BY <2>2, <2>3, <2>4, <2>5, <2>6 DEF Exclusive, MutualExclusion
  <2>8. Held'
    BY <2>2, <2>3, <2>4 DEF Held
  <2>. QED
    BY <2>7, <2>8
<1>2. CASE PopGlobal(t)
  <2>1. PICK q \in Queues : q = Head(globalQueue) /\ EnterExecute(t, q)
    BY <1>2 DEF PopGlobal, TypeOK
  <2>2. jobCount' = jobCount /\ push' = push
    BY <1>2 DEF PopGlobal
  <2>3. /\ InGlobal(q)
        /\ \A r \in Queues : InGlobal(r)' <=> InGlobal(r) /\ r # q
        /\ \A i, k \in DOMAIN globalQueue' : globalQueue'[i] = globalQueue'[k] => i = k
    BY <1>2, <2>1, InGlobalAfterPop
  <2>4. \A u \in Threads : current'[u] = IF u = t THEN q ELSE current[u]
    BY <2>1 DEF EnterExecute, TypeOK
  <2>5. current[t] = NoQueue
    BY <1>2 DEF PopGlobal, AtTopLevel, Control
  <2>6. \A u \in Threads : current[u] # q /\ ~Owes(u, q)
    BY <2>3 DEF Exclusive
  <2>7. \A u \in Threads, r \in Queues : Owes(u, r)' <=> Owes(u, r)
    BY <2>2 DEF Owes
  <2>8. Exclusive'
    BY <2>3, <2>4, <2>6, <2>7 DEF Exclusive, MutualExclusion
  <2>9. Held'
    BY <2>2, <2>3, <2>4, <2>5, <2>7 DEF Held
  <2>. QED
    BY <2>8, <2>9
<1>. QED
  BY <1>1, <1>2

LEMMA ExecutePreservesHolders ==
    ASSUME IndInv, NEW t \in Threads,
           \/ PopAll(t) \/ StartJob(t) \/ FinishJob(t) \/ Return(t) \/ Continue(t) \/ HandOver(t)
    PROVE  Exclusive' /\ Held'
<1> USE NoQueueIsNull DEF IndInv
<1>1. CASE PopAll(t) \/ StartJob(t) \/ FinishJob(t)
  <2>1. UNCHANGED <<jobCount, current, push, globalQueue>>
    BY <1>1 DEF PopAll, StartJob, FinishJob
  <2>. QED
    BY <2>1 DEF Exclusive, MutualExclusion, InGlobal, Owes, Held
<1>2. CASE Return(t) \/ Continue(t) \/ HandOver(t)
  <2>1. SubtractBatch(t)
    BY <1>2 DEF Return, Continue, HandOver
  <2>2. PICK q \in Queues : current[t] = q
    BY <2>1 DEF SubtractBatch, Control, TypeOK
  <2>3. globalQueue' = globalQueue /\ \A r \in Queues \ {q} : jobCount'[r] = jobCount[r]
    BY <2>1, <2>2 DEF SubtractBatch, TypeOK
  <2>4. jobCount'[q] = 0 <=> Drained(t)
    <3>1. jobCount'[q] = jobCount[q] - taken[t] /\ jobCount[q] \in Int /\ taken[t] \in Int
      BY <2>1, <2>2 DEF SubtractBatch, TypeOK
    <3>. QED
      BY <2>2, <3>1 DEF Drained
  <2>5. /\ \A u \in Threads : ~Owes(u, q) /\ (current[u] = q => u = t)
        /\ ~InGlobal(q)
    BY <2>2 DEF Exclusive, MutualExclusion
  <2>6. CASE Return(t)
    <3>1. push' = push /\ Drained(t)
      BY <2>6 DEF Return
    <3>2. \A u \in Threads : current'[u] = IF u = t THEN NoQueue ELSE current[u]
      BY <2>6 DEF Return, LeaveExecute, TypeOK
    <3>3. Exclusive'
      BY <2>3, <3>1, <3>2 DEF Exclusive, MutualExclusion, InGlobal, Owes
    <3>4. \A u \in Threads, r \in Queues : Owes(u, r)' <=> Owes(u, r)
      BY <3>1 DEF Owes
    <3>5. Held'
      BY <2>2, <2>3, <2>4, <2>5, <3>1, <3>2, <3>4 DEF Held, InGlobal
    <3>. QED
      BY <3>3, <3>5
  <2>7. CASE Continue(t)
    <3>1. push' = push /\ current' = current /\ ~Drained(t)
      BY <2>7 DEF Continue
    <3>2. Exclusive'
      BY <2>3, <3>1 DEF Exclusive, MutualExclusion, InGlobal, Owes
    <3>3. Held'
      BY <2>2, <2>3, <2>4, <3>1 DEF Held, InGlobal, Owes
    <3>. QED
      BY <3>2, <3>3
  <2>8. CASE HandOver(t)
    <3>1. ~Drained(t)
      BY <2>8 DEF HandOver
    <3>2. \A u \in Threads : current'[u] = IF u = t THEN NoQueue ELSE current[u]
      BY <2>8 DEF HandOver, LeaveExecute, TypeOK
    <3>3. \A u \in Threads, r \in Queues : Owes(u, r)' <=> Owes(u, r) \/ (u = t /\ r = q)
      BY <2>2, <2>8, OwesAfterHandOver
    <3>4. Exclusive'
      BY <2>3, <2>5, <3>2, <3>3 DEF Exclusive, MutualExclusion, InGlobal
    <3>5. Held'
      BY <2>2, <2>3, <2>4, <3>1, <3>2, <3>3 DEF Held, InGlobal
    <3>. QED
      BY <3>4, <3>5
  <2>. QED
    BY <1>2, <2>6, <2>7, <2>8
<1>. QED
  BY <1>1, <1>2

-----------------------------------------------------------------------------
\* The initial state: no job, no executing thread, nobody responsible.
LEMMA InitInvariant == Init => IndInv
<1> SUFFICES ASSUME Init PROVE IndInv
  OBVIOUS
<1> USE NoQueueIsNull
<1>1. TypeOK
  BY DEF Init, TypeOK, Stages
<1>2. Control
  BY DEF Init, Control, TypeOK
<1>3. \A q \in Queues : ~InGlobal(q) /\ \A t \in Threads : ~Owes(t, q) /\ current[t] # q
  BY PushRecords DEF Init, Owes, InGlobal
<1>4. Exclusive
  BY <1>3 DEF Exclusive, MutualExclusion, Init
<1>a. \A q \in Queues : jobCount[q] = 0 /\ Len(jobs[q]) = 0
  BY DEF Init
<1>5. Held
  BY <1>3, <1>a DEF Held
<1>6. ASSUME NEW q \in Queues
      PROVE  Pushing(q) = {}
  BY PushRecords DEF Init, Pushing
<1>7. Counted
  <2> SUFFICES ASSUME NEW q \in Queues
               PROVE  jobCount[q] = Len(jobs[q]) + Cardinality(Pushing(q))
    BY <1>3 DEF Counted, CountedIfFree, CountedIfTaken
  <2>1. Cardinality(Pushing(q)) = 0
    BY <1>6, FS_EmptySet
  <2>. QED
    BY <1>a, <2>1
<1>. QED
  BY <1>1, <1>2, <1>4, <1>5, <1>7 DEF IndInv

\* The inductive invariant is inductive.
LEMMA StepPreservesInvariant == IndInv /\ [Next]_vars => IndInv'
<1> SUFFICES ASSUME IndInv, [Next]_vars PROVE IndInv'
  OBVIOUS
<1>1. TypeOK' /\ Control'
  BY StepPreservesType, StepPreservesControl DEF IndInv
<1>2. CASE UNCHANGED vars
  <2>1. Counted'
    BY <1>2 DEF IndInv, vars, Counted, CountedIfFree, CountedIfTaken, Pushing
  <2>2. Exclusive' /\ Held'
    BY <1>2 DEF IndInv, vars, Exclusive, MutualExclusion, Held, Owes, InGlobal
  <2>. QED
    BY <1>1, <2>1, <2>2 DEF IndInv
<1>3. ASSUME NEW t \in Threads, CallPush(t) \/ PopGlobal(t) \/ Proceed(t)
      PROVE  IndInv'
  <2>1. CASE CallPush(t) \/ EnqueueJob(t)
    <3>1. \/ \E q \in Queues, j \in Jobs, only \in PushOnly : CountJob(t, q, j, only)
          \/ EnqueueJob(t)
      BY <2>1 DEF CallPush
    <3>2. Counted'
      BY <3>1, PushPreservesCounted
    <3>3. Exclusive' /\ Held'
      BY <3>1, PushPreservesHolders
    <3>. QED
      BY <1>1, <3>2, <3>3 DEF IndInv
  <2>2. CASE PushGlobal(t) \/ PopGlobal(t)
    <3>1. Counted'
      BY <2>2, ExecutePreservesCounted
    <3>2. Exclusive' /\ Held'
      BY <2>2, GlobalPreservesHolders
    <3>. QED
      BY <1>1, <3>1, <3>2 DEF IndInv
  <2>3. CASE PopAll(t) \/ StartJob(t) \/ FinishJob(t) \/ Return(t) \/ Continue(t) \/ HandOver(t)
    <3>1. Counted'
      BY <2>3, ExecutePreservesCounted
    <3>2. Exclusive' /\ Held'
      BY <2>3, ExecutePreservesHolders
    <3>. QED
      BY <1>1, <3>1, <3>2 DEF IndInv
  <2>. QED
    BY <1>3, <2>1, <2>2, <2>3 DEF Proceed
<1>. QED
  BY <1>2, <1>3 DEF Next

\* The invariant says what it was built for: exactly one responsible party for
\* a queue with jobs, none for a queue without.
LEMMA OneResponsibleFollows == IndInv => OneResponsible
<1> SUFFICES ASSUME IndInv, NEW q \in Queues
             PROVE  Cardinality(Responsible(q)) = IF jobCount[q] = 0 THEN 0 ELSE 1
  BY DEF OneResponsible
<1> USE DEF IndInv
<1>1. CASE jobCount[q] = 0
  <2>1. Responsible(q) = {}
    BY <1>1 DEF Held, InGlobal, Responsible
  <2>. QED
    BY <1>1, <2>1, FS_EmptySet
<1>2. CASE jobCount[q] # 0
  <2>1. PICK x \in Responsible(q) : TRUE
    BY <1>2 DEF Held, InGlobal, Responsible
  <2>2. ASSUME NEW y \in Responsible(q), NEW z \in Responsible(q)
        PROVE  y = z
    <3>1. CASE \E t \in Threads : y = <<"push", t>> /\ Owes(t, q)
      BY <2>2, <3>1 DEF Responsible, Exclusive, InGlobal
    <3>2. CASE \E t \in Threads : y = <<"execute", t>> /\ current[t] = q
      BY <2>2, <3>2, NoQueueIsNull DEF Responsible, Exclusive, InGlobal, MutualExclusion
    <3>3. CASE \E i \in DOMAIN globalQueue : y = <<"global", i>> /\ globalQueue[i] = q
      BY <2>2, <3>3 DEF Responsible, Exclusive, InGlobal
    <3>. QED
      BY <2>2, <3>1, <3>2, <3>3 DEF Responsible
  <2>3. Responsible(q) = {x}
    BY <2>1, <2>2
  <2>. QED
    BY <1>2, <2>3, FS_Singleton
<1>. QED
  BY <1>1, <1>2

\* The exact count, from its two cases.
LEMMA CountIsExactFollows == IndInv => CountIsExact
<1> SUFFICES ASSUME IndInv, NEW q \in Queues
             PROVE  jobCount[q] = Len(jobs[q]) + TakenFrom(q) + Cardinality(Pushing(q))
  BY DEF CountIsExact
<1> USE DEF IndInv
<1>1. CASE \E t \in Threads : current[t] = q
  <2> DEFINE t == CHOOSE t \in Threads : current[t] = q
  <2>1. t \in Threads /\ current[t] = q /\ TakenFrom(q) = taken[t]
    BY <1>1 DEF TakenFrom
  <2> HIDE DEF t
  <2>. QED
    BY <2>1 DEF Counted, CountedIfTaken
<1>2. CASE \A t \in Threads : current[t] # q
  <2>1. TakenFrom(q) = 0 /\ jobCount[q] = Len(jobs[q]) + Cardinality(Pushing(q))
    BY <1>2 DEF TakenFrom, Counted, CountedIfFree
  <2>2. Len(jobs[q]) \in Nat
    BY DEF TypeOK
  <2>. QED
    BY <2>1, <2>2
<1>. QED
  BY <1>1, <1>2

-----------------------------------------------------------------------------
\* The inductive invariant holds in every reachable state of JobQueue.
THEOREM Invariance == Spec => []IndInv
<1>1. Init => IndInv
  BY InitInvariant
<1>2. IndInv /\ [Next]_vars => IndInv'
  BY StepPreservesInvariant
<1>. QED
  BY <1>1, <1>2, PTL DEF Spec

\* Every variable keeps its type, whatever the threads do.
THEOREM TypeCorrect == Spec => []TypeOK
<1>1. IndInv => TypeOK
  BY DEF IndInv
<1>. QED
  BY <1>1, Invariance, PTL

\* No two threads are in Execute of one queue (Push, Execute, GlobalQueue).
THEOREM Exclusion == Spec => []MutualExclusion
<1>1. IndInv => MutualExclusion
  BY DEF IndInv, Exclusive
<1>. QED
  BY <1>1, Invariance, PTL

\* No job is stranded and none is run by two threads: a queue with jobs has
\* exactly one party responsible for it, a queue without has none.
THEOREM ExactlyOneResponsible == Spec => []OneResponsible
BY OneResponsibleFollows, Invariance, PTL

\* _jobCount is exact: fetch_add, fetch_sub and PopAll lose and invent no job.
THEOREM CountExact == Spec => []CountIsExact
BY CountIsExactFollows, Invariance, PTL

\* A thread takes up a queue only when it executes none, and leaves one only
\* when the batch it took is finished.
THEOREM NoNesting == Spec => NoNestedExecute
<1> DEFINE Step == \A t \in Threads : current[t] # NoQueue /\ current'[t] # current[t]
                                        => current'[t] = NoQueue /\ batch[t] = <<>>
<1>1. IndInv /\ [Next]_vars => [Step]_vars
  <2> SUFFICES ASSUME IndInv, Next PROVE Step
    OBVIOUS
  <2> USE DEF IndInv, TypeOK
  <2>1. PICK t \in Threads : CallPush(t) \/ PopGlobal(t) \/ Proceed(t)
    BY DEF Next
  <2>2. CASE CallPush(t)
    BY <2>2 DEF CallPush, CountJob
  <2>3. CASE PopGlobal(t)
    BY <2>3 DEF PopGlobal, AtTopLevel, EnterExecute, Control
  <2>4. CASE EnqueueJob(t)
    BY <2>4 DEF EnqueueJob, EnterExecute, MayExecute
  <2>5. CASE PushGlobal(t) \/ PopAll(t) \/ StartJob(t) \/ FinishJob(t) \/ Continue(t)
    BY <2>5 DEF PushGlobal, PopAll, StartJob, FinishJob, Continue
  <2>6. CASE Return(t) \/ HandOver(t)
    BY <2>6 DEF Return, HandOver, SubtractBatch, LeaveExecute
  <2>. QED
    BY <2>1, <2>2, <2>3, <2>4, <2>5, <2>6 DEF Proceed
<1>. QED
  BY <1>1, Invariance, PTL DEF Spec, NoNestedExecute

-----------------------------------------------------------------------------
\* What the abstract view of a queue is: if a thread executes it, what is left of
\* that thread's batch goes before _jobs; if none does, there is only _jobs.
View ==
    \A q \in Queues :
        /\ (\A t \in Threads : current[t] # q) => Waiting(q) = jobs[q] /\ Running(q) = {}
        /\ \A t \in Threads : current[t] = q =>
              /\ Waiting(q) = Unstarted(t) \o jobs[q]
              /\ Running(q) = IF stage[t] = "body" THEN {Head(batch[t])} ELSE {}

\* The view is well defined, because no two threads execute one queue.
LEMMA AbstractView == IndInv => View
<1> SUFFICES ASSUME IndInv, NEW q \in Queues
             PROVE  /\ (\A t \in Threads : current[t] # q) => Waiting(q) = jobs[q] /\ Running(q) = {}
                    /\ \A t \in Threads : current[t] = q =>
                          /\ Waiting(q) = Unstarted(t) \o jobs[q]
                          /\ Running(q) = IF stage[t] = "body" THEN {Head(batch[t])} ELSE {}
  BY DEF View
<1>1. ASSUME \A t \in Threads : current[t] # q
      PROVE  Waiting(q) = jobs[q] /\ Running(q) = {}
  BY <1>1 DEF Waiting, Running
<1>2. ASSUME NEW t \in Threads, current[t] = q
      PROVE  /\ Waiting(q) = Unstarted(t) \o jobs[q]
             /\ Running(q) = IF stage[t] = "body" THEN {Head(batch[t])} ELSE {}
  <2>1. \A u \in Threads : current[u] = q <=> u = t
    BY <1>2, NoQueueIsNull DEF IndInv, Exclusive, MutualExclusion
  <2>2. (CHOOSE u \in Threads : current[u] = q) = t
    BY <2>1
  <2>. QED
    BY <1>2, <2>1, <2>2 DEF Waiting, Running
<1>. QED
  BY <1>1, <1>2

\* So it is after a step.
LEMMA AbstractViewNext == IndInv' => View'
BY AbstractView, PTL

\* A queue whose _jobs stay, and whose thread, if any, stays where it is, looks
\* the same afterwards.
LEMMA OthersUnchanged ==
    ASSUME IndInv, IndInv', NEW r \in Queues, jobs'[r] = jobs[r],
           \A u \in Threads : current[u] = r \/ current'[u] = r =>
              current'[u] = current[u] /\ stage'[u] = stage[u] /\ batch'[u] = batch[u]
    PROVE  Waiting(r)' = Waiting(r) /\ Running(r)' = Running(r)
<1>1. CASE \E u \in Threads : current[u] = r
  <2>1. PICK u \in Threads : current[u] = r
    BY <1>1
  <2>2. current'[u] = r /\ stage'[u] = stage[u] /\ batch'[u] = batch[u]
    BY <2>1
  <2>3. Unstarted(u)' = Unstarted(u)
    BY <2>2 DEF Unstarted
  <2>4. /\ Waiting(r) = Unstarted(u) \o jobs[r]
        /\ Running(r) = IF stage[u] = "body" THEN {Head(batch[u])} ELSE {}
    BY <2>1, AbstractView DEF View
  <2>5. /\ Waiting(r)' = Unstarted(u)' \o jobs'[r]
        /\ Running(r)' = IF stage'[u] = "body" THEN {Head(batch'[u])} ELSE {}
    BY <2>2, AbstractViewNext DEF View
  <2>. QED
    BY <2>2, <2>3, <2>4, <2>5
<1>2. CASE \A u \in Threads : current[u] # r
  <2>1. \A u \in Threads : current'[u] # r
    BY <1>2
  <2>. QED
    BY <1>2, <2>1, AbstractView, AbstractViewNext DEF View
<1>. QED
  BY <1>1, <1>2

\* How a change of the view of one queue is a step of the abstract executor.
LEMMA ViewStep ==
    ASSUME NEW q \in Queues,
           \A r \in Queues \ {q} : Waiting(r)' = Waiting(r) /\ Running(r)' = Running(r),
           \/ Waiting(q)' = Waiting(q) /\ Running(q)' = Running(q)
           \/ /\ \E j \in Jobs : Waiting(q)' = Append(Waiting(q), j)
              /\ Running(q)' = Running(q)
           \/ /\ Running(q) = {} /\ Waiting(q) # <<>>
              /\ Running(q)' = {Head(Waiting(q))} /\ Waiting(q)' = Tail(Waiting(q))
           \/ Running(q) # {} /\ Running(q)' = {} /\ Waiting(q)' = Waiting(q)
    PROVE  [Abstract!Next]_Abstract!abstractVars
<1> DEFINE W == [r \in Queues |-> Waiting(r)]
           R == [r \in Queues |-> Running(r)]
<1>1. /\ \A r \in Queues : W[r] = Waiting(r) /\ R[r] = Running(r)
      /\ DOMAIN W = Queues /\ DOMAIN R = Queues
  OBVIOUS
<1>2. ASSUME Waiting(q)' = Waiting(q)
      PROVE  W' = W
  BY <1>2
<1>3. ASSUME Running(q)' = Running(q)
      PROVE  R' = R
  BY <1>3
<1>4. ASSUME NEW w, Waiting(q)' = w
      PROVE  W' = [W EXCEPT ![q] = w]
  BY <1>4
<1>5. ASSUME NEW x, Running(q)' = x
      PROVE  R' = [R EXCEPT ![q] = x]
  BY <1>5
<1>6. CASE Waiting(q)' = Waiting(q) /\ Running(q)' = Running(q)
  BY <1>2, <1>3, <1>6 DEF Abstract!abstractVars
<1>7. CASE /\ \E j \in Jobs : Waiting(q)' = Append(Waiting(q), j)
           /\ Running(q)' = Running(q)
  <2>1. PICK j \in Jobs : Waiting(q)' = Append(Waiting(q), j)
    BY <1>7
  <2>2. W' = [W EXCEPT ![q] = Append(@, j)] /\ R' = R
    BY <1>1, <1>3, <1>4, <1>7, <2>1
  <2>3. Abstract!Submit(q, j)
    BY <2>2 DEF Abstract!Submit
  <2>. QED
    BY <2>3 DEF Abstract!Next
<1>8. CASE /\ Running(q) = {} /\ Waiting(q) # <<>>
           /\ Running(q)' = {Head(Waiting(q))} /\ Waiting(q)' = Tail(Waiting(q))
  <2>1. R[q] = {} /\ W[q] # <<>>
    BY <1>1, <1>8
  <2>2. W' = [W EXCEPT ![q] = Tail(@)] /\ R' = [R EXCEPT ![q] = {Head(W[q])}]
    BY <1>1, <1>4, <1>5, <1>8
  <2>3. Abstract!Start(q)
    BY <2>1, <2>2 DEF Abstract!Start
  <2>. QED
    BY <2>3 DEF Abstract!Next
<1>9. CASE Running(q) # {} /\ Running(q)' = {} /\ Waiting(q)' = Waiting(q)
  <2>1. R[q] # {} /\ W' = W /\ R' = [R EXCEPT ![q] = {}]
    BY <1>1, <1>2, <1>5, <1>9
  <2>2. Abstract!Finish(q)
    BY <2>1 DEF Abstract!Finish
  <2>. QED
    BY <2>2 DEF Abstract!Next
<1>. QED
  BY <1>6, <1>7, <1>8, <1>9

\* A _jobs.Push submits the job, whether the thread then executes the queue or not.
LEMMA EnqueueSubmits ==
    ASSUME IndInv, IndInv', NEW t \in Threads, EnqueueJob(t)
    PROVE  [Abstract!Next]_Abstract!abstractVars
<1> USE DEF IndInv
<1>1. PICK q \in Queues, j \in Jobs :
         /\ push[t].at = "enqueue" /\ push[t].queue = q /\ push[t].job = j
         /\ jobs' = [jobs EXCEPT ![q] = Append(@, j)] /\ batch' = batch
  BY PushFields DEF EnqueueJob
<1>2. /\ jobs[q] \in Seq(Jobs) /\ jobs'[q] = Append(jobs[q], j)
      /\ \A r \in Queues \ {q} : jobs'[r] = jobs[r]
  BY <1>1 DEF TypeOK
<1>3. CASE /\ push[t].prev = 0 /\ current[t] = NoQueue
           /\ current' = [current EXCEPT ![t] = q] /\ stage' = [stage EXCEPT ![t] = "popAll"]
  <2>1. Owes(t, q)
    BY <1>1, <1>3 DEF Owes
  <2>2. \A u \in Threads : current[u] # q
    BY <1>1, <2>1 DEF Exclusive
  <2>3. stage[t] = "idle" /\ batch[t] = <<>>
    BY <1>3 DEF Control
  <2>4. /\ current'[t] = q /\ stage'[t] = "popAll" /\ batch'[t] = <<>>
        /\ \A u \in Threads \ {t} : current'[u] = current[u] /\ stage'[u] = stage[u] /\ batch'[u] = batch[u]
    BY <1>1, <1>3, <2>3 DEF TypeOK
  <2>5. Waiting(q) = jobs[q] /\ Running(q) = {}
    BY <1>1, <2>2, AbstractView DEF View
  <2>6. Unstarted(t)' = <<>>
    BY <2>4 DEF Unstarted
  <2>7. Waiting(q)' = <<>> \o jobs'[q] /\ Running(q)' = {}
    BY <1>1, <2>4, <2>6, AbstractViewNext DEF View
  <2>8. Waiting(q)' = Append(Waiting(q), j) /\ Running(q)' = Running(q)
    BY <1>1, <1>2, <2>5, <2>7
  <2>9. \A r \in Queues \ {q} : Waiting(r)' = Waiting(r) /\ Running(r)' = Running(r)
    BY <1>2, <1>3, <2>4, NoQueueIsNull, OthersUnchanged
  <2>. QED
    BY <1>1, <2>8, <2>9, ViewStep
<1>4. CASE UNCHANGED <<current, stage>>
  <2>1. \A r \in Queues \ {q} : Waiting(r)' = Waiting(r) /\ Running(r)' = Running(r)
    BY <1>1, <1>2, <1>4, OthersUnchanged
  <2>2. Waiting(q)' = Append(Waiting(q), j) /\ Running(q)' = Running(q)
    <3>1. CASE \A u \in Threads : current[u] # q
      BY <1>1, <1>2, <1>4, <3>1, AbstractView, AbstractViewNext DEF View
    <3>2. ASSUME NEW u \in Threads, current[u] = q
          PROVE  Waiting(q)' = Append(Waiting(q), j) /\ Running(q)' = Running(q)
      <4>1. Unstarted(u)' = Unstarted(u)
        BY <1>1, <1>4 DEF Unstarted
      <4>2. Unstarted(u) \in Seq(Jobs)
        BY DEF Unstarted, TypeOK, Control
      <4>3. /\ Waiting(q) = Unstarted(u) \o jobs[q]
            /\ Running(q) = IF stage[u] = "body" THEN {Head(batch[u])} ELSE {}
        BY <3>2, AbstractView DEF View
      <4>4. /\ Waiting(q)' = Unstarted(u) \o jobs'[q]
            /\ Running(q)' = IF stage[u] = "body" THEN {Head(batch[u])} ELSE {}
        BY <1>1, <1>4, <3>2, <4>1, AbstractViewNext DEF View
      <4>5. Unstarted(u) \o Append(jobs[q], j) = Append(Unstarted(u) \o jobs[q], j)
        BY <1>1, <1>2, <4>2
      <4>. QED
        BY <1>2, <4>3, <4>4, <4>5
    <3>. QED
      BY <3>1, <3>2
  <2>. QED
    BY <1>1, <2>1, <2>2, ViewStep
<1>. QED
  BY <1>1, <1>3, <1>4 DEF EnqueueJob, FirstJob, MayExecute, EnterExecute

\* The first element of a concatenation, and what follows it.
LEMMA HeadTailOfConcat ==
    ASSUME NEW S, NEW s \in Seq(S), NEW t \in Seq(S), s # <<>>
    PROVE  /\ s \o t # <<>>
           /\ Head(s \o t) = Head(s)
           /\ Tail(s \o t) = Tail(s) \o t
<1>1. Len(s) \in Nat \ {0} /\ Len(t) \in Nat
  BY EmptySeq, LenProperties
<1>2. /\ s \o t \in Seq(S) /\ Len(s \o t) = Len(s) + Len(t)
      /\ \A i \in 1..(Len(s) + Len(t)) : (s \o t)[i] = IF i <= Len(s) THEN s[i] ELSE t[i - Len(s)]
  BY ConcatProperties
<1>3. s \o t # <<>>
  BY <1>1, <1>2
<1>4. Head(s \o t) = Head(s)
  BY <1>1, <1>2, <1>3
<1>5. /\ Tail(s) \in Seq(S) /\ Len(Tail(s)) = Len(s) - 1
      /\ \A i \in 1..(Len(s) - 1) : Tail(s)[i] = s[i + 1]
  BY HeadTailProperties
<1>6. /\ Tail(s \o t) \in Seq(S) /\ Len(Tail(s \o t)) = Len(s) + Len(t) - 1
      /\ \A i \in 1..(Len(s) + Len(t) - 1) : Tail(s \o t)[i] = (s \o t)[i + 1]
  BY <1>2, <1>3, HeadTailProperties
<1>7. /\ Tail(s) \o t \in Seq(S) /\ Len(Tail(s) \o t) = Len(s) - 1 + Len(t)
      /\ \A i \in 1..(Len(s) - 1 + Len(t)) :
            (Tail(s) \o t)[i] = IF i <= Len(s) - 1 THEN Tail(s)[i] ELSE t[i - (Len(s) - 1)]
  BY <1>5, ConcatProperties
<1>8. \A i \in 1..(Len(s) + Len(t) - 1) : Tail(s \o t)[i] = (Tail(s) \o t)[i]
  BY <1>1, <1>2, <1>5, <1>6, <1>7
<1>9. Tail(s \o t) = Tail(s) \o t
  BY <1>1, <1>6, <1>7, <1>8, SeqEqual
<1>. QED
  BY <1>3, <1>4, <1>9

\* When the body of a job begins, the job leaves what is waiting and runs; when
\* it ends, it runs no more.
LEMMA BodyStartsAndFinishes ==
    ASSUME IndInv, IndInv', NEW t \in Threads, StartJob(t) \/ FinishJob(t)
    PROVE  [Abstract!Next]_Abstract!abstractVars
<1> USE DEF IndInv
<1>1. PICK q \in Queues : current[t] = q /\ current' = current /\ jobs' = jobs
  BY DEF StartJob, FinishJob, InBody, Control, TypeOK
<1>2. jobs[q] \in Seq(Jobs) /\ batch[t] \in Seq(Jobs) /\ batch[t] # <<>>
  BY <1>1 DEF TypeOK, Control, StartJob, FinishJob, InBody
<1>3. \A u \in Threads \ {t} : stage'[u] = stage[u] /\ batch'[u] = batch[u]
  BY DEF StartJob, FinishJob, TypeOK
<1>4. \A r \in Queues \ {q} : Waiting(r)' = Waiting(r) /\ Running(r)' = Running(r)
  BY <1>1, <1>3, OthersUnchanged
<1>5. /\ Waiting(q) = Unstarted(t) \o jobs[q]
      /\ Running(q) = IF stage[t] = "body" THEN {Head(batch[t])} ELSE {}
  BY <1>1, AbstractView DEF View
<1>6. /\ Waiting(q)' = Unstarted(t)' \o jobs[q]
      /\ Running(q)' = IF stage'[t] = "body" THEN {Head(batch'[t])} ELSE {}
  BY <1>1, AbstractViewNext DEF View
<1>7. CASE StartJob(t)
  <2>1. stage[t] = "loop" /\ stage'[t] = "body" /\ batch'[t] = batch[t]
    BY <1>7 DEF StartJob, TypeOK
  <2>2. Unstarted(t) = batch[t] /\ Unstarted(t)' = Tail(batch[t])
    BY <2>1 DEF Unstarted
  <2>3. /\ Head(batch[t] \o jobs[q]) = Head(batch[t])
        /\ Tail(batch[t] \o jobs[q]) = Tail(batch[t]) \o jobs[q]
        /\ batch[t] \o jobs[q] # <<>>
    BY <1>2, HeadTailOfConcat
  <2>4. /\ Running(q) = {} /\ Waiting(q) # <<>>
        /\ Running(q)' = {Head(Waiting(q))} /\ Waiting(q)' = Tail(Waiting(q))
    BY <1>5, <1>6, <2>1, <2>2, <2>3
  <2>. QED
    BY <1>4, <2>4, ViewStep
<1>8. CASE FinishJob(t)
  <2>1. stage[t] = "body" /\ stage'[t] = "loop" /\ batch'[t] = Tail(batch[t])
    BY <1>8 DEF FinishJob, InBody, TypeOK
  <2>2. Unstarted(t) = Tail(batch[t]) /\ Unstarted(t)' = Tail(batch[t])
    BY <2>1 DEF Unstarted
  <2>3. Running(q) # {} /\ Running(q)' = {} /\ Waiting(q)' = Waiting(q)
    BY <1>5, <1>6, <2>1, <2>2
  <2>. QED
    BY <1>4, <2>3, ViewStep
<1>. QED
  BY <1>7, <1>8

\* Taking a queue up, taking a batch, and leaving a queue whose batch is done
\* change nothing of what waits and runs.
LEMMA BookkeepingStutters ==
    ASSUME IndInv, IndInv', NEW t \in Threads,
           PopGlobal(t) \/ PopAll(t) \/ Return(t) \/ Continue(t) \/ HandOver(t)
    PROVE  [Abstract!Next]_Abstract!abstractVars
<1> USE DEF IndInv
<1>1. CASE PopGlobal(t)
  <2>a. Head(globalQueue) \in Queues
    BY <1>1, HeadTailProperties DEF PopGlobal, TypeOK
  <2>1. PICK q \in Queues : q = Head(globalQueue) /\ current' = [current EXCEPT ![t] = q]
    BY <1>1, <2>a DEF PopGlobal, EnterExecute
  <2>2. \A u \in Threads : current[u] # q
    BY <1>1, <2>1, InGlobalAfterPop DEF Exclusive
  <2>3. current[t] = NoQueue /\ batch[t] = <<>> /\ jobs' = jobs /\ batch' = batch
    BY <1>1 DEF PopGlobal, AtTopLevel, Control
  <2>4. /\ current'[t] = q /\ stage'[t] = "popAll"
        /\ \A u \in Threads \ {t} : current'[u] = current[u] /\ stage'[u] = stage[u]
    BY <1>1, <2>1 DEF PopGlobal, EnterExecute, TypeOK
  <2>5. \A r \in Queues \ {q} : Waiting(r)' = Waiting(r) /\ Running(r)' = Running(r)
    BY <2>3, <2>4, NoQueueIsNull, OthersUnchanged
  <2>6. Waiting(q) = jobs[q] /\ Running(q) = {}
    BY <2>2, AbstractView DEF View
  <2>7. Unstarted(t)' = <<>>
    BY <2>3, <2>4 DEF Unstarted
  <2>8. Waiting(q)' = <<>> \o jobs[q] /\ Running(q)' = {}
    BY <2>3, <2>4, <2>7, AbstractViewNext DEF View
  <2>9. Waiting(q)' = Waiting(q) /\ Running(q)' = Running(q)
    BY <2>6, <2>8, ConcatEmptySeq DEF TypeOK
  <2>. QED
    BY <2>5, <2>9, ViewStep
<1>2. CASE PopAll(t)
  <2>1. PICK q \in Queues : current[t] = q /\ current' = current
    BY <1>2 DEF PopAll, Control, TypeOK
  <2>2. /\ stage[t] = "popAll" /\ stage'[t] = "loop" /\ batch[t] = <<>> /\ batch'[t] = jobs[q]
        /\ jobs'[q] = <<>> /\ jobs[q] \in Seq(Jobs)
    BY <1>2, <2>1 DEF PopAll, Control, TypeOK
  <2>3. /\ \A r \in Queues \ {q} : jobs'[r] = jobs[r]
        /\ \A u \in Threads \ {t} : stage'[u] = stage[u] /\ batch'[u] = batch[u]
    BY <1>2, <2>1 DEF PopAll, TypeOK
  <2>4. \A r \in Queues \ {q} : Waiting(r)' = Waiting(r) /\ Running(r)' = Running(r)
    BY <2>1, <2>3, OthersUnchanged
  <2>5. Unstarted(t) = <<>> /\ Unstarted(t)' = jobs[q]
    BY <2>2 DEF Unstarted
  <2>6. Waiting(q) = <<>> \o jobs[q] /\ Running(q) = {}
    BY <2>1, <2>2, <2>5, AbstractView DEF View
  <2>7. Waiting(q)' = jobs[q] \o <<>> /\ Running(q)' = {}
    BY <2>1, <2>2, <2>5, AbstractViewNext DEF View
  <2>8. Waiting(q)' = Waiting(q) /\ Running(q)' = Running(q)
    BY <2>2, <2>6, <2>7, ConcatEmptySeq
  <2>. QED
    BY <2>4, <2>8, ViewStep
<1>3. CASE Return(t) \/ HandOver(t)
  <2>1. PICK q \in Queues : current[t] = q /\ current' = [current EXCEPT ![t] = NoQueue]
    BY <1>3 DEF Return, HandOver, SubtractBatch, LeaveExecute, Control, TypeOK
  <2>2. /\ stage[t] = "loop" /\ batch[t] = <<>> /\ jobs' = jobs /\ batch' = batch
        /\ jobs[q] \in Seq(Jobs)
    BY <1>3 DEF Return, HandOver, SubtractBatch, TypeOK
  <2>3. /\ current'[t] = NoQueue
        /\ \A u \in Threads \ {t} : current'[u] = current[u] /\ stage'[u] = stage[u]
    BY <1>3, <2>1 DEF Return, HandOver, LeaveExecute, TypeOK
  <2>4. \A r \in Queues \ {q} : Waiting(r)' = Waiting(r) /\ Running(r)' = Running(r)
    BY <2>1, <2>2, <2>3, NoQueueIsNull, OthersUnchanged
  <2>5. Unstarted(t) = <<>>
    BY <2>2 DEF Unstarted
  <2>6. Waiting(q) = <<>> \o jobs[q] /\ Running(q) = {}
    BY <2>1, <2>2, <2>5, AbstractView DEF View
  <2>7. \A u \in Threads : current'[u] # q
    BY <2>1, <2>3, NoQueueIsNull DEF Exclusive, MutualExclusion
  <2>8. Waiting(q)' = jobs[q] /\ Running(q)' = {}
    BY <2>2, <2>7, AbstractViewNext DEF View
  <2>9. Waiting(q)' = Waiting(q) /\ Running(q)' = Running(q)
    BY <2>2, <2>6, <2>8, ConcatEmptySeq
  <2>. QED
    BY <2>4, <2>9, ViewStep
<1>4. CASE Continue(t)
  <2>1. PICK q \in Queues : current[t] = q /\ current' = current
    BY <1>4 DEF Continue, SubtractBatch, Control, TypeOK
  <2>2. /\ stage[t] = "loop" /\ stage'[t] = "popAll" /\ batch[t] = <<>> /\ jobs' = jobs /\ batch' = batch
        /\ \A u \in Threads \ {t} : stage'[u] = stage[u]
    BY <1>4 DEF Continue, SubtractBatch, TypeOK
  <2>3. \A r \in Queues \ {q} : Waiting(r)' = Waiting(r) /\ Running(r)' = Running(r)
    BY <2>1, <2>2, OthersUnchanged
  <2>4. Unstarted(t) = <<>> /\ Unstarted(t)' = <<>>
    BY <2>2 DEF Unstarted
  <2>5. Waiting(q) = <<>> \o jobs[q] /\ Running(q) = {}
    BY <2>1, <2>2, <2>4, AbstractView DEF View
  <2>6. Waiting(q)' = <<>> \o jobs[q] /\ Running(q)' = {}
    BY <2>1, <2>2, <2>4, AbstractViewNext DEF View
  <2>7. Waiting(q)' = Waiting(q) /\ Running(q)' = Running(q)
    BY <2>5, <2>6
  <2>. QED
    BY <2>3, <2>7, ViewStep
<1>. QED
  BY <1>1, <1>2, <1>3, <1>4

\* A JobQueue is a serial executor: whatever Push, Execute and the GlobalQueue
\* do on however many threads, the jobs of a queue run one at a time, in the
\* order of their _jobs.Push, and each once.
THEOREM Serial == Spec => SerialExecution
<1>1. Init => Abstract!Init
  <2> SUFFICES ASSUME Init PROVE Abstract!Init
    OBVIOUS
  <2>1. \A q \in Queues : \A t \in Threads : current[t] # q
    BY NoQueueIsNull DEF Init
  <2>2. \A q \in Queues : Waiting(q) = <<>> /\ Running(q) = {}
    BY <2>1 DEF Init, Waiting, Running
  <2>. QED
    BY <2>2 DEF Abstract!Init
<1>2. IndInv /\ IndInv' /\ [Next]_vars => [Abstract!Next]_Abstract!abstractVars
  <2> SUFFICES ASSUME IndInv, IndInv', [Next]_vars
               PROVE  [Abstract!Next]_Abstract!abstractVars
    OBVIOUS
  <2>1. CASE UNCHANGED <<jobs, current, stage, batch>>
    BY <2>1 DEF Abstract!abstractVars, Waiting, Running, Unstarted
  <2>2. ASSUME NEW t \in Threads, CallPush(t) \/ PopGlobal(t) \/ Proceed(t)
        PROVE  [Abstract!Next]_Abstract!abstractVars
    <3>1. CASE CallPush(t) \/ PushGlobal(t)
      BY <2>1, <3>1 DEF CallPush, CountJob, PushGlobal
    <3>2. CASE EnqueueJob(t)
      BY <3>2, EnqueueSubmits
    <3>3. CASE StartJob(t) \/ FinishJob(t)
      BY <3>3, BodyStartsAndFinishes
    <3>4. CASE PopGlobal(t) \/ PopAll(t) \/ Return(t) \/ Continue(t) \/ HandOver(t)
      BY <3>4, BookkeepingStutters
    <3>. QED
      BY <2>2, <3>1, <3>2, <3>3, <3>4 DEF Proceed
  <2>. QED
    BY <2>1, <2>2 DEF Next, vars
<1>. QED
  BY <1>1, <1>2, Invariance, PTL DEF Spec, SerialExecution, Abstract!Spec

-----------------------------------------------------------------------------
(***************************************************************************)
(* Worker: its inductive invariant says of every job where it is.          *)
(***************************************************************************)
\* Where the items of the timer are that a thread has popped, and when a beat is
\* re-armed.
Places ==
    /\ \A t \in Threads : phase[t] # "distribute" => due[t] = <<>>
    /\ \A t \in Threads : rearmed[t] => stage[t] = "body" /\ CurrentJob(t) \in Beats

\* The threads between the exchange and the store in Distribute.
Inside(t) == phase[t] \in {"takeDue", "distribute"}
Alone ==
    /\ \A t, u \in Threads : Inside(t) /\ Inside(u) => t = u
    /\ distributing <=> \E t \in Threads : Inside(t)

\* What a thread has popped is in the order of its ticks.
DueInOrder ==
    \A t \in Threads : \A i, k \in DOMAIN due[t] : i <= k => due[t][i].tick <= due[t][k].tick

\* A job that waits for its time is in one place, and not yet in a queue.
ItemsApart ==
    /\ IsFiniteSet(timers)
    /\ \A x, y \in timers : x.job = y.job => x = y
    /\ \A t \in Threads : \A i, k \in DOMAIN due[t] : due[t][i].job = due[t][k].job => i = k
    /\ \A t \in Threads : \A i \in DOMAIN due[t] : \A x \in timers : due[t][i].job # x.job
NotYetPushed == InTimers \cap Live = {}

\* A job that was pushed is in one place: in a queue, taken, or in its Push.
OnePlace ==
    /\ \A q, r \in Queues : \A i \in DOMAIN jobs[q], k \in DOMAIN jobs[r] :
          jobs[q][i] = jobs[r][k] => q = r /\ i = k
    /\ \A t, u \in Threads : \A i \in DOMAIN batch[t], k \in DOMAIN batch[u] :
          batch[t][i] = batch[u][k] => t = u /\ i = k
    /\ \A t, u \in Threads : push[t].at = "enqueue" /\ push[u].at = "enqueue" /\ push[t].job = push[u].job => t = u
    /\ \A q \in Queues, t \in Threads : \A i \in DOMAIN jobs[q], k \in DOMAIN batch[t] : jobs[q][i] # batch[t][k]
    /\ \A q \in Queues, t \in Threads : \A i \in DOMAIN jobs[q] : push[t].at = "enqueue" => push[t].job # jobs[q][i]
    /\ \A t, u \in Threads : \A i \in DOMAIN batch[t] : push[u].at = "enqueue" => push[u].job # batch[t][i]

\* One beat is to come.
OneBeat == \E b \in Beats : PendingBeats = {b}

WorkerInv == IndInv /\ WTypeOK /\ Places /\ Alone /\ DueInOrder /\ ItemsApart /\ NotYetPushed /\ OnePlace /\ OneBeat

-----------------------------------------------------------------------------
\* The three places of a job that was pushed: in a queue, taken, in its Push.
Queued(j) == \E q \in Queues : \E i \in DOMAIN jobs[q] : jobs[q][i] = j
Taken(j) == \E t \in Threads : \E i \in DOMAIN batch[t] : batch[t][i] = j
Arriving(j) == \E t \in Threads : push[t].at = "enqueue" /\ push[t].job = j

\* Live is what is in one of them.
LEMMA WhoIsLive ==
    \A j : j \in Live <=> Queued(j) \/ Taken(j) \/ Arriving(j)
<1>1. ASSUME NEW j
      PROVE  j \in UNION {JobsIn(jobs[q]) : q \in Queues} <=> Queued(j)
  <2>1. j \in UNION {JobsIn(jobs[q]) : q \in Queues} <=> \E q \in Queues : j \in JobsIn(jobs[q])
    OBVIOUS
  <2>. QED
    BY <2>1 DEF JobsIn, Queued
<1>2. ASSUME NEW j
      PROVE  j \in UNION {JobsIn(batch[t]) : t \in Threads} <=> Taken(j)
  <2>1. j \in UNION {JobsIn(batch[t]) : t \in Threads} <=> \E t \in Threads : j \in JobsIn(batch[t])
    OBVIOUS
  <2>. QED
    BY <2>1 DEF JobsIn, Taken
<1>3. ASSUME NEW j
      PROVE  j \in {push[t].job : t \in {u \in Threads : push[u].at = "enqueue"}} <=> Arriving(j)
  BY DEF Arriving
<1>4. ASSUME NEW j
      PROVE  j \in Live <=> \/ j \in UNION {JobsIn(jobs[q]) : q \in Queues}
                           \/ j \in UNION {JobsIn(batch[t]) : t \in Threads}
                           \/ j \in {push[t].job : t \in {u \in Threads : push[u].at = "enqueue"}}
  BY DEF Live
<1>. QED
  BY <1>1, <1>2, <1>3, <1>4

\* The same in the next state.
LEMMA WhoIsLiveNext ==
    \A j : j \in Live' <=> Queued(j)' \/ Taken(j)' \/ Arriving(j)'
<1>1. ASSUME NEW j
      PROVE  j \in UNION {JobsIn(jobs'[q]) : q \in Queues} <=> Queued(j)'
  <2>1. j \in UNION {JobsIn(jobs'[q]) : q \in Queues} <=> \E q \in Queues : j \in JobsIn(jobs'[q])
    OBVIOUS
  <2>. QED
    BY <2>1 DEF JobsIn, Queued
<1>2. ASSUME NEW j
      PROVE  j \in UNION {JobsIn(batch'[t]) : t \in Threads} <=> Taken(j)'
  <2>1. j \in UNION {JobsIn(batch'[t]) : t \in Threads} <=> \E t \in Threads : j \in JobsIn(batch'[t])
    OBVIOUS
  <2>. QED
    BY <2>1 DEF JobsIn, Taken
<1>3. ASSUME NEW j
      PROVE  j \in {push'[t].job : t \in {u \in Threads : push'[u].at = "enqueue"}} <=> Arriving(j)'
  BY DEF Arriving
<1>4. ASSUME NEW j
      PROVE  j \in Live' <=> \/ j \in UNION {JobsIn(jobs'[q]) : q \in Queues}
                           \/ j \in UNION {JobsIn(batch'[t]) : t \in Threads}
                           \/ j \in {push'[t].job : t \in {u \in Threads : push'[u].at = "enqueue"}}
  BY DEF Live
<1>. QED
  BY <1>1, <1>2, <1>3, <1>4

\* Push, the increment: a new job is in its Push.
LEMMA CountJobPlaces ==
    ASSUME TypeOK, OnePlace, NEW t \in Threads, NEW q \in Queues, NEW j \in Jobs, NEW only, j \notin Live,
           CountJob(t, q, j, only)
    PROVE  OnePlace' /\ Live' = Live \cup {j}
<1>1. /\ jobs' = jobs /\ batch' = batch
      /\ push'[t].at = "enqueue" /\ push'[t].job = j /\ push[t].at # "enqueue"
      /\ \A u \in Threads : u # t => push'[u] = push[u]
  <2>1. push[t] = NoPush
    BY DEF CountJob, AtTopLevel, InBody
  <2>2. push[t].at # "enqueue"
    BY <2>1 DEF NoPush
  <2>. QED
    BY <2>2 DEF CountJob, Enqueueing, TypeOK
<1>2. /\ \A r \in Queues : \A i \in DOMAIN jobs[r] : jobs[r][i] # j
      /\ \A u \in Threads : \A i \in DOMAIN batch[u] : batch[u][i] # j
      /\ \A u \in Threads : push[u].at = "enqueue" => push[u].job # j
  BY WhoIsLive DEF Queued, Taken, Arriving
<1>3. OnePlace'
  <2>1. \A u, v \in Threads : push'[u].at = "enqueue" /\ push'[v].at = "enqueue" /\ push'[u].job = push'[v].job => u = v
    BY <1>1, <1>2 DEF OnePlace
  <2>2. \A r \in Queues, u \in Threads : \A i \in DOMAIN jobs'[r] : push'[u].at = "enqueue" => push'[u].job # jobs'[r][i]
    BY <1>1, <1>2 DEF OnePlace
  <2>3. \A u, v \in Threads : \A i \in DOMAIN batch'[u] : push'[v].at = "enqueue" => push'[v].job # batch'[u][i]
    BY <1>1, <1>2 DEF OnePlace
  <2>. QED
    BY <1>1, <2>1, <2>2, <2>3 DEF OnePlace
<1>4. ASSUME NEW x
      PROVE  x \in Live' <=> x \in Live \/ x = j
  <2>1. Queued(x)' <=> Queued(x)
    BY <1>1 DEF Queued
  <2>2. Taken(x)' <=> Taken(x)
    BY <1>1 DEF Taken
  <2>3. Arriving(x)' <=> Arriving(x) \/ x = j
    BY <1>1 DEF Arriving
  <2>. QED
    BY <2>1, <2>2, <2>3, WhoIsLive, WhoIsLiveNext
<1>. QED
  BY <1>3, <1>4

\* Push, the queueing: the job goes behind the others of its queue.
LEMMA EnqueuePlaces ==
    ASSUME TypeOK, OnePlace, NEW t \in Threads, EnqueueJob(t)
    PROVE  OnePlace' /\ Live' = Live
<1>1. PICK q \in Queues, j \in Jobs : push[t].at = "enqueue" /\ push[t].queue = q /\ push[t].job = j
  BY PushFields DEF EnqueueJob
<1>2. /\ jobs' = [jobs EXCEPT ![q] = Append(jobs[q], j)] /\ batch' = batch
      /\ push'[t].at # "enqueue"
      /\ \A u \in Threads : u # t => push'[u] = push[u]
  BY <1>1 DEF EnqueueJob, NoPush, HandingOver, TypeOK
<1>3. jobs[q] \in Seq(Jobs)
  BY DEF TypeOK
<1>4. /\ \A i \in DOMAIN jobs'[q] : \/ i \in DOMAIN jobs[q] /\ jobs'[q][i] = jobs[q][i]
                                    \/ i = Len(jobs[q]) + 1 /\ jobs'[q][i] = j
      /\ \A i \in DOMAIN jobs[q] : i \in DOMAIN jobs'[q] /\ jobs'[q][i] = jobs[q][i]
      /\ Len(jobs[q]) + 1 \in DOMAIN jobs'[q] /\ jobs'[q][Len(jobs[q]) + 1] = j
      /\ \A r \in Queues : r # q => jobs'[r] = jobs[r]
  <2>1. /\ Append(jobs[q], j) \in Seq(Jobs) /\ Len(Append(jobs[q], j)) = Len(jobs[q]) + 1
        /\ \A i \in 1..Len(jobs[q]) : Append(jobs[q], j)[i] = jobs[q][i]
        /\ Append(jobs[q], j)[Len(jobs[q]) + 1] = j
    BY <1>3, AppendProperties
  <2>2. jobs'[q] = Append(jobs[q], j) /\ \A r \in Queues : r # q => jobs'[r] = jobs[r]
    BY <1>2 DEF TypeOK
  <2>3. Len(jobs[q]) \in Nat /\ DOMAIN jobs[q] = 1..Len(jobs[q]) /\ DOMAIN Append(jobs[q], j) = 1..(Len(jobs[q]) + 1)
    BY <1>3, <2>1, LenProperties
  <2>4. ASSUME NEW i \in DOMAIN jobs'[q]
        PROVE  \/ i \in DOMAIN jobs[q] /\ jobs'[q][i] = jobs[q][i]
               \/ i = Len(jobs[q]) + 1 /\ jobs'[q][i] = j
    BY <2>1, <2>2, <2>3
  <2>5. \A i \in DOMAIN jobs[q] : i \in DOMAIN jobs'[q] /\ jobs'[q][i] = jobs[q][i]
    BY <2>1, <2>2, <2>3
  <2>6. Len(jobs[q]) + 1 \in DOMAIN jobs'[q] /\ jobs'[q][Len(jobs[q]) + 1] = j
    BY <2>1, <2>2, <2>3
  <2>. QED
    BY <2>2, <2>4, <2>5, <2>6
<1>5. /\ \A r \in Queues : \A i \in DOMAIN jobs[r] : jobs[r][i] # j
      /\ \A u \in Threads : \A i \in DOMAIN batch[u] : batch[u][i] # j
      /\ \A u \in Threads : push[u].at = "enqueue" /\ push[u].job = j => u = t
  BY <1>1 DEF OnePlace
<1>6. ASSUME NEW r \in Queues, NEW i \in DOMAIN jobs'[r]
      PROVE  \/ i \in DOMAIN jobs[r] /\ jobs'[r][i] = jobs[r][i]
             \/ r = q /\ i = Len(jobs[q]) + 1 /\ jobs'[r][i] = j
  BY <1>4
<1>7. OnePlace'
  <2>1. ASSUME NEW r \in Queues, NEW s \in Queues, NEW i \in DOMAIN jobs'[r], NEW k \in DOMAIN jobs'[s],
               jobs'[r][i] = jobs'[s][k]
        PROVE  r = s /\ i = k
    BY <1>5, <1>6, <2>1 DEF OnePlace
  <2>2. \A u, v \in Threads : push'[u].at = "enqueue" /\ push'[v].at = "enqueue" /\ push'[u].job = push'[v].job => u = v
    BY <1>2 DEF OnePlace
  <2>3. ASSUME NEW r \in Queues, NEW u \in Threads, NEW i \in DOMAIN jobs'[r]
        PROVE  /\ \A k \in DOMAIN batch'[u] : jobs'[r][i] # batch'[u][k]
               /\ push'[u].at = "enqueue" => push'[u].job # jobs'[r][i]
    BY <1>2, <1>5, <1>6 DEF OnePlace
  <2>4. \A u, v \in Threads : \A i \in DOMAIN batch'[u] : push'[v].at = "enqueue" => push'[v].job # batch'[u][i]
    BY <1>2 DEF OnePlace
  <2>. QED
    BY <1>2, <2>1, <2>2, <2>3, <2>4 DEF OnePlace
<1>8. ASSUME NEW x
      PROVE  x \in Live' <=> x \in Live
  <2>1. Queued(x)' <=> Queued(x) \/ x = j
    <3>1. ASSUME Queued(x)' PROVE Queued(x) \/ x = j
      BY <1>6, <3>1 DEF Queued
    <3>2. ASSUME Queued(x) \/ x = j PROVE Queued(x)'
      BY <1>4, <3>2 DEF Queued
    <3>. QED
      BY <3>1, <3>2
  <2>2. Taken(x)' <=> Taken(x)
    BY <1>2 DEF Taken
  <2>3. (Arriving(x)' \/ x = j) <=> Arriving(x)
    <3>1. Arriving(j)
      BY <1>1 DEF Arriving
    <3>2. ASSUME x # j PROVE Arriving(x)' <=> Arriving(x)
      BY <1>1, <1>2, <3>2 DEF Arriving
    <3>3. Arriving(x)' => Arriving(x)
      BY <1>2 DEF Arriving
    <3>. QED
      BY <3>1, <3>2, <3>3
  <2>. QED
    BY <2>1, <2>2, <2>3, WhoIsLive, WhoIsLiveNext
<1>. QED
  BY <1>7, <1>8

\* Execute, PopAll: the jobs of the queue become the thread's batch, which was empty.
LEMMA PopAllPlaces ==
    ASSUME TypeOK, Control, OnePlace, NEW t \in Threads, PopAll(t)
    PROVE  OnePlace' /\ Live' = Live
<1>1. PICK q \in Queues : current[t] = q
  BY DEF PopAll, Control, TypeOK
<1>2. batch[t] = <<>> /\ push' = push
  BY DEF PopAll, Control
<1>3. /\ batch'[t] = jobs[q] /\ jobs'[q] = <<>>
      /\ \A u \in Threads \ {t} : batch'[u] = batch[u]
      /\ \A r \in Queues \ {q} : jobs'[r] = jobs[r]
  BY <1>1 DEF PopAll, TypeOK
<1>4. \A i \in DOMAIN jobs'[q] : FALSE
  BY <1>3
<1>5. \A i \in DOMAIN batch[t] : FALSE
  BY <1>2
<1>6. OnePlace'
  <2>1. ASSUME NEW r \in Queues, NEW s \in Queues, NEW i \in DOMAIN jobs'[r], NEW k \in DOMAIN jobs'[s],
               jobs'[r][i] = jobs'[s][k]
        PROVE  r = s /\ i = k
    BY <1>3, <1>4, <2>1 DEF OnePlace
  <2>2. ASSUME NEW u \in Threads, NEW v \in Threads, NEW i \in DOMAIN batch'[u], NEW k \in DOMAIN batch'[v],
               batch'[u][i] = batch'[v][k]
        PROVE  u = v /\ i = k
    <3>1. CASE u = t /\ v = t
      BY <1>3, <2>2, <3>1 DEF OnePlace
    <3>2. CASE u = t /\ v # t
      BY <1>3, <2>2, <3>2 DEF OnePlace
    <3>3. CASE u # t /\ v = t
      BY <1>3, <2>2, <3>3 DEF OnePlace
    <3>4. CASE u # t /\ v # t
      BY <1>3, <2>2, <3>4 DEF OnePlace
    <3>. QED
      BY <3>1, <3>2, <3>3, <3>4
  <2>3. \A u, v \in Threads : push'[u].at = "enqueue" /\ push'[v].at = "enqueue" /\ push'[u].job = push'[v].job => u = v
    BY <1>2 DEF OnePlace
  <2>4. ASSUME NEW r \in Queues, NEW u \in Threads, NEW i \in DOMAIN jobs'[r], NEW k \in DOMAIN batch'[u]
        PROVE  jobs'[r][i] # batch'[u][k]
    <3>1. r # q
      BY <1>4
    <3>. QED
      BY <1>3, <3>1 DEF OnePlace
  <2>5. ASSUME NEW r \in Queues, NEW u \in Threads, NEW i \in DOMAIN jobs'[r], push'[u].at = "enqueue"
        PROVE  push'[u].job # jobs'[r][i]
    BY <1>2, <1>3, <1>4, <2>5 DEF OnePlace
  <2>6. ASSUME NEW u \in Threads, NEW v \in Threads, NEW i \in DOMAIN batch'[u], push'[v].at = "enqueue"
        PROVE  push'[v].job # batch'[u][i]
    BY <1>2, <1>3, <2>6 DEF OnePlace
  <2>. QED
    BY <2>1, <2>2, <2>3, <2>4, <2>5, <2>6 DEF OnePlace
<1>7. ASSUME NEW x
      PROVE  x \in Live' <=> x \in Live
  <2>1. Arriving(x)' <=> Arriving(x)
    BY <1>2 DEF Arriving
  <2>2. Queued(x)' => Queued(x)
    BY <1>3, <1>4 DEF Queued
  <2>3. Taken(x)' => Queued(x) \/ Taken(x)
    BY <1>3 DEF Queued, Taken
  <2>4. Queued(x) => Queued(x)' \/ Taken(x)'
    BY <1>3 DEF Queued, Taken
  <2>5. Taken(x) => Taken(x)'
    BY <1>3, <1>5 DEF Taken
  <2>. QED
    BY <2>1, <2>2, <2>3, <2>4, <2>5, WhoIsLive, WhoIsLiveNext
<1>. QED
  BY <1>6, <1>7

\* The first element of a sequence, and where the others are in its tail.
LEMMA TailPlaces ==
    ASSUME NEW S, NEW s \in Seq(S), s # <<>>
    PROVE  /\ 1 \in DOMAIN s /\ Head(s) = s[1]
           /\ Tail(s) \in Seq(S)
           /\ \A i \in DOMAIN Tail(s) : i + 1 \in DOMAIN s /\ i + 1 # 1 /\ Tail(s)[i] = s[i + 1] /\ i \in Int
           /\ \A k \in DOMAIN s : k # 1 => k - 1 \in DOMAIN Tail(s) /\ Tail(s)[k - 1] = s[k]
<1>1. Len(s) \in Nat \ {0} /\ DOMAIN s = 1..Len(s)
  BY EmptySeq, LenProperties
<1>2. /\ Tail(s) \in Seq(S) /\ Len(Tail(s)) = Len(s) - 1
      /\ \A i \in 1..(Len(s) - 1) : Tail(s)[i] = s[i + 1]
  BY HeadTailProperties
<1>3. DOMAIN Tail(s) = 1..(Len(s) - 1)
  BY <1>2, LenProperties
<1>4. Head(s) = s[1]
  BY <1>1
<1>5. \A i \in DOMAIN Tail(s) : i + 1 \in DOMAIN s /\ i + 1 # 1 /\ Tail(s)[i] = s[i + 1] /\ i \in Int
  BY <1>1, <1>2, <1>3
<1>6. \A k \in DOMAIN s : k # 1 => k - 1 \in DOMAIN Tail(s) /\ Tail(s)[k - 1] = s[k]
  BY <1>1, <1>2, <1>3
<1>. QED
  BY <1>1, <1>2, <1>4, <1>5, <1>6

\* Execute: a job that has returned is nowhere any more.
LEMMA FinishPlaces ==
    ASSUME TypeOK, Control, OnePlace, NEW t \in Threads, FinishJob(t)
    PROVE  OnePlace' /\ Live' = Live \ {CurrentJob(t)}
<1>1. /\ batch[t] \in Seq(Jobs) /\ batch[t] # <<>> /\ batch'[t] = Tail(batch[t])
      /\ \A u \in Threads \ {t} : batch'[u] = batch[u]
      /\ jobs' = jobs /\ push' = push /\ push[t] = NoPush
  BY DEF FinishJob, InBody, Control, TypeOK
<1>2. /\ 1 \in DOMAIN batch[t] /\ CurrentJob(t) = batch[t][1]
      /\ \A i \in DOMAIN batch'[t] : i + 1 \in DOMAIN batch[t] /\ i + 1 # 1 /\ batch'[t][i] = batch[t][i + 1] /\ i \in Int
      /\ \A k \in DOMAIN batch[t] : k # 1 => k - 1 \in DOMAIN batch'[t] /\ batch'[t][k - 1] = batch[t][k]
  BY <1>1, TailPlaces DEF CurrentJob
<1>3. ASSUME NEW u \in Threads, NEW i \in DOMAIN batch'[u]
      PROVE  \E k \in DOMAIN batch[u] :
                 /\ batch'[u][i] = batch[u][k]
                 /\ u = t => i \in Int
                 /\ k = IF u = t THEN i + 1 ELSE i
  BY <1>1, <1>2
<1>4. OnePlace'
  <2>1. ASSUME NEW u \in Threads, NEW v \in Threads, NEW i \in DOMAIN batch'[u], NEW k \in DOMAIN batch'[v],
               batch'[u][i] = batch'[v][k]
        PROVE  u = v /\ i = k
    <3>1. PICK a \in DOMAIN batch[u] :
                 /\ batch'[u][i] = batch[u][a]
                 /\ u = t => i \in Int
                 /\ a = IF u = t THEN i + 1 ELSE i
      BY <1>3
    <3>2. PICK b \in DOMAIN batch[v] :
                 /\ batch'[v][k] = batch[v][b]
                 /\ v = t => k \in Int
                 /\ b = IF v = t THEN k + 1 ELSE k
      BY <1>3
    <3>3. batch[u][a] = batch[v][b]
      BY <2>1, <3>1, <3>2
    <3>4. u = v /\ a = b
      BY <3>3 DEF OnePlace
    <3>. QED
      BY <3>1, <3>2, <3>4
  <2>2. ASSUME NEW r \in Queues, NEW u \in Threads, NEW i \in DOMAIN jobs'[r], NEW k \in DOMAIN batch'[u]
        PROVE  jobs'[r][i] # batch'[u][k]
    <3>1. PICK a \in DOMAIN batch[u] : batch'[u][k] = batch[u][a]
      BY <1>3
    <3>. QED
      BY <1>1, <3>1 DEF OnePlace
  <2>3. ASSUME NEW u \in Threads, NEW v \in Threads, NEW i \in DOMAIN batch'[u], push'[v].at = "enqueue"
        PROVE  push'[v].job # batch'[u][i]
    <3>1. PICK a \in DOMAIN batch[u] : batch'[u][i] = batch[u][a]
      BY <1>3
    <3>. QED
      BY <1>1, <2>3, <3>1 DEF OnePlace
  <2>. QED
    BY <1>1, <2>1, <2>2, <2>3 DEF OnePlace
<1>5. ASSUME NEW x
      PROVE  x \in Live' <=> x \in Live /\ x # CurrentJob(t)
  <2>1. Queued(x)' <=> Queued(x) /\ x # CurrentJob(t)
    BY <1>1, <1>2 DEF Queued, OnePlace
  <2>2. Arriving(x)' <=> Arriving(x) /\ x # CurrentJob(t)
    BY <1>1, <1>2 DEF Arriving, OnePlace
  <2>3. Taken(x)' => Taken(x) /\ x # CurrentJob(t)
    <3>1. ASSUME NEW u \in Threads, NEW i \in DOMAIN batch'[u], batch'[u][i] = x
          PROVE  Taken(x) /\ x # CurrentJob(t)
      <4>1. CASE u = t
        BY <1>2, <3>1, <4>1 DEF Taken, OnePlace
      <4>2. CASE u # t
        BY <1>1, <1>2, <3>1, <4>2 DEF Taken, OnePlace
      <4>. QED
        BY <4>1, <4>2
    <3>. QED
      BY <3>1 DEF Taken
  <2>4. Taken(x) /\ x # CurrentJob(t) => Taken(x)'
    <3>1. ASSUME NEW u \in Threads, NEW i \in DOMAIN batch[u], batch[u][i] = x, x # CurrentJob(t)
          PROVE  Taken(x)'
      <4>1. CASE u = t
        BY <1>2, <3>1, <4>1 DEF Taken
      <4>2. CASE u # t
        BY <1>1, <3>1, <4>2 DEF Taken
      <4>. QED
        BY <4>1, <4>2
    <3>. QED
      BY <3>1 DEF Taken
  <2>. QED
    BY <2>1, <2>2, <2>3, <2>4, WhoIsLive, WhoIsLiveNext
<1>. QED
  BY <1>4, <1>5

\* A step that moves no job leaves them where they are.
LEMMA NoJobMoves ==
    ASSUME OnePlace, UNCHANGED <<jobs, batch>>,
           \A u \in Threads : push'[u].at = "enqueue" <=> push[u].at = "enqueue",
           \A u \in Threads : push[u].at = "enqueue" => push'[u].job = push[u].job
    PROVE  OnePlace' /\ Live' = Live
<1>1. OnePlace'
  BY DEF OnePlace
<1>2. ASSUME NEW x
      PROVE  x \in Live' <=> x \in Live
  BY WhoIsLive, WhoIsLiveNext DEF Queued, Taken, Arriving
<1>. QED
  BY <1>1, <1>2

\* The two places of a job that waits for its time: in _items, or popped.
Timed(j) == \E x \in timers : x.job = j
Popped(j) == \E t \in Threads : \E i \in DOMAIN due[t] : due[t][i].job = j

\* InTimers is what is in one of them.
LEMMA WhoIsInTimers ==
    \A j : j \in InTimers <=> Timed(j) \/ Popped(j)
<1>1. ASSUME NEW j
      PROVE  j \in {x.job : x \in timers} <=> Timed(j)
  BY DEF Timed
<1>2. ASSUME NEW j
      PROVE  j \in UNION {{x.job : x \in JobsIn(due[t])} : t \in Threads} <=> Popped(j)
  <2>1. j \in UNION {{x.job : x \in JobsIn(due[t])} : t \in Threads}
           <=> \E t \in Threads : j \in {x.job : x \in JobsIn(due[t])}
    OBVIOUS
  <2>. QED
    BY <2>1 DEF JobsIn, Popped
<1>. QED
  BY <1>1, <1>2 DEF InTimers

\* The same in the next state.
LEMMA WhoIsInTimersNext ==
    \A j : j \in InTimers' <=> Timed(j)' \/ Popped(j)'
<1>1. ASSUME NEW j
      PROVE  j \in {x.job : x \in timers'} <=> Timed(j)'
  BY DEF Timed
<1>2. ASSUME NEW j
      PROVE  j \in UNION {{x.job : x \in JobsIn(due'[t])} : t \in Threads} <=> Popped(j)'
  <2>1. j \in UNION {{x.job : x \in JobsIn(due'[t])} : t \in Threads}
           <=> \E t \in Threads : j \in {x.job : x \in JobsIn(due'[t])}
    OBVIOUS
  <2>. QED
    BY <2>1 DEF JobsIn, Popped
<1>. QED
  BY <1>1, <1>2 DEF InTimers

\* A step that leaves _items and what was popped alone.
LEMMA NoItemMoves ==
    ASSUME ItemsApart, UNCHANGED <<timers, due>>
    PROVE  ItemsApart' /\ InTimers' = InTimers
BY DEF ItemsApart, InTimers

\* Reserve: a new item is in _items.
LEMMA ReserveItems ==
    ASSUME ItemsApart, NEW q, NEW j, NEW tick, j \notin InTimers,
           timers' = timers \cup {Item(q, j, tick)}, due' = due
    PROVE  ItemsApart' /\ InTimers' = InTimers \cup {j}
<1>1. ~Timed(j) /\ ~Popped(j)
  BY WhoIsInTimers
<1>2. Item(q, j, tick).job = j
  BY DEF Item
<1>3. ItemsApart'
  <2>1. IsFiniteSet(timers')
    BY FS_AddElement DEF ItemsApart
  <2>2. ASSUME NEW x \in timers', NEW y \in timers', x.job = y.job
        PROVE  x = y
    BY <1>1, <1>2, <2>2 DEF ItemsApart, Timed
  <2>3. ASSUME NEW t \in Threads, NEW i \in DOMAIN due'[t], NEW x \in timers'
        PROVE  due'[t][i].job # x.job
    BY <1>1, <1>2 DEF ItemsApart, Popped
  <2>4. \A t \in Threads : \A i, k \in DOMAIN due'[t] : due'[t][i].job = due'[t][k].job => i = k
    BY DEF ItemsApart
  <2>. QED
    BY <2>1, <2>2, <2>3, <2>4 DEF ItemsApart
<1>4. ASSUME NEW x
      PROVE  x \in InTimers' <=> x \in InTimers \/ x = j
  <2>1. Timed(x)' <=> Timed(x) \/ x = j
    BY <1>2 DEF Timed
  <2>2. Popped(x)' <=> Popped(x)
    BY DEF Popped
  <2>. QED
    BY <2>1, <2>2, WhoIsInTimers, WhoIsInTimersNext
<1>. QED
  BY <1>3, <1>4

\* The priority queue delivers every item that is due, in order.
LEMMA OrderIsComplete ==
    ASSUME NEW items, IsFiniteSet(items), NEW s \in InTickOrder(items)
    PROVE  /\ s \in Seq(items)
           /\ \A i, k \in DOMAIN s : s[i] = s[k] => i = k
           /\ \A x \in items : \E i \in DOMAIN s : s[i] = x
           /\ \A i, k \in DOMAIN s : i < k => s[i].tick <= s[k].tick
<1> DEFINE n == Cardinality(items)
<1>1. n \in Nat /\ IsFiniteSet(1..n) /\ Cardinality(1..n) = n
  BY FS_CardinalityType, FS_Interval
<1>2. /\ s \in [1..n -> items]
      /\ \A i, k \in DOMAIN s : i < k => s[i] # s[k] /\ s[i].tick <= s[k].tick
  BY DEF InTickOrder
<1> HIDE DEF n
<1>3. DOMAIN s = 1..n
  BY <1>2
<1>4. \A i, k \in DOMAIN s : s[i] = s[k] => i = k
  BY <1>1, <1>2, <1>3
<1>5. s \in Injection(1..n, items)
  BY <1>2, <1>3, <1>4 DEF Injection, IsInjective
<1>6. s \in Surjection(1..n, items)
  BY <1>1, <1>5, FS_Injection DEF n
<1>7. \A x \in items : \E i \in 1..n : s[i] = x
  BY <1>6 DEF Surjection
<1>8. s \in Seq(items)
  BY <1>1, <1>2
<1>. QED
  BY <1>2, <1>3, <1>4, <1>7, <1>8

\* Distribute, under the lock: what is due goes from _items to the thread, which
\* held nothing, in the order of the ticks.
LEMMA TakeItems ==
    ASSUME WTypeOK, Places, ItemsApart, NEW t \in Threads, NEW now, TakeDue(t, now)
    PROVE  /\ ItemsApart' /\ InTimers' = InTimers
           /\ timers' \subseteq timers
           /\ due'[t] \in Seq(timers)
           /\ \A i, k \in DOMAIN due'[t] : i < k => due'[t][i].tick <= due'[t][k].tick
           /\ \A u \in Threads \ {t} : due'[u] = due[u]
<1> DEFINE items == {x \in timers : x.tick <= now}
<1>1. /\ items \subseteq timers /\ IsFiniteSet(items)
      /\ timers' = timers \ items
      /\ due[t] = <<>>
  BY FS_Subset DEF TakeDue, Places, ItemsApart
<1>2. PICK s \in InTickOrder(items) : due' = [due EXCEPT ![t] = s]
  BY DEF TakeDue
<1> HIDE DEF items
<1>3. due'[t] = s /\ \A u \in Threads \ {t} : due'[u] = due[u]
  BY <1>2 DEF WTypeOK
<1>4. /\ s \in Seq(items)
      /\ \A i, k \in DOMAIN s : s[i] = s[k] => i = k
      /\ \A x \in items : \E i \in DOMAIN s : s[i] = x
      /\ \A i, k \in DOMAIN s : i < k => s[i].tick <= s[k].tick
  BY <1>1, OrderIsComplete
<1>5. \A i \in DOMAIN s : s[i] \in items
  BY <1>4
<1>6. s \in Seq(timers)
  BY <1>1, <1>4
<1>7. ItemsApart'
  <2>1. IsFiniteSet(timers')
    BY <1>1, FS_Subset DEF ItemsApart
  <2>2. \A x, y \in timers' : x.job = y.job => x = y
    BY <1>1 DEF ItemsApart
  <2>3. ASSUME NEW u \in Threads, NEW i \in DOMAIN due'[u], NEW k \in DOMAIN due'[u], due'[u][i].job = due'[u][k].job
        PROVE  i = k
    <3>1. CASE u = t
      BY <1>1, <1>3, <1>4, <1>5, <2>3, <3>1 DEF ItemsApart
    <3>2. CASE u # t
      BY <1>3, <2>3, <3>2 DEF ItemsApart
    <3>. QED
      BY <3>1, <3>2
  <2>4. ASSUME NEW u \in Threads, NEW i \in DOMAIN due'[u], NEW x \in timers'
        PROVE  due'[u][i].job # x.job
    <3>1. CASE u = t
      BY <1>1, <1>3, <1>5, <3>1 DEF ItemsApart
    <3>2. CASE u # t
      BY <1>1, <1>3, <3>2 DEF ItemsApart
    <3>. QED
      BY <3>1, <3>2
  <2>. QED
    BY <2>1, <2>2, <2>3, <2>4 DEF ItemsApart
<1>8. ASSUME NEW j
      PROVE  j \in InTimers' <=> j \in InTimers
  <2>1. Timed(j)' => Timed(j)
    BY <1>1 DEF Timed
  <2>2. Popped(j)' => Popped(j) \/ Timed(j)
    BY <1>1, <1>3, <1>5 DEF Popped, Timed
  <2>3. Timed(j) => Timed(j)' \/ Popped(j)'
    BY <1>1, <1>3, <1>4 DEF Popped, Timed
  <2>4. Popped(j) => Popped(j)'
    <3>1. \A i \in DOMAIN due[t] : FALSE
      BY <1>1
    <3>. QED
      BY <1>3, <3>1 DEF Popped
  <2>. QED
    BY <2>1, <2>2, <2>3, <2>4, WhoIsInTimers, WhoIsInTimersNext
<1>. QED
  BY <1>1, <1>3, <1>4, <1>6, <1>7, <1>8

\* Distribute, a Push: the item is no longer among those popped.
LEMMA PushItem ==
    ASSUME WTypeOK, Places, Alone, ItemsApart, NEW t \in Threads, phase[t] = "distribute", due[t] # <<>>,
           timers' = timers, due' = [due EXCEPT ![t] = Tail(@)]
    PROVE  /\ ItemsApart' /\ InTimers' = InTimers \ {Head(due[t]).job}
           /\ Head(due[t]).job \in InTimers
           /\ due'[t] = Tail(due[t]) /\ \A u \in Threads \ {t} : due'[u] = due[u]
<1> DEFINE Items == [owner : Queues, job : Jobs, tick : Ticks]
           h == Head(due[t]).job
<1>1. due[t] \in Seq(Items) /\ due'[t] = Tail(due[t]) /\ \A u \in Threads \ {t} : due'[u] = due[u]
  BY DEF WTypeOK
<1> HIDE DEF Items
<1>2. /\ 1 \in DOMAIN due[t] /\ h = due[t][1].job
      /\ \A i \in DOMAIN due'[t] : i + 1 \in DOMAIN due[t] /\ i + 1 # 1 /\ due'[t][i] = due[t][i + 1] /\ i \in Int
      /\ \A k \in DOMAIN due[t] : k # 1 => k - 1 \in DOMAIN due'[t] /\ due'[t][k - 1] = due[t][k]
  <2>0. due[t] # <<>>
    OBVIOUS
  <2>1. /\ 1 \in DOMAIN due[t] /\ Head(due[t]) = due[t][1]
        /\ \A i \in DOMAIN Tail(due[t]) :
              i + 1 \in DOMAIN due[t] /\ i + 1 # 1 /\ Tail(due[t])[i] = due[t][i + 1] /\ i \in Int
        /\ \A k \in DOMAIN due[t] : k # 1 => k - 1 \in DOMAIN Tail(due[t]) /\ Tail(due[t])[k - 1] = due[t][k]
    BY ONLY <1>1, <2>0, TailPlaces
  <2>. QED
    BY ONLY <1>1, <2>1
<1> HIDE DEF h
<1>3. \A u \in Threads \ {t} : due[u] = <<>>
  BY DEF Places, Alone, Inside
<1>4. \A u \in Threads \ {t} : \A i \in DOMAIN due[u] : FALSE
  BY <1>3
<1>5. ItemsApart'
  <2>1. ASSUME NEW u \in Threads, NEW i \in DOMAIN due'[u], NEW k \in DOMAIN due'[u], due'[u][i].job = due'[u][k].job
        PROVE  i = k
    <3>1. u = t
      BY <1>1, <1>4
    <3>2. i + 1 = k + 1
      BY <1>2, <2>1, <3>1 DEF ItemsApart
    <3>. QED
      BY <1>2, <3>1, <3>2
  <2>2. ASSUME NEW u \in Threads, NEW i \in DOMAIN due'[u], NEW x \in timers'
        PROVE  due'[u][i].job # x.job
    <3>1. u = t
      BY <1>1, <1>4
    <3>. QED
      BY <1>2, <3>1 DEF ItemsApart
  <2>. QED
    BY <2>1, <2>2 DEF ItemsApart
<1>6. Popped(h)
  BY <1>2 DEF Popped
<1>7. ASSUME NEW j
      PROVE  j \in InTimers' <=> j \in InTimers /\ j # h
  <2>1. Timed(j)' <=> Timed(j) /\ j # h
    BY <1>2 DEF Timed, ItemsApart
  <2>2. Popped(j)' => Popped(j) /\ j # h
    <3>1. ASSUME NEW u \in Threads, NEW i \in DOMAIN due'[u], due'[u][i].job = j
          PROVE  Popped(j) /\ j # h
      <4>1. u = t
        BY <1>1, <1>4
      <4>2. i + 1 \in DOMAIN due[t] /\ i + 1 # 1 /\ due[t][i + 1].job = j
        BY <1>2, <3>1, <4>1
      <4>3. j # h
        BY <1>2, <4>2 DEF ItemsApart
      <4>. QED
        BY <4>2, <4>3 DEF Popped
    <3>. QED
      BY <3>1 DEF Popped
  <2>3. Popped(j) /\ j # h => Popped(j)'
    <3>1. ASSUME NEW u \in Threads, NEW i \in DOMAIN due[u], due[u][i].job = j, j # h
          PROVE  Popped(j)'
      <4>1. u = t
        BY <1>4
      <4>2. i - 1 \in DOMAIN due'[t] /\ due'[t][i - 1].job = j
        BY <1>2, <3>1, <4>1
      <4>. QED
        BY <4>2 DEF Popped
    <3>. QED
      BY <3>1 DEF Popped
  <2>. QED
    BY <2>1, <2>2, <2>3, WhoIsInTimers, WhoIsInTimersNext
<1>. QED
  BY <1>1, <1>5, <1>6, <1>7, WhoIsInTimers DEF h

\* A job whose body has re-armed it.
Rearmed(j) == \E t \in Threads : stage[t] = "body" /\ rearmed[t] /\ CurrentJob(t) = j

\* PendingBeats, by where a beat is.
LEMMA WhoIsPending ==
    \A j : j \in PendingBeats <=> j \in Beats /\ (j \in Live \/ j \in InTimers) /\ ~Rearmed(j)
<1>1. ASSUME NEW j
      PROVE  j \in {CurrentJob(t) : t \in {u \in Threads : stage[u] = "body" /\ rearmed[u]}} <=> Rearmed(j)
  BY DEF Rearmed
<1>. QED
  BY <1>1 DEF PendingBeats

\* The same in the next state.
LEMMA WhoIsPendingNext ==
    \A j : j \in PendingBeats' <=> j \in Beats /\ (j \in Live' \/ j \in InTimers') /\ ~Rearmed(j)'
<1>1. ASSUME NEW j
      PROVE  j \in {CurrentJob(t)' : t \in {u \in Threads : stage'[u] = "body" /\ rearmed'[u]}} <=> Rearmed(j)'
  BY DEF Rearmed
<1>. QED
  BY <1>1 DEF PendingBeats

\* A step that no running UpdateRoom takes.
NoBeatMoves ==
    /\ rearmed' = rearmed
    /\ \A u \in Threads : rearmed[u] => stage'[u] = stage[u] /\ batch'[u] = batch[u]

\* Such a step changes nothing of who is re-armed.
LEMMA RearmedStay ==
    ASSUME Places, NoBeatMoves
    PROVE  \A j : Rearmed(j)' <=> Rearmed(j)
<1> SUFFICES ASSUME NEW j PROVE Rearmed(j)' <=> Rearmed(j)
  OBVIOUS
<1>1. ASSUME NEW u \in Threads, rearmed[u]
      PROVE  stage'[u] = stage[u] /\ CurrentJob(u)' = CurrentJob(u)
  BY <1>1 DEF NoBeatMoves, CurrentJob
<1>. QED
  BY <1>1 DEF NoBeatMoves, Rearmed

\* If besides no beat comes or goes, the beat that is to come is the same one.
LEMMA BeatStays ==
    ASSUME OneBeat, Places, NoBeatMoves,
           \A j \in Beats : (j \in Live' \/ j \in InTimers') <=> (j \in Live \/ j \in InTimers)
    PROVE  OneBeat'
<1>1. PICK b \in Beats : PendingBeats = {b}
  BY DEF OneBeat
<1>2. ASSUME NEW j
      PROVE  j \in PendingBeats' <=> j \in PendingBeats
  BY RearmedStay, WhoIsPending, WhoIsPendingNext
<1>3. PendingBeats' = {b}
  BY <1>1, <1>2
<1>. QED
  BY <1>3 DEF OneBeat

\* A step that moves no job between queues, timer and threads.
LEMMA Quiet ==
    ASSUME ItemsApart, NotYetPushed, OneBeat, Places, NoBeatMoves, Live' = Live, UNCHANGED <<timers, due>>
    PROVE  ItemsApart' /\ NotYetPushed' /\ OneBeat'
<1>1. ItemsApart' /\ InTimers' = InTimers
  BY NoItemMoves
<1>2. NotYetPushed'
  BY <1>1 DEF NotYetPushed
<1>3. \A j \in Beats : (j \in Live' \/ j \in InTimers') <=> (j \in Live \/ j \in InTimers)
  BY <1>1
<1>4. OneBeat'
  BY ONLY <1>3, OneBeat, Places, NoBeatMoves, BeatStays
<1>. QED
  BY <1>1, <1>2, <1>4

\* Where the pushed jobs and the items are, and that one beat is to come.
Kept == ItemsApart /\ NotYetPushed /\ OnePlace /\ OneBeat

\* A handler or a body pushes a job that is new and not a beat.
LEMMA DoAsyncKeeps ==
    ASSUME WorkerInv, NEW t \in Threads, DoAsync(t)
    PROVE  Kept'
<1> USE DEF WorkerInv
<1>1. PICK q \in Queues, j \in Unused \ Beats, only \in PushOnly : CountJob(t, q, j, only)
  BY DEF DoAsync
<1>2. j \in Jobs /\ j \notin Live /\ j \notin InTimers /\ j \notin Beats
  BY <1>1 DEF Unused
<1>3. OnePlace' /\ Live' = Live \cup {j}
  BY <1>1, <1>2, CountJobPlaces DEF IndInv
<1>4. ItemsApart' /\ InTimers' = InTimers
  BY NoItemMoves DEF DoAsync, workerVars
<1>5. NotYetPushed'
  BY <1>2, <1>3, <1>4 DEF NotYetPushed
<1>6. NoBeatMoves
  BY <1>1 DEF DoAsync, CountJob, workerVars, NoBeatMoves
<1>7. \A k \in Beats : (k \in Live' \/ k \in InTimers') <=> (k \in Live \/ k \in InTimers)
  BY <1>2, <1>3, <1>4
<1>8. OneBeat'
  BY <1>6, <1>7, BeatStays
<1>. QED
  BY <1>3, <1>4, <1>5, <1>8 DEF Kept

\* A body reserves a timer for a job that is new and not a beat.
LEMMA DoTimerKeeps ==
    ASSUME WorkerInv, NEW t \in Threads, DoTimer(t)
    PROVE  Kept'
<1> USE DEF WorkerInv
<1>1. PICK j \in Unused \ Beats, tick \in Ticks : timers' = timers \cup {Item(current[t], j, tick)}
  BY DEF DoTimer
<1>2. j \notin Live /\ j \notin InTimers /\ j \notin Beats
  BY <1>1 DEF Unused
<1>3. ItemsApart' /\ InTimers' = InTimers \cup {j}
  BY <1>1, <1>2, ReserveItems DEF DoTimer
<1>4. OnePlace' /\ Live' = Live
  BY NoJobMoves DEF DoTimer, vars
<1>5. NotYetPushed'
  BY <1>2, <1>3, <1>4 DEF NotYetPushed
<1>6. NoBeatMoves
  BY DEF DoTimer, vars, NoBeatMoves
<1>7. \A k \in Beats : (k \in Live' \/ k \in InTimers') <=> (k \in Live \/ k \in InTimers)
  BY <1>2, <1>3, <1>4
<1>8. OneBeat'
  BY <1>6, <1>7, BeatStays
<1>. QED
  BY <1>3, <1>4, <1>5, <1>8 DEF Kept

\* Distribute pops what is due: nothing is lost, nothing is in two places.
LEMMA TakeDueKeeps ==
    ASSUME WorkerInv, NEW t \in Threads, TakeDueNow(t)
    PROVE  Kept'
<1> USE DEF WorkerInv
<1>1. PICK now \in Ticks \cup {0} : TakeDue(t, now)
  BY DEF TakeDueNow
<1>2. ItemsApart' /\ InTimers' = InTimers
  BY <1>1, TakeItems
<1>3. OnePlace' /\ Live' = Live
  BY <1>1, NoJobMoves DEF TakeDue, vars
<1>4. NotYetPushed'
  BY <1>2, <1>3 DEF NotYetPushed
<1>5. NoBeatMoves
  BY <1>1 DEF TakeDue, vars, NoBeatMoves
<1>6. OneBeat'
  BY <1>2, <1>3, <1>5, BeatStays
<1>. QED
  BY <1>2, <1>3, <1>4, <1>6 DEF Kept

\* Distribute pushes an item: it moves from the timer to its queue.
LEMMA PushDueKeeps ==
    ASSUME WorkerInv, NEW t \in Threads, PushDue(t)
    PROVE  Kept' /\ CallPush(t)
<1> USE DEF WorkerInv
<1>1. PICK q, j : q = Head(due[t]).owner /\ j = Head(due[t]).job
  OBVIOUS
<1>2. q \in Queues /\ j \in Jobs
  <2>1. Head(due[t]) \in [owner : Queues, job : Jobs, tick : Ticks]
    BY HeadTailProperties DEF WTypeOK, PushDue
  <2>. QED
    BY <1>1, <2>1
<1>3. /\ ItemsApart' /\ InTimers' = InTimers \ {j}
      /\ j \in InTimers
  BY <1>1, PushItem DEF PushDue
<1>4. j \notin Live
  BY <1>3 DEF NotYetPushed
<1>5. CountJob(t, q, j, FALSE)
  BY <1>1 DEF PushDue
<1>6. OnePlace' /\ Live' = Live \cup {j}
  BY <1>2, <1>4, <1>5, CountJobPlaces DEF IndInv
<1>7. NotYetPushed'
  BY <1>3, <1>6 DEF NotYetPushed
<1>8. NoBeatMoves
  BY <1>5 DEF PushDue, CountJob, NoBeatMoves
<1>9. \A k \in Beats : (k \in Live' \/ k \in InTimers') <=> (k \in Live \/ k \in InTimers)
  BY <1>3, <1>6
<1>10. OneBeat'
  BY <1>8, <1>9, BeatStays
<1>11. CallPush(t)
  BY <1>2, <1>4, <1>5, PushExecutes DEF CallPush
<1>. QED
  BY <1>3, <1>6, <1>7, <1>10, <1>11 DEF Kept

\* UpdateRoom's DoTimer: the beat that runs gives way to the next one.
LEMMA RearmKeeps ==
    ASSUME WorkerInv, NEW t \in Threads, Rearm(t)
    PROVE  Kept'
<1> USE DEF WorkerInv
<1>1. PICK b \in Beats \cap Unused, tick \in Ticks : timers' = timers \cup {Item(current[t], b, tick)}
  BY DEF Rearm
<1>2. b \in Beats /\ b \notin Live /\ b \notin InTimers
  BY <1>1 DEF Unused
<1>3. ItemsApart' /\ InTimers' = InTimers \cup {b}
  BY <1>1, <1>2, ReserveItems DEF Rearm
<1>4. OnePlace' /\ Live' = Live
  BY NoJobMoves DEF Rearm, vars
<1>5. NotYetPushed'
  BY <1>2, <1>3, <1>4 DEF NotYetPushed
<1>6. /\ stage[t] = "body" /\ ~rearmed[t] /\ CurrentJob(t) \in Beats
      /\ stage' = stage /\ batch' = batch
      /\ rearmed'[t] /\ \A u \in Threads \ {t} : rearmed'[u] = rearmed[u]
  BY DEF Rearm, RunsBeat, InBody, vars, WTypeOK
<1>7. \A u \in Threads : stage[u] = "body" => 1 \in DOMAIN batch[u] /\ CurrentJob(u) = batch[u][1]
  <2> SUFFICES ASSUME NEW u \in Threads, stage[u] = "body"
               PROVE  1 \in DOMAIN batch[u] /\ CurrentJob(u) = batch[u][1]
    OBVIOUS
  <2>1. batch[u] \in Seq(Jobs) /\ batch[u] # <<>>
    BY DEF IndInv, TypeOK, Control
  <2>. QED
    BY <2>1, TailPlaces DEF CurrentJob
<1>8. \A u \in Threads : stage[u] = "body" => CurrentJob(u) \in Live
  BY <1>7, WhoIsLive DEF Taken
<1>9. \A u \in Threads : stage[u] = "body" /\ CurrentJob(u) = CurrentJob(t) => u = t
  BY <1>6, <1>7 DEF OnePlace
<1>10. PICK c : PendingBeats = {c}
  BY DEF OneBeat
<1>11. c = CurrentJob(t)
  <2>1. ~Rearmed(CurrentJob(t))
    BY <1>6, <1>9 DEF Rearmed
  <2>2. CurrentJob(t) \in PendingBeats
    BY <1>6, <1>8, <2>1, WhoIsPending
  <2>. QED
    BY <1>10, <2>2
<1>12. ASSUME NEW j
       PROVE  Rearmed(j)' <=> Rearmed(j) \/ j = c
  BY <1>6, <1>11 DEF Rearmed, CurrentJob
<1>13. ~Rearmed(b)
  BY <1>2, <1>8 DEF Rearmed
<1>14. b # c
  BY <1>2, <1>6, <1>8, <1>11
<1>15. ASSUME NEW j
       PROVE  j \in PendingBeats' <=> j = b
  <2>1. j \in PendingBeats <=> j = c
    BY <1>10
  <2>. QED
    BY <1>2, <1>3, <1>4, <1>12, <1>13, <1>14, <2>1, WhoIsPending, WhoIsPendingNext
<1>16. PendingBeats' = {b}
  BY <1>15
<1>17. OneBeat'
  BY <1>2, <1>16 DEF OneBeat
<1>. QED
  BY <1>3, <1>4, <1>5, <1>17 DEF Kept

\* A job returns.  If it is an UpdateRoom, it was re-armed, and the beat that is
\* to come is another.
LEMMA FinishKeeps ==
    ASSUME WorkerInv, NEW t \in Threads, FinishJob(t), MayReturn(t),
           rearmed' = [rearmed EXCEPT ![t] = FALSE], UNCHANGED <<timers, due>>
    PROVE  Kept'
<1> USE DEF WorkerInv
<1>1. /\ stage[t] = "body" /\ InBody(t) /\ stage'[t] = "loop"
      /\ \A u \in Threads \ {t} : stage'[u] = stage[u] /\ batch'[u] = batch[u]
      /\ ~rearmed'[t] /\ \A u \in Threads \ {t} : rearmed'[u] = rearmed[u]
  BY DEF FinishJob, InBody, WTypeOK, TypeOK
<1>2. OnePlace' /\ Live' = Live \ {CurrentJob(t)}
  BY FinishPlaces DEF IndInv
<1>3. ItemsApart' /\ InTimers' = InTimers
  BY NoItemMoves
<1>4. NotYetPushed'
  BY <1>2, <1>3 DEF NotYetPushed
<1>5. \A u \in Threads : stage[u] = "body" => 1 \in DOMAIN batch[u] /\ CurrentJob(u) = batch[u][1]
  <2> SUFFICES ASSUME NEW u \in Threads, stage[u] = "body"
               PROVE  1 \in DOMAIN batch[u] /\ CurrentJob(u) = batch[u][1]
    OBVIOUS
  <2>1. batch[u] \in Seq(Jobs) /\ batch[u] # <<>>
    BY DEF IndInv, TypeOK, Control
  <2>. QED
    BY <2>1, TailPlaces DEF CurrentJob
<1>6. CurrentJob(t) \in Live /\ CurrentJob(t) \notin InTimers
  BY <1>1, <1>5, WhoIsLive DEF Taken, NotYetPushed
<1>7. \A u \in Threads : stage[u] = "body" /\ CurrentJob(u) = CurrentJob(t) => u = t
  BY <1>1, <1>5 DEF OnePlace
<1>8. CurrentJob(t) \in Beats => Rearmed(CurrentJob(t))
  BY <1>1 DEF MayReturn, RunsBeat, Rearmed
<1>9. ASSUME NEW j
      PROVE  Rearmed(j)' <=> Rearmed(j) /\ j # CurrentJob(t)
  BY <1>1, <1>7 DEF Rearmed, CurrentJob
<1>10. PICK b \in Beats : PendingBeats = {b}
  BY DEF OneBeat
<1>11. ASSUME NEW j
       PROVE  j \in PendingBeats' <=> j \in PendingBeats
  BY <1>2, <1>3, <1>6, <1>8, <1>9, WhoIsPending, WhoIsPendingNext
<1>12. PendingBeats' = {b}
  BY <1>10, <1>11
<1>13. OneBeat'
  BY <1>12 DEF OneBeat
<1>. QED
  BY <1>2, <1>3, <1>4, <1>13 DEF Kept

\* The other steps inside Push and Execute, and the taking of a queue.
LEMMA QueueStepKeeps ==
    ASSUME WorkerInv, NEW t \in Threads, UNCHANGED workerVars,
           \/ EnqueueJob(t) \/ PushGlobal(t) \/ PopAll(t) \/ StartJob(t)
           \/ Return(t) \/ Continue(t) \/ HandOver(t) \/ PopGlobal(t)
    PROVE  Kept'
<1> USE DEF WorkerInv
<1>1. NoBeatMoves
  <2>1. rearmed[t] => stage[t] = "body" /\ current[t] # NoQueue
    BY DEF Places, IndInv, Control
  <2>2. \A u \in Threads \ {t} : stage'[u] = stage[u] /\ batch'[u] = batch[u]
    BY DEF IndInv, TypeOK, EnqueueJob, EnterExecute, PushGlobal, PopAll, StartJob, Return, Continue, HandOver,
           SubtractBatch, LeaveExecute, PopGlobal
  <2>3. rearmed[t] => EnqueueJob(t) \/ PushGlobal(t)
    BY <2>1 DEF PopAll, StartJob, Return, Continue, HandOver, SubtractBatch, PopGlobal, AtTopLevel
  <2>4. rearmed[t] => stage'[t] = stage[t] /\ batch'[t] = batch[t]
    BY <2>1, <2>3 DEF EnqueueJob, MayExecute, PushGlobal
  <2>. QED
    BY <2>2, <2>4 DEF NoBeatMoves, workerVars
<1>2. OnePlace' /\ Live' = Live
  <2>1. CASE EnqueueJob(t)
    BY <2>1, EnqueuePlaces DEF IndInv
  <2>2. CASE PopAll(t)
    BY <2>2, PopAllPlaces DEF IndInv
  <2>3. CASE StartJob(t) \/ Return(t) \/ Continue(t) \/ PopGlobal(t)
    BY <2>3, NoJobMoves DEF StartJob, Return, Continue, SubtractBatch, PopGlobal
  <2>4. CASE PushGlobal(t) \/ HandOver(t)
    <3>1. /\ push[t].at # "enqueue" /\ push'[t].at # "enqueue"
          /\ \A u \in Threads \ {t} : push'[u] = push[u]
      <4>1. CASE PushGlobal(t)
        BY <4>1 DEF PushGlobal, NoPush, IndInv, TypeOK
      <4>2. CASE HandOver(t)
        <5>1. push[t] = NoPush
          BY <4>2 DEF HandOver, SubtractBatch, IndInv, Control
        <5>. QED
          BY <4>2, <5>1 DEF HandOver, HandingOver, NoPush, IndInv, TypeOK
      <4>. QED
        BY <2>4, <4>1, <4>2
    <3>2. UNCHANGED <<jobs, batch>>
      BY <2>4 DEF PushGlobal, HandOver, SubtractBatch
    <3>. QED
      BY <3>1, <3>2, NoJobMoves
  <2>. QED
    BY <2>1, <2>2, <2>3, <2>4
<1>3. UNCHANGED <<timers, due>>
  BY DEF workerVars
<1>. QED
  BY <1>1, <1>2, <1>3, Quiet DEF Kept

\* The steps of DoWorkerJob and Distribute that only move a thread on.
LEMMA LoopStepKeeps ==
    ASSUME WorkerInv, UNCHANGED <<vars, timers, due, rearmed>>
    PROVE  Kept'
<1> USE DEF WorkerInv
<1>1. NoBeatMoves
  BY DEF NoBeatMoves, vars
<1>2. OnePlace' /\ Live' = Live
  BY NoJobMoves DEF vars
<1>. QED
  BY <1>1, <1>2, Quiet DEF Kept

\* The loop uses JobQueue only as Next allows: it pushes jobs that are in no
\* queue, and takes queues from the GlobalQueue at the top of its loop.
LEMMA StepDrives ==
    ASSUME WorkerInv, [WNext]_allVars
    PROVE  [Next]_vars
<1>1. CASE UNCHANGED allVars
  BY <1>1 DEF allVars
<1>2. ASSUME NEW t \in Threads, DoAsync(t) \/ DoTimer(t) \/ Expire(t) \/ WorkerStep(t)
      PROVE  [Next]_vars
  <2>1. CASE DoAsync(t)
    BY <2>1 DEF DoAsync, Unused, CallPush, Next
  <2>2. CASE PushDue(t)
    BY <2>2, PushDueKeeps DEF Next
  <2>3. CASE TakeGlobal(t)
    BY <2>3 DEF TakeGlobal, Next
  <2>4. CASE InsideQueue(t)
    BY <2>4 DEF InsideQueue, Proceed, Next
  <2>5. CASE DoTimer(t) \/ Expire(t) \/ EndDispatch(t) \/ TryDistribute(t) \/ TakeDueNow(t)
               \/ EndDistribute(t) \/ NextIteration(t) \/ Rearm(t)
    BY <2>5 DEF DoTimer, Expire, EndDispatch, TryDistribute, TakeDueNow, TakeDue, EndDistribute, NextIteration, Rearm
  <2>. QED
    BY <1>2, <2>1, <2>2, <2>3, <2>4, <2>5 DEF WorkerStep
<1>. QED
  BY <1>1, <1>2 DEF WNext

\* Nothing is lost and nothing is in two places, whatever the step.
LEMMA StepKeeps ==
    ASSUME WorkerInv, [WNext]_allVars
    PROVE  Kept'
<1>1. CASE UNCHANGED allVars
  BY <1>1, LoopStepKeeps DEF allVars, workerVars
<1>2. ASSUME NEW t \in Threads, DoAsync(t) \/ DoTimer(t) \/ Expire(t) \/ WorkerStep(t)
      PROVE  Kept'
  <2>1. CASE DoAsync(t) \/ DoTimer(t) \/ TakeDueNow(t) \/ PushDue(t) \/ Rearm(t)
    BY <2>1, DoAsyncKeeps, DoTimerKeeps, TakeDueKeeps, PushDueKeeps, RearmKeeps
  <2>2. CASE Expire(t) \/ EndDispatch(t) \/ TryDistribute(t) \/ EndDistribute(t) \/ NextIteration(t)
    BY <2>2, LoopStepKeeps DEF Expire, EndDispatch, TryDistribute, EndDistribute, NextIteration
  <2>3. CASE TakeGlobal(t)
    BY <2>3, QueueStepKeeps DEF TakeGlobal
  <2>4. CASE InsideQueue(t)
    <3>1. CASE FinishJob(t) /\ MayReturn(t) /\ rearmed' = [rearmed EXCEPT ![t] = FALSE] /\ UNCHANGED <<timers, due>>
      BY <3>1, FinishKeeps
    <3>2. CASE /\ \/ EnqueueJob(t) \/ PushGlobal(t) \/ PopAll(t) \/ StartJob(t)
                  \/ Return(t) \/ HandOver(t) \/ Continue(t)
               /\ UNCHANGED workerVars
      BY <3>2, QueueStepKeeps
    <3>. QED
      BY <2>4, <3>1, <3>2 DEF InsideQueue
  <2>. QED
    BY <1>2, <2>1, <2>2, <2>3, <2>4 DEF WorkerStep
<1>. QED
  BY <1>1, <1>2 DEF WNext

\* The variables of the loop keep their types.
LEMMA StepKeepsTypes ==
    ASSUME WorkerInv, TypeOK', [WNext]_allVars
    PROVE  WTypeOK'
<1> DEFINE Items == [owner : Queues, job : Jobs, tick : Ticks]
<1>1. /\ phase \in [Threads -> Phases] /\ late \in [Threads -> BOOLEAN] /\ rearmed \in [Threads -> BOOLEAN]
      /\ distributing \in BOOLEAN /\ timers \subseteq Items /\ due \in [Threads -> Seq(Items)]
  BY DEF WorkerInv, WTypeOK
<1>2. \A q \in Queues, j \in Jobs, tick \in Ticks : Item(q, j, tick) \in Items
  BY DEF Item
<1> HIDE DEF Items
<1>3. CASE UNCHANGED allVars
  BY <1>1, <1>3 DEF allVars, workerVars, WTypeOK, Items
<1>4. ASSUME NEW t \in Threads, DoAsync(t) \/ DoTimer(t) \/ Expire(t) \/ WorkerStep(t)
      PROVE  WTypeOK'
  <2>1. CASE UNCHANGED workerVars
    BY <1>1, <2>1 DEF workerVars, WTypeOK, Items
  <2>2. CASE DoTimer(t) \/ Rearm(t)
    <3>1. current[t] \in Queues
      BY <2>2 DEF DoTimer, Rearm, RunsBeat, InBody, WorkerInv, IndInv, TypeOK, Control
    <3>2. timers' \subseteq Items
      BY <1>1, <1>2, <2>2, <3>1, BeatsAreJobs DEF DoTimer, Rearm, Unused
    <3>3. rearmed' \in [Threads -> BOOLEAN] /\ UNCHANGED <<phase, late, due, distributing>>
      BY <1>1, <2>2 DEF DoTimer, Rearm
    <3>. QED
      BY <1>1, <3>2, <3>3 DEF WTypeOK, Items
  <2>3. CASE TakeDueNow(t)
    <3>1. PICK now \in Ticks \cup {0} : TakeDue(t, now)
      BY <2>3 DEF TakeDueNow
    <3>2. /\ timers' \subseteq timers /\ due'[t] \in Seq(timers)
          /\ \A u \in Threads \ {t} : due'[u] = due[u]
      BY <3>1, TakeItems DEF WorkerInv
    <3>3. due'[t] \in Seq(Items)
      BY <1>1, <3>2
    <3>4. due' \in [Threads -> Seq(Items)]
      <4>1. PICK s : due' = [due EXCEPT ![t] = s]
        BY <3>1 DEF TakeDue
      <4>. QED
        BY <1>1, <3>3, <4>1
    <3>5. phase' \in [Threads -> Phases] /\ UNCHANGED <<late, distributing, rearmed>>
      BY <1>1, <3>1 DEF TakeDue, Phases
    <3>. QED
      BY <1>1, <3>2, <3>4, <3>5 DEF WTypeOK, Items
  <2>4. CASE PushDue(t)
    <3>1. Tail(due[t]) \in Seq(Items)
      BY <1>1, <2>4, HeadTailProperties DEF PushDue
    <3>2. due' \in [Threads -> Seq(Items)]
      BY <1>1, <2>4, <3>1 DEF PushDue
    <3>. QED
      BY <1>1, <2>4, <3>2 DEF PushDue, WTypeOK, Items
  <2>5. CASE FinishJob(t) /\ rearmed' = [rearmed EXCEPT ![t] = FALSE] /\ UNCHANGED <<phase, late, timers, due, distributing>>
    BY <1>1, <2>5 DEF WTypeOK, Items
  <2>6. CASE Expire(t) \/ EndDispatch(t) \/ TryDistribute(t) \/ EndDistribute(t) \/ NextIteration(t)
    BY <1>1, <2>6 DEF Expire, EndDispatch, TryDistribute, EndDistribute, NextIteration, WTypeOK, Items, Phases
  <2>. QED
    BY <1>4, <2>1, <2>2, <2>3, <2>4, <2>5, <2>6 DEF WorkerStep, InsideQueue, DoAsync, TakeGlobal
<1>. QED
  BY <1>3, <1>4 DEF WNext

\* Whoever holds popped items is in Distribute, and a re-armed beat runs.
LEMMA StepKeepsPlaces ==
    ASSUME WorkerInv, [WNext]_allVars
    PROVE  Places'
<1> USE DEF WorkerInv
<1>1. CASE UNCHANGED allVars
  BY <1>1 DEF allVars, vars, workerVars, Places, CurrentJob
<1>2. ASSUME NEW t \in Threads, DoAsync(t) \/ DoTimer(t) \/ Expire(t) \/ WorkerStep(t)
      PROVE  Places'
  <2>1. \A u \in Threads : phase'[u] # "distribute" => due'[u] = <<>>
    <3>1. \A u \in Threads \ {t} : phase'[u] = phase[u] /\ due'[u] = due[u]
      BY <1>2 DEF WTypeOK, WorkerStep, DoAsync, DoTimer, Expire, EndDispatch, TryDistribute, TakeDueNow, TakeDue, PushDue,
             EndDistribute, TakeGlobal, NextIteration, Rearm, InsideQueue, workerVars
    <3>2. phase'[t] # "distribute" => due'[t] = <<>>
      <4>1. CASE TakeDueNow(t) \/ PushDue(t)
        BY <4>1 DEF TakeDueNow, TakeDue, PushDue, WTypeOK
      <4>2. CASE EndDispatch(t) \/ TryDistribute(t) \/ EndDistribute(t) \/ NextIteration(t)
        BY <4>2 DEF EndDispatch, TryDistribute, EndDistribute, NextIteration, WTypeOK, Places
      <4>3. CASE DoAsync(t) \/ DoTimer(t) \/ Expire(t) \/ TakeGlobal(t) \/ Rearm(t) \/ InsideQueue(t)
        BY <4>3 DEF DoAsync, DoTimer, Expire, TakeGlobal, Rearm, InsideQueue, workerVars, Places
      <4>. QED
        BY <1>2, <4>1, <4>2, <4>3 DEF WorkerStep
    <3>. QED
      BY <3>1, <3>2 DEF Places
  <2>2. \A u \in Threads \ {t} : stage'[u] = stage[u] /\ batch'[u] = batch[u] /\ rearmed'[u] = rearmed[u]
    <3>1. \A u \in Threads \ {t} : rearmed'[u] = rearmed[u]
      BY <1>2 DEF WTypeOK, WorkerStep, DoAsync, DoTimer, Expire, EndDispatch, TryDistribute, TakeDueNow, TakeDue, PushDue,
             EndDistribute, TakeGlobal, NextIteration, Rearm, InsideQueue, workerVars
    <3>2. \A u \in Threads \ {t} : stage'[u] = stage[u] /\ batch'[u] = batch[u]
      <4>1. CASE \/ InsideQueue(t) \/ TakeGlobal(t)
        BY <4>1 DEF IndInv, TypeOK, InsideQueue, TakeGlobal, EnqueueJob, EnterExecute, PushGlobal, PopAll, StartJob,
               FinishJob, Return, Continue, HandOver, SubtractBatch, LeaveExecute, PopGlobal
      <4>2. CASE DoAsync(t) \/ PushDue(t)
        BY <4>2 DEF DoAsync, PushDue, CountJob
      <4>. QED
        BY <1>2, <4>1, <4>2 DEF vars, WorkerStep, DoTimer, Expire, EndDispatch, TryDistribute, TakeDueNow, TakeDue,
               EndDistribute, NextIteration, Rearm
    <3>. QED
      BY <3>1, <3>2
  <2>3. rearmed'[t] => stage'[t] = "body" /\ CurrentJob(t)' \in Beats
    <3>1. CASE Rearm(t)
      BY <3>1 DEF Rearm, RunsBeat, InBody, vars, CurrentJob
    <3>2. CASE FinishJob(t) /\ rearmed' = [rearmed EXCEPT ![t] = FALSE]
      BY <3>2 DEF WTypeOK
    <3>3. CASE DoAsync(t) \/ PushDue(t)
      BY <3>3 DEF DoAsync, PushDue, CountJob, workerVars, Places, CurrentJob
    <3>4. CASE /\ \/ EnqueueJob(t) \/ PushGlobal(t) \/ PopAll(t) \/ StartJob(t)
                  \/ Return(t) \/ Continue(t) \/ HandOver(t) \/ PopGlobal(t)
               /\ UNCHANGED workerVars
      <4> SUFFICES ASSUME rearmed[t] PROVE stage'[t] = "body" /\ CurrentJob(t)' \in Beats
        BY <3>4 DEF workerVars
      <4>1. stage[t] = "body" /\ CurrentJob(t) \in Beats /\ current[t] # NoQueue
        BY DEF Places, IndInv, Control
      <4>2. EnqueueJob(t) \/ PushGlobal(t)
        BY <3>4, <4>1 DEF PopAll, StartJob, Return, Continue, HandOver, SubtractBatch, PopGlobal, AtTopLevel
      <4>3. stage'[t] = stage[t] /\ batch'[t] = batch[t]
        BY <4>1, <4>2 DEF EnqueueJob, MayExecute, PushGlobal
      <4>. QED
        BY <4>1, <4>3 DEF CurrentJob
    <3>5. CASE UNCHANGED <<vars, rearmed>>
      BY <3>5 DEF vars, Places, CurrentJob
    <3>. QED
      BY <1>2, <3>1, <3>2, <3>3, <3>4, <3>5 DEF WorkerStep, DoTimer, Expire, EndDispatch, TryDistribute, TakeDueNow, TakeDue,
             EndDistribute, NextIteration, TakeGlobal, InsideQueue
  <2>. QED
    BY <2>1, <2>2, <2>3 DEF Places, CurrentJob
<1>. QED
  BY <1>1, <1>2 DEF WNext

\* _distributing lets one thread into Distribute.
LEMMA StepKeepsAlone ==
    ASSUME WorkerInv, [WNext]_allVars
    PROVE  Alone'
<1> USE DEF WorkerInv
<1>1. CASE UNCHANGED <<phase, distributing>>
  BY <1>1 DEF Alone, Inside
<1>2. ASSUME NEW t \in Threads, DoAsync(t) \/ DoTimer(t) \/ Expire(t) \/ WorkerStep(t)
      PROVE  Alone'
  <2>1. CASE TryDistribute(t) /\ distributing
    <3>1. distributing' = TRUE /\ \A u \in Threads : Inside(u)' <=> Inside(u)
      BY <2>1 DEF TryDistribute, Inside, WTypeOK
    <3>. QED
      BY <2>1, <3>1 DEF Alone
  <2>2. CASE TryDistribute(t) /\ ~distributing
    <3>1. distributing' = TRUE /\ \A u \in Threads : Inside(u)' <=> u = t
      BY <2>2 DEF TryDistribute, Alone, Inside, WTypeOK
    <3>. QED
      BY <3>1 DEF Alone
  <2>3. CASE EndDistribute(t)
    <3>1. distributing' = FALSE /\ \A u \in Threads : ~Inside(u)'
      BY <2>3 DEF EndDistribute, Alone, Inside, WTypeOK
    <3>. QED
      BY <3>1 DEF Alone
  <2>4. CASE EndDispatch(t) \/ TakeDueNow(t) \/ NextIteration(t)
    <3>1. distributing' = distributing /\ \A u \in Threads : Inside(u)' <=> Inside(u)
      BY <2>4 DEF EndDispatch, TakeDueNow, TakeDue, NextIteration, Inside, WTypeOK
    <3>. QED
      BY <3>1 DEF Alone
  <2>5. CASE DoAsync(t) \/ DoTimer(t) \/ Expire(t) \/ PushDue(t) \/ TakeGlobal(t) \/ Rearm(t) \/ InsideQueue(t)
    BY <1>1, <2>5 DEF DoAsync, DoTimer, Expire, PushDue, TakeGlobal, Rearm, InsideQueue, workerVars
  <2>. QED
    BY <1>2, <2>1, <2>2, <2>3, <2>4, <2>5 DEF WorkerStep
<1>. QED
  BY <1>1, <1>2 DEF WNext, allVars, workerVars

\* What was popped stays in the order of its ticks.
LEMMA StepKeepsOrder ==
    ASSUME WorkerInv, [WNext]_allVars
    PROVE  DueInOrder'
<1> USE DEF WorkerInv
<1>1. CASE UNCHANGED due
  BY <1>1 DEF DueInOrder
<1>2. ASSUME NEW t \in Threads, DoAsync(t) \/ DoTimer(t) \/ Expire(t) \/ WorkerStep(t)
      PROVE  DueInOrder'
  <2>1. CASE TakeDueNow(t)
    <3>1. PICK now \in Ticks \cup {0} : TakeDue(t, now)
      BY <2>1 DEF TakeDueNow
    <3>2. /\ due'[t] \in Seq(timers)
          /\ \A i, k \in DOMAIN due'[t] : i < k => due'[t][i].tick <= due'[t][k].tick
          /\ \A u \in Threads \ {t} : due'[u] = due[u]
      BY <3>1, TakeItems
    <3>3. ASSUME NEW i \in DOMAIN due'[t], NEW k \in DOMAIN due'[t], i <= k
          PROVE  due'[t][i].tick <= due'[t][k].tick
      <4>1. i \in Int /\ k \in Int /\ due'[t][i] \in timers
        BY <3>2
      <4>2. due'[t][i].tick \in Nat
        BY <4>1, TicksAreNumbers DEF WTypeOK
      <4>. QED
        BY <3>2, <3>3, <4>1, <4>2
    <3>. QED
      BY <3>2, <3>3 DEF DueInOrder
  <2>2. CASE PushDue(t)
    <3>1. due[t] \in Seq([owner : Queues, job : Jobs, tick : Ticks]) /\ due[t] # <<>>
      BY <2>2 DEF PushDue, WTypeOK
    <3>2. due'[t] = Tail(due[t]) /\ \A u \in Threads \ {t} : due'[u] = due[u]
      BY <2>2 DEF PushDue, WTypeOK
    <3>3. \A i \in DOMAIN Tail(due[t]) : i + 1 \in DOMAIN due[t] /\ Tail(due[t])[i] = due[t][i + 1] /\ i \in Int
      BY ONLY <3>1, TailPlaces
    <3>4. ASSUME NEW i \in DOMAIN due'[t], NEW k \in DOMAIN due'[t], i <= k
          PROVE  due'[t][i].tick <= due'[t][k].tick
      <4>1. i + 1 <= k + 1
        BY <3>2, <3>3, <3>4
      <4>. QED
        BY <3>2, <3>3, <4>1 DEF DueInOrder
    <3>. QED
      BY <3>2, <3>4 DEF DueInOrder
  <2>3. CASE UNCHANGED due
    BY <1>1, <2>3
  <2>. QED
    BY <1>2, <2>1, <2>2, <2>3 DEF WorkerStep, DoAsync, DoTimer, Expire, EndDispatch, TryDistribute,
           EndDistribute, TakeGlobal, NextIteration, Rearm, InsideQueue, workerVars
<1>. QED
  BY <1>1, <1>2 DEF WNext, allVars, workerVars

\* The workers start with UpdateRoom's first timer in _items and nothing else.
LEMMA WInitInvariant == WInit => WorkerInv
<1> SUFFICES ASSUME WInit PROVE WorkerInv
  OBVIOUS
<1>1. IndInv
  BY InitInvariant DEF WInit
<1>2. PICK b \in Beats, tick \in Ticks : timers = {Item(Room, b, tick)}
  BY DEF WInit
<1>3. Item(Room, b, tick) \in [owner : Queues, job : Jobs, tick : Ticks] /\ Item(Room, b, tick).job = b
  BY RoomIsQueue, BeatsAreJobs DEF Item
<1>4. /\ \A t \in Threads : due[t] = <<>> /\ batch[t] = <<>> /\ push[t].at # "enqueue" /\ ~rearmed[t] /\ ~Inside(t)
      /\ \A q \in Queues : jobs[q] = <<>>
      /\ ~distributing
  BY DEF WInit, Init, NoPush, Inside
<1>5. /\ \A t \in Threads : \A i \in DOMAIN due[t] : FALSE
      /\ \A t \in Threads : \A i \in DOMAIN batch[t] : FALSE
      /\ \A q \in Queues : \A i \in DOMAIN jobs[q] : FALSE
  BY <1>4
<1>6. WTypeOK
  <2>1. due \in [Threads -> Seq([owner : Queues, job : Jobs, tick : Ticks])]
    BY DEF WInit
  <2>2. timers \subseteq [owner : Queues, job : Jobs, tick : Ticks]
    BY <1>2, <1>3
  <2>3. TypeOK
    BY <1>1 DEF IndInv
  <2>4. phase \in [Threads -> Phases] /\ late \in [Threads -> BOOLEAN] /\ rearmed \in [Threads -> BOOLEAN]
        /\ distributing \in BOOLEAN
    BY DEF WInit, Phases
  <2>. QED
    BY <2>1, <2>2, <2>3, <2>4 DEF WTypeOK
<1>7. Places /\ Alone /\ DueInOrder
  BY <1>4, <1>5 DEF Places, Alone, DueInOrder
<1>8. ItemsApart
  BY <1>2, <1>5, FS_Singleton DEF ItemsApart
<1>9. \A j : j \notin Live
  BY <1>4, <1>5, WhoIsLive DEF Queued, Taken, Arriving
<1>10. \A j : j \in InTimers <=> j = b
  BY <1>2, <1>3, <1>5, WhoIsInTimers DEF Timed, Popped
<1>11. NotYetPushed
  BY <1>9 DEF NotYetPushed
<1>12. OnePlace
  BY <1>4, <1>5 DEF OnePlace
<1>13. OneBeat
  <2>1. \A j : ~Rearmed(j)
    BY <1>4 DEF Rearmed
  <2>2. \A j : j \in PendingBeats <=> j = b
    BY <1>9, <1>10, <2>1, WhoIsPending
  <2>3. PendingBeats = {b}
    BY <2>2
  <2>. QED
    BY <2>3 DEF OneBeat
<1>. QED
  BY <1>1, <1>6, <1>7, <1>8, <1>11, <1>12, <1>13 DEF WorkerInv

\* WorkerInv is inductive.
LEMMA WStepInvariant == WorkerInv /\ [WNext]_allVars => WorkerInv'
<1> SUFFICES ASSUME WorkerInv, [WNext]_allVars PROVE WorkerInv'
  OBVIOUS
<1>1. IndInv'
  BY StepDrives, StepPreservesInvariant DEF WorkerInv
<1>2. WTypeOK'
  BY <1>1, StepKeepsTypes DEF IndInv
<1>. QED
  BY <1>1, <1>2, StepKeeps, StepKeepsPlaces, StepKeepsAlone, StepKeepsOrder DEF WorkerInv, Kept

\* Of the loop: where every job is, from its DoAsync or DoTimer to its end.
THEOREM WorkerInvariance == WSpec => []WorkerInv
BY WInitInvariant, WStepInvariant, PTL DEF WSpec

\* Whatever the workers do, they use a JobQueue as JobQueue.tla has it: what is
\* proved of JobQueue holds of the server's loop (DoWorkerJob, Distribute).
THEOREM TheLoopDrives == WSpec => DrivesJobQueue
<1>1. WInit => Init
  BY DEF WInit
<1>2. WorkerInv /\ [WNext]_allVars => [Next]_vars
  BY StepDrives
<1>. QED
  BY <1>1, <1>2, WorkerInvariance, PTL DEF WSpec, Spec, DrivesJobQueue

\* UpdateRoom neither stops nor doubles: between one DoTimer and the next there
\* is exactly one beat, in _items, popped, in Push, in a queue or running.
THEOREM RoomBeatsOnce == WSpec => []OneHeartbeat
<1>1. WorkerInv => OneHeartbeat
  BY FS_Singleton DEF WorkerInv, OneBeat, OneHeartbeat
<1>. QED
  BY <1>1, WorkerInvariance, PTL

\* The exchange of _distributing lets one thread pass, and the flag is set as
\* long as that thread is inside.
THEOREM OnePasses == WSpec => []OneDistributor
<1>1. WorkerInv => OneDistributor
  <2> SUFFICES ASSUME WorkerInv PROVE OneDistributor
    OBVIOUS
  <2> DEFINE D == {t \in Threads : phase[t] \in {"takeDue", "distribute"}}
  <2>1. CASE distributing
    <3>1. PICK t \in Threads : Inside(t)
      BY <2>1 DEF WorkerInv, Alone
    <3>2. D = {t}
      BY <3>1 DEF WorkerInv, Alone, Inside
    <3>3. Cardinality(D) = 1
      BY <3>2, FS_Singleton
    <3>. QED
      BY <2>1, <3>3 DEF OneDistributor
  <2>2. CASE ~distributing
    <3>1. D = {}
      BY <2>2 DEF WorkerInv, Alone, Inside
    <3>2. Cardinality(D) = 0
      BY <3>1, FS_EmptySet
    <3>. QED
      BY <2>2, <3>2 DEF OneDistributor
  <2>. QED
    BY <2>1, <2>2
<1>. QED
  BY <1>1, WorkerInvariance, PTL

\* Distribute pushes the timer jobs of a queue in the order of their ticks,
\* although the Pushes happen after the lock on _items is released.
THEOREM TicksKeepOrder == WSpec => TimersInOrder
<1> DEFINE Step == \A t \in Threads : PushDue(t) =>
          \A u \in Threads : \A x \in JobsIn(due[u]) :
              x.owner = Head(due[t]).owner => Head(due[t]).tick <= x.tick
<1>1. WorkerInv => Step
  <2> SUFFICES ASSUME WorkerInv, NEW t \in Threads, PushDue(t), NEW u \in Threads, NEW x \in JobsIn(due[u])
               PROVE  Head(due[t]).tick <= x.tick
    OBVIOUS
  <2>1. PICK i \in DOMAIN due[u] : x = due[u][i]
    BY DEF JobsIn
  <2>2. due[u] # <<>>
    <3>1. ASSUME due[u] = <<>> PROVE FALSE
      BY <3>1
    <3>. QED
      BY <3>1
  <2>3. u = t
    BY <2>2 DEF WorkerInv, Places, Alone, Inside, PushDue
  <2>4. due[t] \in Seq([owner : Queues, job : Jobs, tick : Ticks]) /\ due[t] # <<>>
    BY <2>2, <2>3 DEF WorkerInv, WTypeOK
  <2>5. 1 \in DOMAIN due[t] /\ Head(due[t]) = due[t][1]
    BY <2>4, TailPlaces
  <2>6. 1 <= i
    BY <2>1, <2>3, <2>4, LenProperties
  <2>. QED
    BY <2>1, <2>3, <2>5, <2>6 DEF WorkerInv, DueInOrder
<1>2. WorkerInv /\ [WNext]_allVars => [Step]_allVars
  BY <1>1
<1>. QED
  BY <1>2, WorkerInvariance, PTL DEF WSpec, TimersInOrder

\* So in the loop, too, the jobs of a queue run one at a time, in the order of
\* their _jobs.Push, and each once: timers, packets and jobs are serialised.
THEOREM TheLoopSerializes == WSpec => SerialExecution
BY TheLoopDrives, Serial DEF DrivesJobQueue
=============================================================================
