---------------------------- MODULE SerialExecutor ----------------------------
(***************************************************************************)
(* What a JobQueue promises to the rest of the server: every queue is a    *)
(* serial executor.  A submitted job waits behind the jobs submitted to    *)
(* the same queue before it, starts when it is the oldest one and no other *)
(* job of the queue is running, and is finished exactly once.  There are   *)
(* no threads, no counters and no GlobalQueue here: JobQueue.tla is shown  *)
(* to implement this specification.                                        *)
(***************************************************************************)
EXTENDS Sequences

CONSTANTS
    Queues,     \* the JobQueue objects
    Jobs        \* the Job objects

VARIABLES
    waiting,    \* waiting[q]: the jobs submitted to q and not started, oldest first
    running     \* running[q]: the jobs of q whose body is running

abstractVars == <<waiting, running>>

Init == /\ waiting = [q \in Queues |-> <<>>]
        /\ running = [q \in Queues |-> {}]

Submit(q, j) == /\ waiting' = [waiting EXCEPT ![q] = Append(@, j)]
                /\ UNCHANGED running

Start(q) == /\ running[q] = {}
            /\ waiting[q] # <<>>
            /\ running' = [running EXCEPT ![q] = {Head(waiting[q])}]
            /\ waiting' = [waiting EXCEPT ![q] = Tail(@)]

Finish(q) == /\ running[q] # {}
             /\ running' = [running EXCEPT ![q] = {}]
             /\ UNCHANGED waiting

Next == \E q \in Queues : \/ \E j \in Jobs : Submit(q, j)
                          \/ Start(q)
                          \/ Finish(q)

Spec == Init /\ [][Next]_abstractVars
=============================================================================
