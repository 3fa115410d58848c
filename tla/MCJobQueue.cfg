SPECIFICATION LiveSpec
CONSTANTS
    Threads = {t1, t2}
    Queues = {q1, q2}
    Jobs = {j1, j2, j3}
    NoQueue = NoQueue
    PushOnly = {FALSE, TRUE}
INVARIANTS
    MutualExclusion
    OneResponsible
    IndInv
PROPERTIES
    SerialExecution
    EveryJobRuns
