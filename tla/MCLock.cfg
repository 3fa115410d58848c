SPECIFICATION LiveSpec
CONSTANTS
    Threads = {1, 2}
    MaxCount = 9
    Scopes <- Mixed
CHECK_DEADLOCK FALSE
INVARIANTS
    IndInv
    WriterExcludes
    OnlyTimeOuts
PROPERTIES
    GetsLock
