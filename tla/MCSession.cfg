SPECIFICATION LiveSpec
CONSTANTS
    Threads = {t1, t2, t3}
    NoThread = NoThread
    Buffers = {b1, b2}
    Errors = {"reset", "other"}
    DisconnectFails = {FALSE}
CHECK_DEADLOCK FALSE
INVARIANTS
    EventsUsedOnce
    OwnerWhilePending
    BuffersWhilePending
    ReleaseFindsIt
PROPERTIES
    SendsInOrder
    SendsHappen
    IsDestroyed
