SPECIFICATION Spec
CONSTANTS
    Threads = {t1, t2}
    NoThread = NoThread
    Buffers = {b1, b2}
    Errors = {"reset", "other"}
    DisconnectFails = {FALSE}
SYMMETRY Symmetry
CHECK_DEADLOCK FALSE
INVARIANTS
    NothingStranded
