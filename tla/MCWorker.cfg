SPECIFICATION WSpec
CONSTANTS
    Threads = {t1, t2}
    Queues = {room, other}
    Jobs = {b1, b2, j1, j2}
    NoQueue = NoQueue
    PushOnly = {FALSE}
    Room = room
    Beats = {b1, b2}
    Ticks = {1, 2}
SYMMETRY Symmetry
INVARIANTS
    OneHeartbeat
PROPERTIES
    TimersInOrder
    DrivesJobQueue
