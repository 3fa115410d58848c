SPECIFICATION WLiveSpec
CONSTANTS
    Threads = {t1, t2}
    Queues = {room}
    Jobs = {b1, b2, j1}
    NoQueue = NoQueue
    PushOnly = {FALSE}
    Room = room
    Beats = {b1, b2}
    Ticks = {1}
PROPERTIES
    HeartbeatGoesOn
    DistributingEnds
