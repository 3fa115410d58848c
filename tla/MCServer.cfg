SPECIFICATION MCSpec
CONSTANTS
    Requests = {r1, r2}
    NoRoom = NoRoom
    MaxRooms = 2
    Threads = {t1}
    Main = Main
    AcceptEvents = {e1, e2}
    Sessions = {s1, s2, s3, s4, s5}
    NoSession = NoSession
    NoEvent = NoEvent
    MaxClients = 2
    Hosts = {h1, h2}
    NoHost = NoHost
    FirstMonsters = 2
    MaxAgents = 3
    MaxMonsters = 5
    MaxJobs = 2
SYMMETRY Symmetry
CHECK_DEADLOCK FALSE
INVARIANTS
    ListIsTrue
    KeepsListening
    AgentsOfTheCrowd
    FirstUpdateIsAlone
