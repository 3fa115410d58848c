SPECIFICATION LiveSpec
CONSTANTS
    Sessions = {s1, s2}
    NoSession = NoSession
    Players = {p1, p2}
    NoPlayer = NoPlayer
    Monsters = {m1}
    Maps = {"Hangar"}
    FirstMonsters = 1
    Wave <- OneEach
    MaxJobs = 1
    MaxNews = 1
    MaxStep = 1
CHECK_DEADLOCK FALSE
PROPERTIES
    AbandonedRoomEnds
