SPECIFICATION Spec
CONSTANTS
    Sessions = {s1, s2}
    NoSession = NoSession
    Players = {p1, p2, p3}
    NoPlayer = NoPlayer
    Monsters = {m1, m2}
    Maps = {"Hangar"}
    FirstMonsters = 1
    Wave <- OneEach
    MaxJobs = 2
    MaxNews = 1
    MaxStep = 3
SYMMETRY Symmetry
CHECK_DEADLOCK FALSE
INVARIANTS
    Membership
    EndsWithLastPlayer
    Acquainted
    MonstersComeOnce
