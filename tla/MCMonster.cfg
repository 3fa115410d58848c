SPECIFICATION LiveSpec
CONSTANTS
    Players = {p1, p2}
    NoTarget = NoTarget
    Modes = {"Patrol", "Rush"}
    MaxNews = 3
CHECK_DEADLOCK FALSE
INVARIANTS
    StoryIsTrue
    DeathIsLast
PROPERTIES
    CalmsDown
