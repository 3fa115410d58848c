SPECIFICATION Spec
CONSTANTS
    Threads = {t1, t2, t3}
    Chunks = {c1, c2, c3, c4}
    NoChunk = NoChunk
    ChunkSize = 2
    MaxRequest = 3
SYMMETRY Symmetry
CHECK_DEADLOCK FALSE
INVARIANTS
    Ownership
    BuffersDisjoint
    OnlyTooLargeCrashes
