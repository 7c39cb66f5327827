SPECIFICATION FairSpec
CONSTANTS
    Writers = {w1, w2}
    Streams = {s1, s2}
    Values = {v0, v1}
    InitValue = v0
    NoWriter = NoWriter
    MaxUpdates = 3
INVARIANTS
    NoPanic
PROPERTIES
    ImplementsLog
    CatchesUp
CHECK_DEADLOCK FALSE
