SPECIFICATION FairSpec
CONSTANTS
    Sizes <- MCSizes
    Topologies <- MCTopologies
CHECK_DEADLOCK FALSE
INVARIANTS
    NoDuplicate
    DegreeBound
    Saturated
    KeepsPromise
PROPERTIES
    Terminates
