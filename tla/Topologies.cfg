SPECIFICATION TopologySpec
CONSTANTS
    NodeCounts <- MCNodeCounts
    Degrees <- MCDegrees
    Counts <- MCCounts
CHECK_DEADLOCK FALSE
INVARIANTS
    NoPairTwice
    CoveredOnReturn
