SPECIFICATION Spec
CONSTANTS
    NodeCounts <- MCNodeCounts
    Degrees <- MCDegrees
    Counts <- MCCounts
    Rates <- MCRates
CHECK_DEADLOCK FALSE
INVARIANT FailedAgentsAreCounted
