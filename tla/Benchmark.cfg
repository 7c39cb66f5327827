SPECIFICATION FairSpec
CONSTANTS
    NodeCounts <- MCNodeCounts
    Degrees <- MCDegrees
    Counts <- MCCounts
    Rates <- MCRates
CHECK_DEADLOCK FALSE
INVARIANTS
    ListensBeforeConnect
    SendersReachAll
    CrashCauses
PROPERTIES
    Ends
