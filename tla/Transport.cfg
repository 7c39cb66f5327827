SPECIFICATION FairSpec
CONSTANTS
    a1 = a1
    a2 = a2
    a3 = a3
    d1 = d1
    d2 = d2
    d3 = d3
    Agents = {a1, a2, a3}
    Dials = {d1, d2, d3}
    None = None
    Src <- MCSrc
    Dst <- MCDst
    Cities = {"x", "y"}
    City <- MCCity
    Avg <- MCAvg
    defaultAvgLatency = 1
CHECK_DEADLOCK FALSE
INVARIANTS
    NoPanic
    DelayOfDirection
    DeafCauses
PROPERTIES
    StopEnds
    HandedOver
    AllUp
