SPECIFICATION FairSpec
CONSTANTS
    Ports <- MCPorts
    Calls <- MCCalls
    None = None
CHECK_DEADLOCK FALSE
INVARIANTS
    BothConnected
    OwnGroup
    EntriesOfCallsUnderWay
PROPERTIES
    ReturnsUnlessListenFails
