SPECIFICATION FairSpec
CONSTANTS
    Networks <- MCNetworks
    Second = 192
    MaxBytes = 4
    MaxRead = 3
    LastStart = 3
CHECK_DEADLOCK FALSE
INVARIANTS
    WireBounded
PROPERTIES
    RateBound
    ImplementsStream
    AllDelivered
