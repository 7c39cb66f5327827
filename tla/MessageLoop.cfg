SPECIFICATION FairSpec
CONSTANTS
    Agents = {a1, a2}
    NoAgent = NoAgent
    Rates = {0, 900}
    MaxTicks = 2
CHECK_DEADLOCK FALSE
INVARIANTS
    TickBeforeSend
    ResultComplete
    RoundsExclusive
PROPERTIES
    Terminates
