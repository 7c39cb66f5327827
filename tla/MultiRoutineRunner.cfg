SPECIFICATION FairRunnerSpec
CONSTANTS
    ItemsCounts <- MCItemsCounts
    ItemsPerRoutine <- MCItemsPerRoutine
    MaxRoutines <- MCMaxRoutines
CHECK_DEADLOCK FALSE
INVARIANTS
    ReturnsComplete
PROPERTIES
    ImplementsForEach
    Returns
