SPECIFICATION Spec
CONSTANTS
    Agents = {v1, n1}
    Validators = {v1}
    Msgs = {m1, m2}
    Sizes = {16, 17}
    Unit = 2
    LogEnd = 4
    MaxTime = 6
    maxDuration = 1
SYMMETRY MessageSymmetry
CHECK_DEADLOCK FALSE
INVARIANTS
    NoPanic
    LinesInOrder
    CountsExact
    Thresholds
    ReportExact
