CONSTANTS
    DataRequests = {d1, d2}
    Publications = {m1}
    Timeout = 2
    None = None
SPECIFICATION FairSpec
CHECK_DEADLOCK FALSE
INVARIANTS
    DrainedOnReturn
    WithinBudget
PROPERTIES
    OperationsEnd
    StopEndsHandlers
