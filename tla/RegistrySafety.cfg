CONSTANTS
    Names = {1, 2}
    Clients = {c1}
    MaxOperations = 2
    MaxActive = 1
    Shutdown = Shutdown
    None = None
SPECIFICATION Spec
CHECK_DEADLOCK FALSE
INVARIANTS
    WakeupIsOwed
    AnswersAreTruthful
    ShutdownIsComplete
