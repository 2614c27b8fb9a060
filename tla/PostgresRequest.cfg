SPECIFICATION FairSpec
INVARIANTS
    ConfirmedCleanupIsFinal
PROPERTIES
    StoppedRequestsEnd
    ImplementsExecution
CHECK_DEADLOCK FALSE
