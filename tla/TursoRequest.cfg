SPECIFICATION FairSpec
INVARIANTS
    NoWorkAfterRelease
    ClaimOutlivesDatabase
    RollbackIsNotInterrupted
PROPERTIES
    StoppedRequestsEnd
    ImplementsExecution
CHECK_DEADLOCK FALSE
