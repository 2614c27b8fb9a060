SPECIFICATION FairSpec
INVARIANT ReleasedIsFinished
CHECK_DEADLOCK FALSE
