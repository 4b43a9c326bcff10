SPECIFICATION FairSpec
CONSTANTS
    r1 = r1
    r2 = r2
    Runs <- MCRuns
    NoRun = NoRun
    MaxTime = 2
INVARIANTS
    OwnModel
    LeftClean
    HonestTimeline
    CancelledWaiterDoesNothing
PROPERTY
    EveryRunReturns
CHECK_DEADLOCK FALSE
