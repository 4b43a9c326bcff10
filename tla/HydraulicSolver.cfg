SPECIFICATION FairSpec
CONSTANTS
    MaxTime = 2
    MaxStep = 2
INVARIANTS
    SessionBalanced
    BalanceCoversTimeline
    ReturnsWithinContract
PROPERTY
    Terminates
CHECK_DEADLOCK FALSE
