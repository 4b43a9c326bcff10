SPECIFICATION FairSpec
CONSTANT MaxTime = 2
INVARIANTS
    ReturnsWithinContract
PROPERTY
    Terminates
CHECK_DEADLOCK FALSE
