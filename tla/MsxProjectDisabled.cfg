SPECIFICATION Spec
CONSTANTS
    r1 = r1
    r2 = r2
    Runs <- MCRuns
    NoRun = NoRun
    MaxTime = 1
INVARIANT
    DisabledMakesNoDifference
CHECK_DEADLOCK FALSE
