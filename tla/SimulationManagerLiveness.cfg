SPECIFICATION EndlessSpec
CONSTANTS
    Jobs = {j1, j2}
    Clients = {main, other}
    Manager = main
    NoJob = NoJob
    IdealThreads = 1
    WorkerCounts = {0, 2}
PROPERTIES
    ShutdownTerminates
    CancelStopsRun
    EveryJobReported
CHECK_DEADLOCK FALSE
