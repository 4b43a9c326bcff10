SPECIFICATION Spec
CONSTANTS
    Jobs = {j1, j2, j3}
    Clients = {main, other}
    Manager = main
    NoJob = NoJob
    IdealThreads = 2
    WorkerCounts = {0, 2}
SYMMETRY JobSymmetry
INVARIANTS
    SignalOrder
    TrackedExactly
    IndependentCancellation
    QuietAfterDestruction
PROPERTY
    ImplementsService
CHECK_DEADLOCK FALSE
