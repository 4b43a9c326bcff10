SPECIFICATION Spec
CONSTANTS
    NoRef = NoRef
    Constant = Constant
    MaxFaults = 2
    ConstantIds <- MCConstantIds
    NoDefaultIds <- MCNoDefaultIds
    Requests <- MCRequests
INVARIANTS
    DemandsKeepPrecision
CHECK_DEADLOCK FALSE
