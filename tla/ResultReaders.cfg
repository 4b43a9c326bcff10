SPECIFICATION ReadersSpec
CONSTANTS
    NoRef = NoRef
    Constant = Constant
    Stranger = Stranger
    MaxFaults = 2
    Networks <- MCNetworks
    PrivateIds <- MCPrivateIds
    Private <- MCPrivate
INVARIANTS
    SuccessIsComplete
    FailuresAreReported
    DemandsStayConstant
    ResultsAreOwn
CHECK_DEADLOCK FALSE
