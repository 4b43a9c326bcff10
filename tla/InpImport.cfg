SPECIFICATION ImportSpec
CONSTANTS
    NoRef = NoRef
    Constant = Constant
    MaxFaults = 2
    ConstantIds <- MCConstantIds
    NoDefaultIds <- MCNoDefaultIds
    Requests <- MCRequests
    Files <- MCFiles
INVARIANTS
    RoughnessFitsFormula
    ChildrenAreIsolated
    ExportKeepsProject
    ImportMeansTheFile
CHECK_DEADLOCK FALSE
