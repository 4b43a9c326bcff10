SPECIFICATION FairExportSpec
CONSTANTS
    NoRef = NoRef
    Models <- MCModels
    Uuids <- MCUuids
    Names <- MCNames
    Malformed = {"a b"}
    Reserved = {"D"}
    Nodes = {"node", "tank", "closed node"}
    Tanks = {"tank"}
    Pipes = {"pipe", "closed pipe"}
    Enabled = {"node", "tank", "pipe"}
INVARIANTS
    CyclesAreFound
    ExportMeansTheModel
PROPERTIES
    ExportEnds
CHECK_DEADLOCK FALSE
