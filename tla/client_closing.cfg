CONSTANTS
    PipeN = 1
    ReqN = 3
    ReqUnits = 2
    HdrUnits = 1
    ResUnits = 2
    SndCap = 2
    ResKinds <- Decodable
    Faults <- ReconnectMayFail
    MaxFaults = 3
SPECIFICATION FairSpec
INVARIANTS
    NeverAborts
    Accounted
    NeverReconnects
PROPERTIES
    CompletesOrStrands
CHECK_DEADLOCK FALSE
