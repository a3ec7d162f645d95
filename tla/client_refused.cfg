CONSTANTS
    PipeN = 1
    ReqN = 2
    ReqUnits = 1
    HdrUnits = 1
    ResUnits = 2
    SndCap = 1
    ResKinds <- OnlyOk
    Faults <- ConnectMayFail
    MaxFaults = 1
SPECIFICATION Spec
INVARIANTS
    NeverAborts
CHECK_DEADLOCK FALSE
