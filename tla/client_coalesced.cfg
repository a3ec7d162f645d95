CONSTANTS
    PipeN = 2
    ReqN = 2
    ReqUnits = 1
    HdrUnits = 1
    ResUnits = 2
    SndCap = 2
    ResKinds <- OnlyOk
    Faults <- NoFault
    MaxFaults = 0
SPECIFICATION FairSpec
PROPERTIES
    Completes
CHECK_DEADLOCK FALSE
