CONSTANTS
    PipeN = 2
    ReqN = 3
    ReqUnits = 2
    HdrUnits = 2
    ResUnits = 3
    SndCap = 3
    ResKinds <- EveryKind
    Faults <- EveryFault
    MaxFaults = 2
SPECIFICATION Spec
INVARIANTS
    TypeOK
    OneConnectTimer
    ReaderConnected
    WindowKept
    Framed
    NothingAfterEnd
    HandshakeTimed
    SocketWatched
    WritableNeeded
PROPERTIES
    ImplementsWindow
CHECK_DEADLOCK FALSE
