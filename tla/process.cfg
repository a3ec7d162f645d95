SPECIFICATION Spec
CONSTANTS
    Hdr = 2
    ReqSize = 2
    Bodies = {1, 3}
    Surplus = {0, 1, 4}
    Signals = {"SIGINT", "SIGTERM"}
    MaxSignals = 3
  
PROPERTIES Ends
CHECK_DEADLOCK FALSE
