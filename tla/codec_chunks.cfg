SPECIFICATION Spec
CONSTANTS
    Failed = Failed
    NoJson = NoJson
    Beyond = Beyond
    Never = Never
    Requests = {}
    Responses <- MCChunked
    MaxReqId = 4
INVARIANTS ChunksDecode
CHECK_DEADLOCK FALSE
