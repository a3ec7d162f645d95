SPECIFICATION Spec
CONSTANTS
    Failed = Failed
    NoJson = NoJson
    Beyond = Beyond
    Never = Never
    Requests <- MCRequests
    Responses <- MCResponses
    MaxReqId = 4
INVARIANTS TypeOK EncodeExact DecodeExact NoOverrun HeapExact
CHECK_DEADLOCK FALSE
