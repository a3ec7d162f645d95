SPECIFICATION Spec
CONSTANTS
    Byte = {0, 1}
    Datas <- MCDatas
    Sizes <- MCSizes
    Extra = 1
    SizeMod = 256
    MaxSz = 4
    Views = {v1, v2}
    ViewSizes = {1, 9}
    Root = Root
    Null = Null
INVARIANTS TypeOK NeverFails LocksExact CacheExact
PROPERTIES ViewsKept ImplementsQueue
CHECK_DEADLOCK FALSE
