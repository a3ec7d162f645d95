SPECIFICATION Spec
CONSTANTS
    Byte = {0, 1}
    Datas <- MCDatas
    Sizes <- MCSizes
    Extra = 1
    SizeMod = 256
    MaxSz = 4
    Views = {v1, v2}
    ViewSizes = {1, 9}
    Root = Root
    Null = Null

PROPERTY ViewsStable
CHECK_DEADLOCK FALSE
