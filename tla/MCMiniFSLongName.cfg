SPECIFICATION Spec
CONSTANTS
    a = a
    b = b
    long = long
    MaxInodes = 4
    DataStart = 2
    TotalBlocks = 5
    DirectBlocks = 2
    DirentsPerBlock = 3
    ShortNames = {a}
    LongNames = {long}
    Cut <- CutToA
    Length <- OneByte
    PathMax = 6
    Dot = Dot
    DotDot = DotDot
    NoName = NoName
    FileBytes = FileBytes
    CutPaths = FALSE
    CanKill = FALSE
CHECK_DEADLOCK FALSE
PROPERTIES CreatedIsFound
