SPECIFICATION Spec
CONSTANTS
    a = a
    b = b
    long = long
    MaxInodes = 3
    DataStart = 2
    TotalBlocks = 5
    DirectBlocks = 2
    DirentsPerBlock = 3
    ShortNames = {a, b}
    LongNames = {}
    Cut <- NoCut
    Length <- TwoLengths
    PathMax = 4
    Dot = Dot
    DotDot = DotDot
    NoName = NoName
    FileBytes = FileBytes
    CutPaths = TRUE
    CanKill = FALSE
CHECK_DEADLOCK FALSE
PROPERTIES PathsResolve
