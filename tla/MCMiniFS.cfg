SPECIFICATION Spec
CONSTANTS
    a = a
    b = b
    long = long
    MaxInodes = 4
    DataStart = 2
    TotalBlocks = 5
    DirectBlocks = 2
    DirentsPerBlock = 3
    ShortNames = {a, b}
    LongNames = {}
    Cut <- NoCut
    Length <- OneByte
    PathMax = 6
    Dot = Dot
    DotDot = DotDot
    NoName = NoName
    FileBytes = FileBytes
    CutPaths = FALSE
    CanKill = TRUE
SYMMETRY NameSymmetry
CHECK_DEADLOCK FALSE
INVARIANTS TypeOK BitmapAgrees BlocksUsedExact TreeConnected HandlesValid
INVARIANTS PointersAllocated NoSharedBlock EntriesResolve FreeCountsBounded
PROPERTIES CreatedIsFound FailureLeavesTree LeaksOnlyOnFailure EntryAndInodeTogether
PROPERTIES ImplementsNamespace
