SPECIFICATION Spec
CONSTANTS
    a = a
    b = b
    MaxInodes = 4
    DataStart = 2
    TotalBlocks = 5
    DirectBlocks = 2
    DirentsPerBlock = 3
    ShortNames = {a, b}
    LongNames = {}
    Cut <- NoCut
    Length <- OneByte
    PathMax = 6
    Dot = Dot
    DotDot = DotDot
    NoName = NoName
    FileBytes = FileBytes
    MaxDeaths = 1
SYMMETRY NameSymmetry
CONSTRAINT BeforeReuse
INVARIANTS TypeOK NamesResolve PointersMarked NoSharedBlock DirsServable CountersNeverShort
PROPERTIES CallbacksAtomic
CHECK_DEADLOCK FALSE
