SPECIFICATION Spec
CONSTANTS
    BlockSize = 2
    MiniInodes = 4
    MiniInodeSize = 1
    FuseInodeSize = 3
    BlocksPerMB = 8
    MaxMB = 3
    Megabytes = {0, 1, 3, 4}
    InodeCounts <- SmallInodeCounts
    Lengths <- SmallLengths
INVARIANTS FormatReadsBack AllocatorsAvoidRoot
