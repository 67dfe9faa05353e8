SPECIFICATION FairSpec
CONSTANTS
    Files = {1, 2}
    Values = {1, 2}
    BlockSize = 2
    DirectBlocks = 2
    DataBlocks = {5, 6}
    Word = 16
    Writes <- Ranges
    Sizes <- Ends
INVARIANTS TypeOK NoBlockPastEnd ReadsPrefix
PROPERTIES ImplementsByteFile EveryWriteReturns
