SPECIFICATION Spec
CONSTANTS
    t1 = t1
    t2 = t2
    Workers = {t1}
    TableBlocks = 2
    InodesPerBlock = 2
    BitsPerBlock = 4
    LastBlock = 7
INVARIANTS TypeOK AllocatedIsFree NewInodeIsFree WritesStay
