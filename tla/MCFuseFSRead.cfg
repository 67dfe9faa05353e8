SPECIFICATION Spec
CONSTANTS
    n1 = n1
    n2 = n2
    n3 = n3
    t1 = t1
    t2 = t2
    Names = {n1, n2, n3}
    Workers = {t1, t2}
    TotalInodes = 5
    DataStart = 1
    TotalBlocks = 5
    DirectBlocks = 3
    Extents <- Writes
SYMMETRY Symmetry
PROPERTIES ReadsKeepFiles
