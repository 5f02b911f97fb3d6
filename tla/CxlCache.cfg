SPECIFICATION Spec
CONSTANTS
    NumPages = 3
    NumLines = 1
    NumEntries = 2
    MaxLogEntries = 2
    Stores = {v1, v2}
    PageWrites = {0, 1, 2}
    BlockPages = {1}
    MaxTransfers = 1
    Blank = Blank
    Fill = Blank
    v1 = v1
    v2 = v2
    Unprogrammed = Unprogrammed
SYMMETRY StoreSymmetry
INVARIANTS
    CompactedLinesOnFlash
    DirtyPagesListed
    CachedOnce
PROPERTY RefinesLineLog
CHECK_DEADLOCK FALSE
