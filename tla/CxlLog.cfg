SPECIFICATION FairSpec
CONSTANTS
    NumPages = 2
    NumLines = 2
    NumEntries = 1
    MaxLogEntries = 3
    Stores = {v1}
    PageWrites = {0, 1}
    BlockPages = {1}
    MaxTransfers = 2
    Blank = Blank
    Fill = Blank
    v1 = v1
    Unprogrammed = Unprogrammed
INVARIANTS
    TypeOK
    IndexNewest
    LoggedLinesIndexed
PROPERTIES
    PendingStoreLogged
CHECK_DEADLOCK FALSE
