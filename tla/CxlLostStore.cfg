SPECIFICATION Spec
CONSTANTS
    NumPages = 2
    NumLines = 2
    NumEntries = 1
    MaxLogEntries = 2
    Stores = {v1, v2}
    PageWrites = {}
    BlockPages = {}
    MaxTransfers = 0
    Blank = Blank
    Fill = Blank
    v1 = v1
    v2 = v2
    Unprogrammed = Unprogrammed
PROPERTY ClearedLinesOnFlash
