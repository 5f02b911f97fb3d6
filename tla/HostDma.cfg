SPECIFICATION FairSpec
CONSTANTS
    FifoSize = 3
    OverflowMod = 4
    MaxBlocks = 2
    Entries = {e1, e2}
    MaxRequests = 4
    e1 = e1
    e2 = e2
INVARIANTS
    TypeOK
    PartialDoneExact
    EntriesHeld
PROPERTIES
    RetiredWhenDone
    EntryFreedInTheEnd
CHECK_DEADLOCK FALSE
