SPECIFICATION Spec
CONSTANTS
    NumTags = 5
    w1 = w1
    Ways = {w1}
    BlockList <- TwoBlocks
    NumPages = 2
    Bufs = {e1}
    Calls <- CallKinds
    QueueDepth = 2
    Overtaking = FALSE
INVARIANTS
    TypeOK
    EachQueuedOnce
    BlockedReadsCounted
    EntryExclusive
    FlashInOrder
    NoneForgotten
    NothingStuck
CHECK_DEADLOCK FALSE
