SPECIFICATION FairSpec
CONSTANTS
    NumTags = 3
    w1 = w1
    Ways = {w1}
    BlockList <- TwoBlocks
    NumPages = 2
    Bufs = {e1}
    Calls <- HostAndLoads
    QueueDepth = 2
    Overtaking = FALSE
PROPERTY LoadsEnd
CHECK_DEADLOCK FALSE
