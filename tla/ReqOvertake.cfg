SPECIFICATION Spec
CONSTANTS
    NumTags = 7
    w1 = w1
    Ways = {w1}
    BlockList <- ThreeBlocks
    NumPages = 1
    Bufs = {e1, e2}
    Calls <- HostCalls
    QueueDepth = 3
    Overtaking = TRUE
SYMMETRY BufSymmetry
INVARIANT FlashInOrder
CHECK_DEADLOCK FALSE
