SPECIFICATION FairSpec
CONSTANTS
    Queues <- OneQueue
    ResetLimit = 1
    Slots <- TwoSlots
INVARIANTS
    StatusFollowsHost
PROPERTIES
    SessionsFresh
    Honoured
    Answered
