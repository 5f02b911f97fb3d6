SPECIFICATION FairSpec
CONSTANTS
    Ways <- Two
    WayOrder <- InOrder
    Load <- EveryKind
    RetryLimit = 1
    QueueDepth = 2
    NoWay = 15
INVARIANTS
    TypeOK
    OnOneList
    ListsFit
    ShortcutExact
PROPERTIES
    LeavesDone
    MarksDeserved
    FullRetries
    AllLeave
