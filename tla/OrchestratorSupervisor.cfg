SPECIFICATION FairSpec
CONSTANTS
    Ids = {1, 2}
    MaxSessions <- Sessions
    MaxLives = 2
INVARIANTS
    TypeOK
    ChildrenAccounted
    StoppedStaysGone
    RecordsAgree
PROPERTIES
    EverythingReturns
CHECK_DEADLOCK FALSE
