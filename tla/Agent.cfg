SPECIFICATION FairSpec
CONSTANTS
    Budgets <- MCBudgets
    SteeringMode = "one-at-a-time"
    FollowUpMode = "all"
INVARIANTS
    TypeOK
    RequestsWellFormed
    ContextIsTranscript
    MessagesAccounted
    CallsAnswered
PROPERTIES
    EveryRunEnds
CHECK_DEADLOCK FALSE
