CONSTANTS
    Callers = {1, 2}
    Texts = {"a", "b"}
    QueueMode = "all"
    MaxRetries = 1
    Budgets <- MCBudgets
SPECIFICATION FairSpec
INVARIANTS
    TypeOK IdleMeansIdle BashNotForgotten HistoryIsTranscript ErrorsBounded
    NoGhostQueued NothingStranded
PROPERTIES PromptsReturn IdleWaitersServed
CHECK_DEADLOCK FALSE
