SPECIFICATION Spec
CONSTANTS
    MaxTasks = 3
    MaxConcurrent = 2
    RunIds = {1, 2, 3}
    AttemptBudgets = {1, 2}
    MaxRetries = 2
    MaxWaiters = 1
    MaxRestarts = 1
    EarlyRequests = FALSE
INVARIANTS
    TypeOK
    ConcurrencyLimit
    EveryRunIsControlled
    DependenciesHonoured
    NoStrandedWaiter
    NoForgottenTask
    AttemptsBounded
    CleanExit
    DiskIsCurrent
PROPERTY TerminalIsFinal
CHECK_DEADLOCK FALSE
