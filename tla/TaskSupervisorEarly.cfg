SPECIFICATION Spec
CONSTANTS
    MaxTasks = 3
    MaxConcurrent = 2
    RunIds = {1, 2, 3}
    AttemptBudgets = {2}
    MaxRetries = 2
    MaxWaiters = 1
    MaxRestarts = 1
    EarlyRequests = TRUE
CHECK_DEADLOCK FALSE
INVARIANT ConcurrencyLimit
