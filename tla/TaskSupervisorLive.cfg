SPECIFICATION FairSpec
CONSTANTS
    MaxTasks = 3
    MaxConcurrent = 1
    RunIds = {1}
    AttemptBudgets = {2}
    MaxRetries = 1
    MaxWaiters = 1
    MaxRestarts = 1
    EarlyRequests = FALSE
PROPERTIES
    EveryTaskSettles
    EveryWaiterAnswered
CHECK_DEADLOCK FALSE
