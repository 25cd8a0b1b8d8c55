CONSTANTS
    Callers = {1}
    Texts = {"a"}
    QueueMode = "all"
    MaxRetries = 1
    Budgets <- OneBudget
SPECIFICATION Spec
INVARIANT OverflowRecoveryContinues
CHECK_DEADLOCK FALSE
