SPECIFICATION Spec
CONSTANTS
    KeepRecent = 2
    Budgets <- TalkBudgets
INVARIANT NothingForgotten
CHECK_DEADLOCK FALSE
