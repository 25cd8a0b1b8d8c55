SPECIFICATION Spec
CONSTANTS
    KeepRecent = 2
    Budgets <- MCBudgets
INVARIANTS
    TypeOK
    DiskIsTree
    NothingDropped
    NoOrphanResults
CHECK_DEADLOCK FALSE
