SPECIFICATION FairSpec
INVARIANTS
    TypeOK
    ChildReaped
PROPERTIES
    KeepsContract
    RunEndsUnlessAbandoned
CHECK_DEADLOCK FALSE
