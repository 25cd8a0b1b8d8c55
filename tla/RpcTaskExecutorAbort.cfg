SPECIFICATION FairSpec
PROPERTIES
    AbortedRunEnds
CHECK_DEADLOCK FALSE
