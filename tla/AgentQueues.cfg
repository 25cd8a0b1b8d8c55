SPECIFICATION FairSpec
CONSTANTS
    Budgets <- OneBudget
    SteeringMode = "one-at-a-time"
    FollowUpMode = "one-at-a-time"
PROPERTIES
    QueuesDrainedAtAgentEnd
CHECK_DEADLOCK FALSE
