SPECIFICATION FairSpec
CONSTANTS
    Starts <- AllStarts
    AgentFails = TRUE
    Refuses = TRUE
    Cancels = TRUE
INVARIANTS Agreement DeliveredInOrder NothingOverwritten NoNullUse
PROPERTIES Completes
CHECK_DEADLOCK FALSE
