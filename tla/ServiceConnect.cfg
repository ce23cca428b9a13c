\* services: two profiles of applications, one found by SDP, one by its channel.
SPECIFICATION FairSpec
CONSTANTS
    Services <- MCServices
    Known = {"b"}
    StartFails = {"b"}
    Incoming = {"b"}
    Policy = {"b"}
    Exits = {"a"}
    MaxCalls = 2
    MaxOthers = 2
    Steps = 2
INVARIANTS PendingDriven SessionMatches SearchesOwned
PROPERTIES RepliesTrue EveryCallAnswered
CHECK_DEADLOCK FALSE
