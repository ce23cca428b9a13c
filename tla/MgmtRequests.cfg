\* mgmt_requests: every request ends, once, and with its own answer.
SPECIFICATION FairSpec
CONSTANTS
    MaxId = 3
    MaxFrames = 2
    Opcode = {op1, op2}
    Index = {hci0}
    Kinds = {"send", "reply", "nowait"}
    Timers = {TRUE}
    WriteFails = TRUE
    Forgets = TRUE
    MaxEarly = 1
    Abandons = TRUE
CONSTRAINT FirstOpcode
INVARIANTS OneOwner ToldAtMostOnce AnswersMatch
PROPERTIES EveryRequestEnds
CHECK_DEADLOCK FALSE
