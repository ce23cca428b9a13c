SPECIFICATION Spec
CONSTANTS
    MaxId = 4
    Event = {ev}
    NONE = none
    Index = {hci0, none}
    InCallback = {"self", "other"}
INVARIANTS NextAlive SilentAfterUnregister EveryHandlerHears
CHECK_DEADLOCK FALSE
