SPECIFICATION FairSpec
CONSTANTS
    Dst = {"a"}
    SeqMask = 3
    Half = 1
    Trigger = 1
    Value = 2
    Rates = {0, 9}
    DiffRange = 2
    Segs = 2
    MaxQueue = 1
    MaxIdle = 1
    MaxIv = 2
    MaxCrash = 1
INVARIANTS NoncesFresh
PROPERTIES IvNeverBack UpdateEnds
CHECK_DEADLOCK FALSE
