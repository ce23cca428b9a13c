SPECIFICATION Spec
CONSTANTS
    Src = {"s1", "s2"}
    Crpl = 1
    MaxSeq = 1
    MaxIv = 2
    MaxCrash = 1
INVARIANTS NoReplay
CHECK_DEADLOCK FALSE
