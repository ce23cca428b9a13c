\* att_eatt: two channels whose MTUs may differ share the queues.
SPECIFICATION Spec
CONSTANTS
    NChans = 2
    MaxId = 2
    MaxLegs = 1
    MaxLen = 2
    MaxQueue = 1
    ClientKinds = {"REQ", "MTU"}
    PeerKinds = {}
    Handled = {}
    Rogue = FALSE
    MtuAlone = TRUE
INVARIANTS SlotInv NoLostWakeup NoOpLostOrDoubled
CHECK_DEADLOCK FALSE
