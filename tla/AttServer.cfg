\* att_server: the server side of a channel, with requests that are resent.
SPECIFICATION Spec
CONSTANTS
    NChans = 1
    MaxId = 2
    MaxLegs = 2
    MaxLen = 1
    MaxQueue = 1
    ClientKinds = {"REQ"}
    PeerKinds = {"REQ", "IND"}
    Handled = {"REQ", "IND"}
    Rogue = FALSE
    MtuAlone = TRUE
INVARIANTS NeverBlamed
CHECK_DEADLOCK FALSE
