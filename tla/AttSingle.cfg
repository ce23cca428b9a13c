\* att_single: one channel and a peer that may break the protocol.
SPECIFICATION FairSpec
CONSTANTS
    NChans = 1
    MaxId = 2
    MaxLegs = 1
    MaxLen = 1
    MaxQueue = 1
    ClientKinds = {"REQ", "IND", "CMD"}
    PeerKinds = {}
    Handled = {}
    Rogue = TRUE
    MtuAlone = TRUE
INVARIANTS TypeOK
PROPERTIES Transactions
CHECK_DEADLOCK FALSE
