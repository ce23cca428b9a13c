SPECIFICATION FairSpec
CONSTANTS
    w1 = w1
    w2 = w2
    Session = s
    Writes <- MCWrites
    Cancelled <- MCCancelled
    Handle <- MCHandle
    ChanMtu <- MCChanMtu
    Reliable = {"b"}
    Length = 2
    MaxPrep = 2
INVARIANTS WrittenWhole OneWriterPrepares NoResidue
PROPERTIES EveryWriteTold
CHECK_DEADLOCK FALSE
