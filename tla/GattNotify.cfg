SPECIFICATION FairSpec
CONSTANTS
    Regs = {"r1", "r2", "r3", "r4"}
    Silent = {"r4"}
    Skews = {1, 2, 9}
INVARIANTS ToldMeansOn OffWhenUnused AssertHolds
PROPERTIES EveryRegistrationTold
CHECK_DEADLOCK FALSE
