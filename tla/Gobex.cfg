\* obex: a stream, where everything may go wrong but what section 5 of the
\* README shows to break it, and a packet transport with single response mode.
SPECIFICATION FairSpec
CONSTANTS
    Ops = {"PUT", "GET"}
    Transports = {TRUE, FALSE}
    Chunks = 3
    Faults <- MCFaults
    MaxTransfers = 2
    MaxSuspends = 2
INVARIANTS NotBroken Agreement NoMix
PROPERTIES EveryTransferEnds FailSilently
CHECK_DEADLOCK FALSE
