SPECIFICATION FairSpec
CONSTANTS
    Count = 3
    Requests = {0, 1, 2, 3}
    SpawnFails = TRUE
    Interrupts = TRUE
INVARIANT TypeOK
INVARIANT SameAsSerial
INVARIANT ClaimedOnce
PROPERTY GateCloses
PROPERTY Ends
