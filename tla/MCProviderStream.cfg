CONSTANTS
    MaxStreamRetries = 1
    MaxRetries = 1
    Capacity = 1
    Budget = 2
    MaxChunks = 3
SPECIFICATION FairSpec
INVARIANTS
    TypeOK
    AcceptedIsWhole
    OrphanReadsOnce
PROPERTIES
    TurnEnds
    ShowsOneAnswer
CHECK_DEADLOCK FALSE
