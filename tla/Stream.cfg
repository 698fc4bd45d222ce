SPECIFICATION FairSpec
CONSTANTS
    MaxEvents = 2
    MaxAttempts = 3
    MaxFaults = 1
    MaxMoves = 1
    MaxFetches = 1
INVARIANTS
    StreamTypeOK
    TranscriptIsWhole
    OneStreamOpen
PROPERTIES
    ImplementsFeed
    CatchesUp
CHECK_DEADLOCK FALSE
