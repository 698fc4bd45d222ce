SPECIFICATION Spec
CONSTANTS
    MaxEvents = 2
    MaxAttempts = 3
    MaxFaults = 1
    MaxMoves = 0
    MaxFetches = 0
INVARIANTS
    OpenStreamIsHeard
CHECK_DEADLOCK FALSE
