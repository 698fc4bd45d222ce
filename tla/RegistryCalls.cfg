SPECIFICATION FairSpec
CONSTANTS
    c1 = c1
    c2 = c2
    Caller <- Callers
    Operations <- WorkAndDispose
    MaxGenerations = 1
    MaxSeq = 1
    MaxFaults = 1
    Established = FALSE
INVARIANTS
    TypeOK
PROPERTIES
    EveryCallReturns
    ExitIsCarriedOut
