SPECIFICATION FairRTSpec
CONSTANTS
    NoVersion = NoVersion
    Version = {v1, v2}
    InitVersion = v1
    MaxFaults = 1
    UnlinkFails = TRUE
    MaxPins = 2
    Requested <- MixedRequests
INVARIANTS
    RTTypeOK
    ChecksStillHold
PROPERTIES
    ImplementsSupervisor
    ServiceRecovers
    Settles
