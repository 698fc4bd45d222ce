SPECIFICATION HistorySpec
CONSTANTS
    NoVersion = NoVersion
    Version = {v1, v2, v3}
    InitVersion = v1
    MaxFaults = 1
    UnlinkFails = TRUE
    Requested <- NewAnyharnessRequests
PROPERTIES
    RolledBackServesLastGood
