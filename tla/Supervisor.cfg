SPECIFICATION HistorySpec
CONSTANTS
    NoVersion = NoVersion
    Version = {v1, v2}
    InitVersion = v1
    MaxFaults = 2
    UnlinkFails = TRUE
    Requested <- UpgradeRequests
INVARIANTS
    IInv
    TypeOK
    Bootable
PROPERTIES
    ImplementsPromise
    SwapRetainsAnother
    ActivatedIsGated
