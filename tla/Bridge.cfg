SPECIFICATION FairSpec
CONSTANTS
    NoProcess = NoProcess
    Process = {w1, w2, w3}
    MaxFaults = 1
    MaxSwaps = 2
INVARIANTS
    BridgeTypeOK
    OneWorker
    HeirIsWriter
    OnlyOwnerSwaps
PROPERTIES
    OneSupervisor
    DoneIsProven
    ConfirmedIsOwned
    ServedUnderSupervisor
    HandedOver
CHECK_DEADLOCK FALSE
