SPECIFICATION Spec
CONSTANTS
    c1 = c1
    c2 = c2
    Caller <- Callers
    Operations <- Unloading
    MaxGenerations = 2
    MaxSeq = 2
    MaxFaults = 0
    Established = TRUE
INVARIANTS
    ResumeAfterRetirement
