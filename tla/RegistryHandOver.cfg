SPECIFICATION Spec
CONSTANTS
    c1 = c1
    c2 = c2
    Caller <- Callers
    Operations <- OrderlyCallers
    MaxGenerations = 3
    MaxSeq = 3
    MaxFaults = 1
    Established = TRUE
SYMMETRY Symmetry
INVARIANTS
    SingleWriter
    EventsAccepted
    TurnsRepaired
