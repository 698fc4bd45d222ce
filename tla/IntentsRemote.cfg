SPECIFICATION Spec
CONSTANTS
    a = a
    b = b
    Value = {a, b}
    Default = a
    MaxIntents = 3
    MaxClicks = 0
    MaxFaults = 0
    Remote = TRUE
    SignedIn = FALSE
    Wishes <- Selections
INVARIANTS
    LastChoiceWins
CHECK_DEADLOCK FALSE
