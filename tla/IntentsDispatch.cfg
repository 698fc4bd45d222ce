SPECIFICATION FairSpec
CONSTANTS
    a = a
    b = b
    Value = {a, b}
    Default = a
    MaxIntents = 3
    MaxClicks = 1
    MaxFaults = 1
    Remote = FALSE
    SignedIn = FALSE
    Wishes <- AllWishes
INVARIANTS
    IntentsTypeOK
    FinalStatesAreTrue
    LastChoiceWins
PROPERTIES
    HandledInOrder
    EveryIntentLeaves
CHECK_DEADLOCK FALSE
