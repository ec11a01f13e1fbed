SPECIFICATION FairSpec
CONSTANTS
    Order <- Two
    Worlds <- Orderly
INVARIANTS
    AuthorisedOnce
PROPERTIES
    NothingLeftBehind
    FreeRiderEnds
CHECK_DEADLOCK FALSE
