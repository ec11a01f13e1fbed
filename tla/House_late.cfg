SPECIFICATION Spec
CONSTANTS
    Order <- Two
    Worlds <- Late
INVARIANTS ClockAgrees AuthorisedOnce
CHECK_DEADLOCK FALSE
