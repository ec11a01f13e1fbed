SPECIFICATION Spec
CONSTANTS
    Sos = {s1}
    Evidence = {}
    Drain = {d1}
    InTurn = FALSE
    MaxFaults = 0
INVARIANTS
    ReachedIsOnTheBoard
CHECK_DEADLOCK FALSE
