SPECIFICATION Spec
CONSTANTS
    Order <- Two
    Worlds <- Left
PROPERTIES NothingLeftBehind
CHECK_DEADLOCK FALSE
