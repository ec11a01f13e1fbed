SPECIFICATION SpecOfTwo
CONSTANTS
    Worlds <- TwoCourses
    MaxIds = 3
INVARIANTS
    PhoneNeverAhead
CHECK_DEADLOCK FALSE
