SPECIFICATION FairSpec
CONSTANTS
    Worlds <- Roads
    MaxIds = 3
INVARIANTS
    PhoneNeverAhead
PROPERTIES
    NeverToldNoForADoneAct
    RoadEnds
CHECK_DEADLOCK FALSE
