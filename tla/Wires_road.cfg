SPECIFICATION Spec
CONSTANT
    Worlds <- RoadAndHome
INVARIANTS
    WiresTellTheTruth
    CommitsCarryTheirRows
PROPERTIES
    DeliveredForGood
CHECK_DEADLOCK FALSE
