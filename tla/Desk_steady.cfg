SPECIFICATION Spec
CONSTANTS
    None = None
    Window = {"am", "pm"}
    Moto = {"moto A", "moto B"}
    Rider = {r1, r2}
    Note = {"charge", "repair"}
    Reading <- Odometer
    World <- Orderly
    MaxSends = 4
INVARIANTS
    RecordedOnce
PROPERTIES
    NoPassageOnAReturn
CHECK_DEADLOCK FALSE
