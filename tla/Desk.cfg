SPECIFICATION Spec
CONSTANTS
    None = None
    Window = {"am", "pm"}
    Moto = {"moto A", "moto B"}
    Rider = {r1, r2}
    Note = {"charge", "repair"}
    Reading <- Odometer
    World <- Settings
    MaxSends = 4
INVARIANTS
    FixedIsFixed
    OneMotoPerRider
PROPERTIES
    NeverToldNoForItsAct
CHECK_DEADLOCK FALSE
