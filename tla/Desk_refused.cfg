SPECIFICATION Spec
CONSTANTS
    None = None
    Window = {"am", "pm"}
    Moto = {"moto A", "moto B"}
    Rider = {r1, r2}
    Note = {"charge", "repair"}
    Reading <- Odometer
    World <- Refused
    MaxSends = 4
PROPERTIES
    NeverToldNo
CHECK_DEADLOCK FALSE
