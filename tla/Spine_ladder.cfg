SPECIFICATION Spec
CONSTANTS
    sup = sup  r1 = r1  r2 = r2  d1 = d1  d2 = d2
    Riders <- MCRidersOne
    Supplier = sup
    Modes = {"FULL_PREPAY", "DELIVERY_FEE_PREPAID_PRODUCT_AT_DOOR"}
    ColisFlags = {FALSE}
    Codes <- MCCodesOne
    References = {}
    MaxReferences = 1
    SignalIds = {s1}
    Times = {0, 1}
    RetryWindow = 1
    MaxReopens = 2
INVARIANTS
    NoRejectionOnALadder
    RescheduleKeepsPackage
    AppliedReturnCanOpen
CHECK_DEADLOCK FALSE
