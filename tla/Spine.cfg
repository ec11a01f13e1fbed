SPECIFICATION Spec
CONSTANTS
    sup = sup  r1 = r1  r2 = r2  d1 = d1  d2 = d2
    Riders <- MCRiders
    Supplier = sup
    Modes = {"FULL_PREPAY", "DELIVERY_FEE_PREPAID_PRODUCT_AT_DOOR"}
    ColisFlags = {TRUE}
    Codes <- MCCodes
    References = {ref1, ref2}
    MaxReferences = 1
    SignalIds = {s1}
    Times = {0, 1}
    RetryWindow = 1
    MaxReopens = 2
INVARIANTS
    CustodyIsEarned
    TwoKeyReturn
    PaymentBeforeHandoff
    OneMoneyOutcome
    FeeOnlyOnBuyerFault
    OneProtectionClaim
PROPERTIES
    SecretsAreSingleUse
    ImplementsChain
    ImplementsFile
    LadderOnlyClimbs
CHECK_DEADLOCK FALSE
