SPECIFICATION Spec
CONSTANT
    Worlds <- OneCrash
INVARIANTS
    AnsweredDropIsWired
    AnsweredArrivalIsWired
CHECK_DEADLOCK FALSE
