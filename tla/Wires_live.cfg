SPECIFICATION FairSpec
CONSTANT
    Worlds <- Drained
PROPERTIES
    EachWireReachesItsReceiver
CHECK_DEADLOCK FALSE
