SPECIFICATION Spec
CONSTANTS
    o1 = o1
    p1 = p1
    p2 = p2
    m1 = m1
    m2 = m2
    m3 = m3
    r1 = r1
    w1 = w1
    None = None
    Order = {o1}
    Rider = {r1, r2}
    AssignmentId = {a1, a2}
    CommandId <- Ids
    Time <- Clock
    TTL = 0
    MaxVersion = 2
    TaskId = {p1, p2}
    ProducerTask = {p1, p2}
    ProducerOrder <- SameOrder
    AssignCommand = {c1, c2}
    RawCommand = {}
    Worlds <- TwoTasks
INVARIANTS
    OneRiderPerOrder
CHECK_DEADLOCK FALSE
