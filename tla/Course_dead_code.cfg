SPECIFICATION FairSpec
CONSTANTS
    o1 = o1
    o2 = o2
    a1 = a1
    None = None
    Order = {o1, o2}
    CourseId = {a1, a2}
    Task = {t1, t2}
    Worlds <- TakenBack
PROPERTIES
    DeadCodeDies
CHECK_DEADLOCK FALSE
