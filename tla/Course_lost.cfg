SPECIFICATION Spec
CONSTANTS
    o1 = o1
    o2 = o2
    a1 = a1
    None = None
    Order = {o1, o2}
    CourseId = {a1, a2}
    Task = {t1, t2}
    Worlds <- Lost
INVARIANTS
    ParkedForAReason
    EveryCourseHasItsRow
CHECK_DEADLOCK FALSE
