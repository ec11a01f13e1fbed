SPECIFICATION Spec
CONSTANTS
    o1 = o1
    o2 = o2
    a1 = a1
    a2 = a2
    t1 = t1
    t2 = t2
    c1 = c1
    c2 = c2
    None = None
    Bag <- TwoArticles
    Task = {t1, t2}
    CourseId = {a1, a2}
    Cmd = {c1, c2}
    Worlds <- RetiredWhole
PROPERTIES
    LeavesWhole
CHECK_DEADLOCK FALSE
