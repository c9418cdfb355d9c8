SPECIFICATION Spec
CONSTANTS
    s1 = s1
    s2 = s2
    n1 = n1
    n2 = n2
    a = a
    b = b
    k1 = k1
    k2 = k2
    t1 = t1
    t2 = t2
    l1 = l1
    l2 = l2
    None = None
    Scenarios = {s1, s2}
    First = s1
    Names = {n1, n2}
    Courses = {a}
    Terms = {k1, k2}
    Limits = {l1, l2}
    Tabs = {t1, t2}
    MaxVersion = 4
SYMMETRY
    InstanceSymmetry
CHECK_DEADLOCK FALSE
INVARIANTS
    ProjectionMatchesCourses
    GuardedEditSawTheScenario
PROPERTIES
    LockedCourseStays
