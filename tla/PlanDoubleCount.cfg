SPECIFICATION Spec
CONSTANTS
    None = None
    k1 = k1
    k2 = k2
    NumCourses = 3
    NumGroups = 3
    Externals = {k1, k2}
    MaxAttempts = 3
    Studies <- SolverStudies
    AuditRule <- AllRules
    Nesting <- AllDepths
INVARIANT NoCourseCountsTwice
CHECK_DEADLOCK FALSE
