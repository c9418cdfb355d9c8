SPECIFICATION Spec
CONSTANTS
    None = None
    k1 = k1
    k2 = k2
    NumCourses = 3
    NumGroups = 3
    Externals = {k1, k2}
    MaxAttempts = 3
    Studies <- AllStudies
    AuditRule <- AllRules
    Nesting <- AllDepths
INVARIANTS
    ClashesAreReal
    PlanAgreesWithAudit
    ProposedPlansAreValid
    RefusedForAReason
    PagesTellTheTruth
    GraphIsExact
PROPERTIES
    CreditsOnlyGrow
    AnswersSurviveKnowledge
    GraphShowsWhatMatters
CHECK_DEADLOCK FALSE
