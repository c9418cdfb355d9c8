SPECIFICATION Spec
CONSTANTS
    NumPolicies = 2
    ada = ada
    ben = ben
    Admins = {ada, ben}
    Editors = {ada}
    Reviewers = {ben}
    Contexts = {"ADMISSION", "PLAN_TRANSITION"}
    r1 = r1
    r2 = r2
    Revisions = {r1, r2}
    plan = plan
    PlanOf <- MCPlanOf
    InitialRevisions <- MCInitialRevisions
    Cohorts = {}
    MaxDate = 3
    Contents <- MCContents
    None = None
    e1 = e1
    e2 = e2
    Enrollments = {e1, e2}
    s1 = s1
    StudentOf <- MCStudentOf
    ContextOf <- MCContextOf
    AdmissionDate <- MCAdmissionDate
    CohortOf <- MCCohortOf
    f1 = f1
    f2 = f2
    Facts = {f1, f2}
    ReferenceOf <- MCReferenceOf
    SubjectOf <- MCSubjectOf
    z1 = z1
    Authorizations = {z1}
    OverrideTargets = {r2}
INVARIANTS
    OnePolicyDecides
    DecisionsExplainTheRow
    EvidenceBacksOneDecision
PROPERTIES
    DecidedByTheRulesInForce
CHECK_DEADLOCK FALSE
