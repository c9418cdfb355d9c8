SPECIFICATION Spec
CONSTANTS
    NumRevisions = 2
    a = a
    b = b
    c = c
    ana = ana
    t1 = t1
    t2 = t2
    None = None
    Plan = Plan
    Institution = Institution
    Proposals = {a, b}
    Candidate <- ThreeProposals
    Differing = {}
    Enrollments = {ana}
    Basis <- OnFirst
    Txns = {t1, t2}
CHECK_DEADLOCK FALSE
PROPERTY
    PublishedOnlyMovesOn
