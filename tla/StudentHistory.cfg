SPECIFICATION Spec
CONSTANTS
    c1 = c1
    c2 = c2
    mixed = mixed
    torn = torn
    full = full
    broken = broken
    wrong = wrong
    twice = twice
    None = None
    Bad = Bad
    MaxRecords = 2
    Clients = {c1, c2}
    Courses = {1, 2}
    Terms = {1, 2}
    Files = {mixed, torn, full, broken, wrong, twice}
    Contents <- SmallFiles
    Codes <- SmallCodes
    Credits <- SmallCredits
    Decisions <- SomeDecisions
    Requests <- SomeRequests
    Closings <- LastTermOfFirst
    MaxAttempts = 2
    MaxVersion = 2
    MaxDecisions = 2
    MaxFiles = 1
SYMMETRY
    InstanceSymmetry
CHECK_DEADLOCK FALSE
INVARIANTS
    NumbersNeverCollide
    AppliedExactlyOnce
    ConfirmsWhatWasReviewed
    WrittenInAValidTerm
    SerialAuditIsCurrent
