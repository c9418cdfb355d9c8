SPECIFICATION Spec
CONSTANTS
    r1 = r1
    r2 = r2
    p1 = p1
    p2 = p2
    c1 = c1
    None = None
    Runs = {r1, r2}
    Processes = {p1, p2}
    Cancels = {c1}
    MaxJobs <- SmallTables
    MaxThreads = 1
    Passes = 2
    MaxFaults = 1
CHECK_DEADLOCK FALSE
INVARIANTS
    SlotsAreJobs
PROPERTIES
    RefinesLifecycle
    RunsEnd
    StoppedRunsEnd
