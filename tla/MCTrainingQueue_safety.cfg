SPECIFICATION Spec
CONSTANTS
    User = {u1, u2}
    Worker = {w1, w2}
    MaxJobs = 2
    BeatEvery = 1
    BeatBy = 2
    Stale = 2
    Faults = {"signal", "crash", "dberror", "pause"}
    MaxFaults = 3
    NoRow = NoRow
    NoJob = NoJob
    Null = Null
SYMMETRY Symmetry
INVARIANTS TypeOK JobsAreExclusive HealthyWorkerKeepsJob
PROPERTIES OutcomesAreKept
CHECK_DEADLOCK FALSE
