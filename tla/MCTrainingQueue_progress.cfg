SPECIFICATION FairSpec
CONSTANTS
    User = {u1, u2}
    Worker = {w1, w2}
    MaxJobs = 2
    BeatEvery = 1
    BeatBy = 1
    Stale = 1
    Faults = {"signal", "crash", "dberror"}
    MaxFaults = 2
    NoRow = NoRow
    NoJob = NoJob
    Null = Null
PROPERTIES ImplementsLifecycle SlotFreed
CHECK_DEADLOCK FALSE
