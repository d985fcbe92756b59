SPECIFICATION FairSpec
CONSTANTS
    User = {u1}
    Drain = {d1, d2}
    Cli = {d2}
    Topic = {t1}
    Step = {"step1", "step2"}
    Shelf = {"step1"}
    MaxRuns = 2
    BeatBy = 1
    Stale = 1
    Faults = {"lost", "slow"}
    MaxFaults = 1
    NoRow = NoRow
    NoRun = NoRun
    NoUser = NoUser
    NoCell = NoCell
    Null = Null
INVARIANTS TypeOK RunsAreKept SuccessIsBacked
PROPERTIES SlotFreed
CHECK_DEADLOCK FALSE
