SPECIFICATION PartsSpec
CONSTANTS
    Assessor = {e1}
    Step = {"step1", "step2", "step4"}
    Datasets = 4
    Hf = {1, 3}
    Licensed = {1, 2, 4}
    MAX_FINALISTS = 2
    MAX_REPLANS = 1
    MaxJudged = 2
    MaxAssessments = 2
    None = None
    User = {u1}
    Handler = {h1}
    Executor = {d1, d2}
    MaxRuns = 5
    MaxCalls = 2
    Ceiling = 6
    Cap = 3
    MaxCall = 5
    Charge = {4, 5}
    Grain = 3
    Tab = {d1, d2}
    Topic = {a, b, c, d}
    Id = {1, 2, 3, 4}
    RECENT_SEARCH_LIMIT = 2
    MaxTime = 1
SYMMETRY Symmetry
INVARIANTS TypesOK VerdictsAreBacked SpendIsBounded RecentsAreRight
PROPERTIES RunsAreBounded
CHECK_DEADLOCK FALSE
