SPECIFICATION ScreensSpec
CONSTANTS
    None = None
    MaxMounts = 2
    OwnLink = TRUE
    Job = {j1}
    Model = {"step0", "step1"}
    Dataset = {"xor", "mnist"}
    Field = {"epochs"}
    MaxMoves = 1
    JobPolls = 2
    Topic = {t1}
    MaxRuns = 2
    MaxEvents = 1
    RunPolls = 1
    FrameGap = 60
    Unwritten = "nowhere"
    Example = {"tiny", "xor"}
    Epochs = 500
    MaxPieces = 4
    Shelf = {"wine", "tides"}
INVARIANTS
    TypesOK FormsTellTheTruth RestingRowsAreTrue PagesFollowRoutes FinishIsAnnounced
    OneFrameLoop LinksShowSomething LogNeverFreezes SliceIsItsBlock
\* An author stops typing after MaxPieces, an account page may have nothing left to do.
CHECK_DEADLOCK FALSE
