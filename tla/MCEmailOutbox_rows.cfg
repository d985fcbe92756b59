SPECIFICATION FairSpec
CONSTANTS
    Drainer = {d1, d2}
    Kinds = {"link", "forgot"}
    MaxMails = 2
    MaxAttempts = 2
    Base = 1
    Cap = 2
    HandleBy = 1
    Stale = 1
    Cooldown = 2
    Faults = {"crash", "slow", "reply", "dberror"}
    MaxFaults = 2
    NoRow = NoRow
    NoMail = NoMail
    Null = Null
INVARIANTS TypeOK ClaimsAreSafe
PROPERTIES NothingLostOrRevived EventuallySettled
