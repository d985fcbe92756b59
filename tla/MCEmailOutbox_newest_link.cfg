SPECIFICATION Spec
CONSTANTS
    Drainer = {d1, d2}
    Kinds = {"forgot"}
    MaxMails = 4
    MaxAttempts = 2
    Base = 1
    Cap = 2
    HandleBy = 1
    Stale = 1
    Cooldown = 2
    Faults = {}
    MaxFaults = 0
    NoRow = NoRow
    NoMail = NoMail
    Null = Null
SYMMETRY Symmetry
INVARIANTS OnlyNewestLinkWorks
