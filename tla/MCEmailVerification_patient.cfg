SPECIFICATION FairSpec
CONSTANTS
    User = {u1, u2}
    Email = {e1, e2}
    Request = {r1, r2}
    Patient = {u1}
    MaxTokens = 2
    NoRow = NoRow
    Null = Null
INVARIANTS TypeOK PatientVerifiedMeansOwned PatientAccountIsSafe
PROPERTIES RequestsEnd
CHECK_DEADLOCK FALSE
