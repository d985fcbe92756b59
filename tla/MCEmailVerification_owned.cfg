SPECIFICATION Spec
CONSTANTS
    User = {u1}
    Email = {e1, e2}
    Request = {r1, r2}
    Patient = {}
    MaxTokens = 3
    NoRow = NoRow
    Null = Null
SYMMETRY Symmetry
INVARIANTS VerifiedMeansOwned
CHECK_DEADLOCK FALSE
