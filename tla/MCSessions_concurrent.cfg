SPECIFICATION Spec
CONSTANTS
    Request = {r1, r2}
    MaxTokens = 3
    MaxPasswords = 1
    Expiring = {1}
    NoRow = NoRow
    Null = Null
    UserRow = UserRow
    LinkRow = LinkRow
SYMMETRY Symmetry
INVARIANTS TypeOK SessionsDoNotFork DeadlocksAreKnown SerialSessionsAreTrue
CHECK_DEADLOCK FALSE
