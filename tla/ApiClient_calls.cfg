SPECIFICATION FairSpec
CONSTANTS
    Mount = {m1, m2}
    Call = {c1, c2}
    Reload = {c2}
    Visited = {"home", "login", "account"}
    MaxEvents = 2
INVARIANTS TypeOK SpentCookieNeverSent
PROPERTIES NoBounce TasksEnd
CHECK_DEADLOCK FALSE
