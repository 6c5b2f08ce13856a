SPECIFICATION Spec
CONSTANTS
    Users = {u1, u2}
    Operators = {u2}
    Requests = {r1, r2, r3}
    Threads = 1
    TokenLife = 1
    CookieEnd = 1
    None = None
    MaxTokens = 1
    MaxClock = 2
SYMMETRY Symmetry
INVARIANTS RevokedActsBounded
PROPERTIES OutStaysOut
CHECK_DEADLOCK FALSE
