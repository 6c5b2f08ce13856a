SPECIFICATION Spec
CONSTANTS
    None = None
    Users = {u1, u2}
    Projects = {p1}
    Requests = {r1}
    Second = 1
    TokenHolders = {u1, u2}
    Operators = {u2}
    OperatorRole = operators
    Lifetimes = {1}
    TokenLifeTime = 1
    RefreshLife = 1
    PageLimit = 5
    MaxLLT = 5
    Limits = {None}
    Offsets = {None}
    Ops = {"create", "revoke"}
    MaxTokens = 1
    MaxRefresh = 0
    MaxClock = 0
INVARIANTS OperatorFindsAll
CHECK_DEADLOCK FALSE
