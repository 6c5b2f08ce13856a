SPECIFICATION Spec
CONSTANTS
    None = None
    Users = {u1}
    Projects = {p1}
    Requests = {r1}
    Second = 1
    TokenHolders = {u1}
    Operators = {}
    OperatorRole = operators
    Lifetimes = {1}
    TokenLifeTime = 0
    RefreshLife = 1
    PageLimit = 5
    MaxLLT = 5
    Limits = {None}
    Offsets = {None}
    Ops = {"create"}
    MaxTokens = 7
    MaxRefresh = 0
    MaxClock = 0
INVARIANTS LLTOvershootBounded
CHECK_DEADLOCK FALSE
