SPECIFICATION FairSpec
CONSTANTS
    None = None
    Users = {u1}
    Projects = {p1}
    Requests = {r1, r2}
    Second = 2
    TokenHolders = {u1}
    Operators = {}
    OperatorRole = operators
    Lifetimes = {2}
    TokenLifeTime = 1
    RefreshLife = 2
    PageLimit = 1
    MaxLLT = 0
    Limits = {None}
    Offsets = {None}
    Ops = {"create", "refresh", "deleteAll", "list"}
    MaxTokens = 2
    MaxRefresh = 1
    MaxClock = 3
INVARIANTS RowWithinToken DeleteAllDeletesAll ListComplete
PROPERTIES Answered
CHECK_DEADLOCK FALSE
