SPECIFICATION Spec
CONSTANTS
    None = None
    Users = {u1, u2}
    Projects = {p1}
    Requests = {r1, r2}
    Second = 1
    TokenHolders = {u1, u2}
    Operators = {}
    OperatorRole = operators
    Lifetimes = {1}
    TokenLifeTime = 1
    RefreshLife = 1
    PageLimit = 1
    MaxLLT = 5
    Limits = {None}
    Offsets = {None}
    Ops = {"create", "revoke", "deleteOne", "revokeList", "validate"}
    MaxTokens = 2
    MaxRefresh = 0
    MaxClock = 2
SYMMETRY Symmetry
INVARIANTS AckedIsFinal NeverValidAgain RevokeListExact
PROPERTIES ImplementsLedger RemovalJustified OnlyOwnerRevokes
CHECK_DEADLOCK FALSE
