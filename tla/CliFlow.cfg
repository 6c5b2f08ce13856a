SPECIFICATION FairSpec
CONSTANTS
    Logins = {c1, c2}
    Projects = {1, 2}
    Lifetimes = {4, 9}
    DefaultLife = 4
    LongestLife = 8
    None = None
    MaxFaults = 1
INVARIANTS TokenAsAsked NotAgainAfterPage OneTokenPerTab
PROPERTIES Served
CHECK_DEADLOCK FALSE
