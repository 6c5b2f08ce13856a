CONSTANTS
    p1 = p1
    p2 = p2
    net = net
    leads = leads
    Projects = {p1, p2}
    Terms = {net}
    All = all
    Absent = absent
    GlobalRoles = {leads}
    Lives = {1, 2}
    ShortLife = 1
    VouchCookies = TRUE
    AtFirst <- MCAtFirst
    MaxEdits = 2
    N = 5
    Limit = 2
    MaxListChanges = 3
SPECIFICATION RegistrySpec
INVARIANTS
    ClaimsHeld
    LongLivedForHolders
    ExactWhenQuiet
    MissedOrTwice
PROPERTIES Ends
CHECK_DEADLOCK FALSE
