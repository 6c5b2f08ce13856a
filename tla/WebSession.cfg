SPECIFICATION Spec
CONSTANTS
    Users = {u1, u2}
    Enrolled = {u1}
    None = None
    Life = 3
    First = 1
    Second = 2
    LeftFirst = 2
    LeftSecond = 1
    Calls = {c1, c2}
    MaxClock = 4
    MaxLogins = 2
INVARIANTS SameUser NotToldToLogIn NoEarlyLogout
PROPERTIES Settles
CHECK_DEADLOCK FALSE
