SPECIFICATION Spec
CONSTANTS
    Clients = {a, b}
    None = None
    MaxGiven = 3
    MaxFaults = 1
INVARIANTS RefreshedUsable RevokedStaysDead OneTokenPerRefresh
CHECK_DEADLOCK FALSE
