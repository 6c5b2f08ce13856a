SPECIFICATION Spec
CONSTANTS
    Projects = {p1, p2, p3}
    Service = {p3}
    None = None
    Calls = {c1, c2}
    MaxLists = 5
    MaxChanges = 2
INVARIANTS ListCurrent ListOfSelected
CHECK_DEADLOCK FALSE
