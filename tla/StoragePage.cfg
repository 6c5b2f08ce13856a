SPECIFICATION Spec
CONSTANTS
    Clusters = {k1, k2}
    Kinds = {volumes, users}
    Volumes = volumes
    Groups = groups
    Members = aside
    Dropdown = aside
    Items = {i1, i2}
    None = None
    MaxActs = 2
    MaxFaults = 1
INVARIANTS ListOfCluster BatchExact
PROPERTIES SpinnerEnds
CHECK_DEADLOCK FALSE
