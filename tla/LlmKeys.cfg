SPECIFICATION Spec
CONSTANTS
    Operators = {}
    OperatorRole = operators
    Users = {u1, u2}
    Members = {u1}
    Requests = {r1, r2}
    MaxLlmKeys = 1
    Durations = {1, 2}
    MaxDuration = 1
    None = None
    MaxKeys = 3
    MaxClock = 2
    MaxFaults = 1
SYMMETRY Symmetry
INVARIANTS Recorded LlmQuotaBounded ListingComplete
PROPERTIES ErasureJustified
CHECK_DEADLOCK FALSE
