CONSTANTS
    MaxRuns = 3
    MaxRequests = 2
SPECIFICATION Spec
INVARIANTS
    NoSelfRequest
    ServedPatched
CHECK_DEADLOCK FALSE
