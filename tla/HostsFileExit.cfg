CONSTANTS
    MaxRuns = 1
    MaxRequests = 1
SPECIFICATION Spec
INVARIANT
    ExitFixesHosts
CHECK_DEADLOCK FALSE
