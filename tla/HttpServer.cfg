CONSTANTS
    Conns = {c1, c2}
    Requests <- MCRequests
    Timeout = 1
    FD_SETSIZE = 2
    NoLength = NoLength
SPECIFICATION Spec
SYMMETRY Symmetry
INVARIANTS
    StreamLife
    WholeRequest
    AnswerComplete
    SilentEnd
PROPERTIES
    ReadyNotExpired
CHECK_DEADLOCK FALSE
