CONSTANTS
    NumSlots = 1
    SessionCount = 4
    MaxConns = 1
    MaxPings = 1
    MaxNet = 2
SPECIFICATION Spec
PROPERTY
    Settles
CHECK_DEADLOCK FALSE
