CONSTANTS
    NumSlots = 2
    SessionCount = 4
    MaxConns = 2
    MaxPings = 0
    MaxNet = 2
SPECIFICATION Spec
INVARIANTS
    EventPairing
    UniqueConnection
    SessionAgreement
PROPERTY
    EventsRefined
CHECK_DEADLOCK FALSE
