CONSTANTS
    WINDOWS = 6
    WINDOW_SIZE = 2
    FREE_WINDOWS = 3
    DataWindow = 3
    MaxWaiting = 3
    Lifetime = 4
    StartSeq = 9
    FragmentCounts = {2}
    MaxPackets = 4
    MaxCommands = 5
    MaxQueued = 1
    MaxAcks = 1
    MaxNet = 2
SPECIFICATION Spec
INVARIANTS
    NoLossByAck
    WindowAccounting
PROPERTY
    Refinement
CHECK_DEADLOCK FALSE
