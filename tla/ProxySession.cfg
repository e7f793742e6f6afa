CONSTANTS
    Home = Home
    NULL = NULL
    Peers = {p1, p2}
    Servers = {s1}
    MaxConns = 2
    MaxMsgs = 4
    MaxBox = 2
SPECIFICATION Spec
SYMMETRY PeerSymmetry
INVARIANTS
    UpstreamUsable
    SessionTarget
    NoGhostWorld
    DanglingOnlyInSwitch
    GtPeerIsClient
PROPERTY
    EstablishedForwards
CHECK_DEADLOCK FALSE
