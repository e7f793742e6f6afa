CONSTANTS
    Home = Home
    NULL = NULL
    Peers = {p1, p2}
    Servers = {s1}
    MaxConns = 2
    MaxMsgs = 2
    MaxBox = 2
SPECIFICATION Spec
PROPERTIES
    QueuesDrain
    DropNoticed
CHECK_DEADLOCK FALSE
