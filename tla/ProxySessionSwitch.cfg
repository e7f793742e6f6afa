CONSTANTS
    Home = Home
    NULL = NULL
    Peers = {p1, p2}
    Servers = {s1}
    MaxConns = 2
    MaxMsgs = 3
    MaxBox = 2
SPECIFICATION Spec
PROPERTY
    SwitchSurvives
CHECK_DEADLOCK FALSE
