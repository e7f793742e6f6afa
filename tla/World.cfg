CONSTANTS
    Users = {me, u1}
    Me = me
    Positions = {p0, p1}
    Origin = p0
    MaxNetId = 4
    MaxWorlds = 2
    MaxBox = 3
SPECIFICATION Spec
INVARIANTS
    ListTracks
    
    LocalTracks
CHECK_DEADLOCK FALSE
