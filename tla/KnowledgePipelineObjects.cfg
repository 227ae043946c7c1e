SPECIFICATION Spec
CONSTANTS
    me = me
    p = p
    q = q
    o = o
    a = a
    b = b
    none = none
    None = none
    Me = me
    Peers = {p}
    Objects = {o}
    Values = {a, b}
    Provides <- ObjProvides
    OwnType = "FULL"
    FirstContact = none
    Incoming <- ObjIncoming
    Served <- ObjServed
    Stored <- ObjStored
    StartClock = 3
    MaxInputs = 3
INVARIANT SelfIsSelfMade
PROPERTIES CheckedMovesForward EventNamesTransition BroadcastTellsCache
CHECK_DEADLOCK FALSE
