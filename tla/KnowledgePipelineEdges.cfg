SPECIFICATION Spec
CONSTANTS
    me = me
    p = p
    q = q
    o = o
    a = a
    b = b
    none = none
    None = none
    Me = me
    Peers = {p, q}
    Objects = {}
    Values = {a, b}
    Provides <- EdgProvides
    OwnType = "FULL"
    FirstContact = p
    Incoming <- EdgIncoming
    Served <- EdgServed
    Stored <- EdgStored
    StartClock = 3
    MaxInputs = 3
INVARIANTS TypeOK GraphMirrorsCache OnlyStampsLeaveProposals CoordinatorsContacted
PROPERTIES ForgottenNodeLosesEdges QueueDrains
CHECK_DEADLOCK FALSE
