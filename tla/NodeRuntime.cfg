SPECIFICATION Spec
CONSTANTS
    own = own
    p1 = p1
    p2 = p2
    edge = edge
    obj = obj
    Own = own
    Edge = edge
    Obj = obj
    Peers <- MCPeers
    Inputs <- MCInputs
    Requests <- MCRequests
    MaxCalls = 2
    MaxCrashes = 2
    MaxStops = 1
    MaxProfile = 2
INVARIANTS
    TypeOK
    AnswersWereTrue
    StopLosesNothing
    OwnBundleIsCurrent
    IdentityHasItsKey
PROPERTIES
    MissMeansNobodyHas
    StartsAndStopsEnd
CHECK_DEADLOCK FALSE
