SPECIFICATION Spec
CONSTANTS
    c = c
    p = p
    None = none
    MaxEarly = 1
    MaxRestarts = 1
INVARIANTS NodesKnowEachOther NoEdgeWithoutProposer
PROPERTIES SubscribedUnlessRestarted
CHECK_DEADLOCK FALSE
