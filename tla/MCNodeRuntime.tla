--------------------------- MODULE MCNodeRuntime ---------------------------
EXTENDS NodeRuntime

CONSTANTS own, p1, p2, edge, obj

MCPeers == {p1, p2}

\* A profile of the own node from outside, a peer's and an object's withdrawal,
\* the next version of an edge and of a peer, and a new object.
MCInputs == {[rid |-> own, version |-> 9], [rid |-> obj, version |-> 1],
             [rid |-> obj, version |-> Forget], [rid |-> edge, version |-> 2],
             [rid |-> p1, version |-> Forget], [rid |-> p1, version |-> 2]}
MCRequests == {{own, obj, p1}}
=============================================================================
