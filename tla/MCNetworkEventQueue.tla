------------------------ MODULE MCNetworkEventQueue ------------------------
(* Names for the nodes of NetworkEventQueue, for TLC: a first contact, whose *)
(* address is configured, and another peer, which must be cached to be known. *)
EXTENDS NetworkEventQueue

CONSTANTS coordinator, other, none

=============================================================================
