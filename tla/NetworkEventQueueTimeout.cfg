SPECIFICATION Spec
CONSTANTS
    coordinator = coordinator
    other = other
    none = none
    None = none
    Peers = {coordinator, other}
    FirstContact = coordinator
    MaxEvents = 3
    MaxChanges = 2
PROPERTY UnreachedIsRequeued
CHECK_DEADLOCK FALSE
