SPECIFICATION Spec
CONSTANTS
    coordinator = coordinator
    other = other
    none = none
    None = none
    Peers = {coordinator, other}
    FirstContact = coordinator
    MaxEvents = 3
    MaxChanges = 2
INVARIANTS TypeOK AtMostOnce InOrder RequeueNeverDrops HandshakesGoWhole
PROPERTIES ImplementsOutbox LostOnlyOnTheWire
CHECK_DEADLOCK FALSE
