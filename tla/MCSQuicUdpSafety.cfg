SPECIFICATION Spec
CONSTANTS
    Assocs = {a1, a2}
    a1 = a1
    a2 = a2
    Dests = {d1, d2}
    Setups <- MCSafety
    NoRoute = NoRoute
    IdSpace = 2
    ChanCap = 1
    MaxSends = 2
INVARIANTS
    WellFormed
    StreamsInOrder
PROPERTIES
    ServiceSpec
CHECK_DEADLOCK FALSE
