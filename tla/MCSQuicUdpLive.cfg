SPECIFICATION Spec
CONSTANTS
    Assocs = {a1, a2}
    a1 = a1
    a2 = a2
    Dests = {d1}
    Setups <- MCLive
    NoRoute = NoRoute
    IdSpace = 2
    ChanCap = 1
    MaxSends = 2
PROPERTIES
    LoopKeepsUp
    NothingStays
CHECK_DEADLOCK FALSE
