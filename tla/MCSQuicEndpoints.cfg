SPECIFICATION Spec
CONSTANTS
    None = None
    Callers = {c1, c2}
    Updates = {1, 2}
    Streams = {s1, s2}
    AcceptCap = 1
    Scenes <- MCScenes
INVARIANTS
    OneConnection
    UpdateHeals
PROPERTIES
    ServedUnderCurrentOptions
    CallersAnswered
    CloseEndsAccept
    AbandonedIsReleased
CHECK_DEADLOCK FALSE
