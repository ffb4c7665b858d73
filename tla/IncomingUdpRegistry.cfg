SPECIFICATION RegistrySpec
CONSTANTS
    Ids = {0, 1}
    Waiters = {w1, w2}
    Writers = {c1, c2}
INVARIANTS
    NoLostWakeup
PROPERTIES
    WaitersReleased
