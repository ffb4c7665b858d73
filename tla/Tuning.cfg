SPECIFICATION TuningSpec
CONSTANTS
    Switchers = {s1, s2}
    Rates = {0, 5}
    InitialMtu = 1
    Mtus = {1, 2}
    MaxObjects = 2
    Rtts = {0, 7, 100}
    Cwnds = {0, 7}
    SendRate = 7
    MinimumSend = 3
    MinimumReceive = 4
    Nanos = 8
    Max64 = 15
    Max128 = 255
    MaxVarInt = 14
    MaxPackets = 2
INVARIANTS
    SwitchHolds
    WindowsFit
PROPERTIES
    TasksEndWithConnection
CHECK_DEADLOCK FALSE
