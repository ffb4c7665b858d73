\* Two session ids, one stream, a queue and channels of one item.
SPECIFICATION Spec
CONSTANTS
    Ids = {i1, i2}
    Streams = {t1}
    AcceptCap = 1
    ChanCap = 1
    MaxMessages = 2
INVARIANTS
    WellFormed
    SessionBeginsWithItsPacket
PROPERTIES
    AnsweredIsHanded
    LoopGoesOn
CHECK_DEADLOCK FALSE
