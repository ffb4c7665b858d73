SPECIFICATION Spec
CONSTANTS
    PacketIds <- MCPacketIds
    Addresses = {a1}
    Payloads <- MCPayloads
    Foreign <- MCForeign
    NoPart = NoPart
    MaxFragments = 3
    MaxUdpSize = 3
    FragmentLifetime = 1
    QueueCap = 1
    IdSpace = 2
    CounterSpace = 3
    Lengths <- MCLengths
    Rooms = {1}
    MaxSends = 3
INVARIANTS
    WellFormed
    NothingWithheld
    MixesOnlyOneId
PROPERTIES
    ServiceSpec
