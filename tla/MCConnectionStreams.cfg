SPECIFICATION Spec
CONSTANTS
    Hosts <- MCHosts
    Form <- MCForm
    Length <- MCLength
    Canonical <- MCCanonical
    MaxAddress = 66
    MaxPadding = 128
    Streams = {s1}
    Ports = {80}
    Cuts = {1, 2, 7, 64, 65, 66, 67, 130}
    Paddings = {64}
    MaxData = 2
    Requests = {1, 2}
    Chunks = {1, 2}
    MaxBody = 1
    Responses <- MCResponses
INVARIANTS
    RightDestination
    StreamsIntact
    BodiesWhole
    AnswersConsistent
PROPERTIES
    ConnectReturns
    RequestsAnswered
CHECK_DEADLOCK FALSE
