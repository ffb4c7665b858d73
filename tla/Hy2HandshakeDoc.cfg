\* PROTOCOL.md on the server's Hysteria-CC-RX header, against the code.
SPECIFICATION Spec
CONSTANTS
    Callers = {c1}
    Rates = {0, 1}
    None = None
INVARIANTS
    RespondsWithReceiveRate
CHECK_DEADLOCK FALSE
