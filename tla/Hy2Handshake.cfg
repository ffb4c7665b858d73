\* Every configuration of the two endpoints, two callers.
SPECIFICATION Spec
CONSTANTS
    Callers = {c1, c2}
    Rates = {0, 1, 2}
    None = None
INVARIANTS
    SingleFlight
    OnlyEstablished
    RatesAgreed
PROPERTIES
    CallersAnswered
CHECK_DEADLOCK FALSE
