\* Two calls of wait_inactive and a timeout of two ticks.
SPECIFICATION TimersSpec
CONSTANTS
    Calls = {w1, w2}
    Timeout = 2
PROPERTIES
    ReleasedWhenQuiet
    QuietIsReleased
