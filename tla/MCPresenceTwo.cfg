SPECIFICATION Spec
CONSTANTS
    Settings <- Sessions
    Sockets = {s1, s2}
    TTL = 1
    Threshold = 1
    Grace = 3
    Timeout = 4
    Old = 4
    BeatAges = {0}
    MaxOps = 1
    MaxFaults = 0
    None = None
PROPERTIES TimerSparesTheConnected
CHECK_DEADLOCK FALSE
