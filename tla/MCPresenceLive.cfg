SPECIFICATION FairSpec
CONSTANTS
    Settings <- Sessions
    Sockets = {}
    TTL = 1
    Threshold = 1
    Grace = 1
    Timeout = 2
    Old = 3
    BeatAges = {0}
    MaxOps = 2
    MaxFaults = 1
    None = None
PROPERTIES SilentIsClosed HeartbeatHeals
CHECK_DEADLOCK FALSE
