SPECIFICATION Spec
CONSTANTS
    Settings <- AllSettings
    Sockets = {s1}
    TTL = 1
    Threshold = 1
    Grace = 1
    Timeout = 3
    Old = 3
    BeatAges = {0}
    MaxOps = 2
    MaxFaults = 0
    None = None
INVARIANTS ActivityIsNeverOverstated BeatingIsNeverStale
PROPERTIES TimerSparesTheConnected
CHECK_DEADLOCK FALSE
