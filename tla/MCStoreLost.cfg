SPECIFICATION Spec
CONSTANTS
    Creates = {}
    Updates = {u1}
    Reads = {}
    TeamWriters = {e1}
    Outside = {}
    MaxRetries = 1
    MaxRestarts = 0
    NoBoard = NoBoard
INVARIANTS ToldIsStored
CHECK_DEADLOCK FALSE
