SPECIFICATION Spec
CONSTANTS
    Creates = {c1}
    Updates = {u1}
    Reads = {q1}
    TeamWriters = {e1, e2}
    Outside = {e2}
    MaxRetries = 3
    MaxRestarts = 0
    NoBoard = NoBoard
INVARIANTS GivesUpOnlyUnderContention
PROPERTIES SavesOnlyAdd
CHECK_DEADLOCK FALSE
