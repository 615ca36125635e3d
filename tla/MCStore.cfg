SPECIFICATION FairSpec
CONSTANTS
    Creates = {c1, c2}
    Updates = {u1}
    Reads = {}
    TeamWriters = {}
    Outside = {}
    MaxRetries = 2
    MaxRestarts = 1
    NoBoard = NoBoard
PROPERTIES ImplementsLedger EveryRequestIsAnswered
CHECK_DEADLOCK FALSE
