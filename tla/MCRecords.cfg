SPECIFICATION FairSpec
CONSTANTS
    Requests = {r1, r2, r3}
    Routes <- Compared
    MaxFaults = 1
    None = None
    Original = Original
INVARIANTS NoLostUpdate ClientsCanCatchUp
PROPERTIES ImplementsRegister EveryoneIsServed
CHECK_DEADLOCK FALSE
