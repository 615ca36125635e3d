SPECIFICATION Spec
CONSTANTS
    u1 = u1  u2 = u2  s1 = s1  s2 = s2  c1 = c1  c2 = c2  t1 = t1  f1 = f1  f2 = f2
    None = None
    Clients = {c1, c2}
    Users = {u1, u2}
    Sessions = {s1, s2}
    Ids = {t1}
    FreshIds = {f1, f2}
    Registrations <- TheRegistrations
    SeatPlans <- ThePlans
    Worlds <- TheWorlds
    Named = {{s1, s2}}
    MaxCalls = 2
SYMMETRY Symmetry
INVARIANTS RegistrationIsExact OverviewIsCurrent
PROPERTIES OwnersAreForever BatchCleansRosters
CHECK_DEADLOCK FALSE
