SPECIFICATION Spec
CONSTANTS
    t1 = t1  t2 = t2  t3 = t3  s1 = s1  s2 = s2  r1 = r1
    NoTask = NoTask  NoSession = NoSession  Keep = Keep
    TaskIds = {t1, t2}
    Sessions = {s1}
    Refs = {r1}
    MaxDepth = 1
    MaxBlockers = 1
    CreateStatuses = {"todo"}
    RefSets <- NoRefs
    FlagSets <- PlainFlags
    UpdateStatuses = {Keep}
    UpdateParents <- Moves
    UpdateAssignees = {}
    UpdateRefs <- None
    LockModes = {}
SYMMETRY SymmetryTasks2
PROPERTIES BlockedChildStaysVisible
CHECK_DEADLOCK FALSE
