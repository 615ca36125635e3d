SPECIFICATION Spec
CONSTANTS
    t1 = t1  t2 = t2  t3 = t3  s1 = s1  s2 = s2  r1 = r1
    NoTask = NoTask  NoSession = NoSession  Keep = Keep
    TaskIds = {t1, t2}
    Sessions = {s1, s2}
    Refs = {r1}
    MaxDepth = 1
    MaxBlockers = 0
    CreateStatuses = {"todo"}
    RefSets <- OneRef
    FlagSets <- PlainFlags
    UpdateStatuses = {Keep, "done"}
    UpdateParents <- None
    UpdateAssignees = {s1}
    UpdateRefs <- EditRefs
    LockModes = {"manual-status"}
SYMMETRY SymmetryTasks2
INVARIANTS OneExecutor
PROPERTIES ClosingReleases OverlapOnlyByEditing AgentsRespectLock
CHECK_DEADLOCK FALSE
