---------------------------- MODULE MCTaskBoard ----------------------------
(* Small boards for TLC.                                                    *)
EXTENDS TaskBoard, TLC

CONSTANTS t1, t2, t3, s1, s2, r1

\* DEFAULT_STATUS_PROPAGATION, and the same with cascading deletion.
Default == [autoCompleteParent |-> TRUE, blockParentOnBlocked |-> TRUE,
            cascadeDeleteSubtasks |-> FALSE]
Cascade == [Default EXCEPT !.cascadeDeleteSubtasks = TRUE]

PlainFlags == {Default}
CascadeFlags == {Cascade}
NoRefs == {{}}
OneRef == {{}, {r1}}
EditRefs == {{r1}}
None == {}
Moves == {NoTask, t1, t2}
Symmetry3 == Permutations({t1, t2, t3})
SymmetryTasks2 == Permutations({t1, t2})
=============================================================================
