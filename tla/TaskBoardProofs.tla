--------------------------- MODULE TaskBoardProofs ---------------------------
(***************************************************************************)
(* What the board promises for any number of tasks, sessions and           *)
(* references, any nesting limit and cascading deletion on or off: type    *)
(* correctness, one executor for each task, the consistency of the tree of *)
(* subtasks when no request edits parentTaskId, and of every step that it  *)
(* respects locks, releases what it closes, and keeps overlapping work     *)
(* apart and blocked children visible.                                     *)
(***************************************************************************)
EXTENDS TaskBoard, FiniteSetTheorems, WellFoundedInduction, TLAPS

\* A map from tasks to well-formed tasks within the nesting limit.
IsBoard(b) ==
    /\ b \in [DOMAIN b -> KanbanTask]
    /\ DOMAIN b \subseteq TaskIds
    /\ \A t \in DOMAIN b : b[t].depth <= MaxDepth

\* The same tasks in the same tree.
SameTree(b, c) ==
    /\ DOMAIN c = DOMAIN b
    /\ \A x \in DOMAIN b : /\ c[x].parent = b[x].parent /\ c[x].depth = b[x].depth
                          /\ c[x].subtasks = b[x].subtasks

\* Closing links keeps them well formed and leaves no active one.
LEMMA CleanupLinks ==
    ASSUME NEW links \in [Sessions -> LinkStatuses], NEW owner
    PROVE  /\ CleanupActiveExecutionLinks(links, owner) \in [Sessions -> LinkStatuses]
           /\ \A s \in Sessions : CleanupActiveExecutionLinks(links, owner)[s] # "active"
BY DEF CleanupActiveExecutionLinks, LinkStatuses

\* The completion of a task moves parents to review: the board stays a board,
\* with the same tasks, and nobody becomes active.
LEMMA CompletionKeepsBoard ==
    ASSUME NEW b, IsBoard(b), NEW t
    PROVE  /\ IsBoard(HandleTaskCompletion(b, t))
           /\ SameTree(b, HandleTaskCompletion(b, t))
           /\ \A x \in DOMAIN b : Active(HandleTaskCompletion(b, t), x) \subseteq Active(b, x)
<1> DEFINE R == Climb(b, b[t].parent, ReadyForReview(b))
           c == HandleTaskCompletion(b, t)
<1>1. c = [x \in DOMAIN b |->
             IF x \in R
             THEN [b[x] EXCEPT !.status = "review",
                               !.links = CleanupActiveExecutionLinks(@, b[x].assignee)]
             ELSE b[x]]
  BY DEF HandleTaskCompletion
<1> HIDE DEF R, c
<1>2. DOMAIN c = DOMAIN b
  BY <1>1
<1>3. ASSUME NEW x \in DOMAIN b
      PROVE  /\ c[x] \in KanbanTask /\ c[x].depth <= MaxDepth
             /\ Active(c, x) \subseteq Active(b, x)
             /\ c[x].parent = b[x].parent /\ c[x].depth = b[x].depth
             /\ c[x].subtasks = b[x].subtasks
  <2>1. b[x] \in KanbanTask /\ b[x].depth <= MaxDepth
    BY DEF IsBoard
  <2>2. CASE x \in R
    <3> DEFINE l == CleanupActiveExecutionLinks(b[x].links, b[x].assignee)
    <3>1. b[x].links \in [Sessions -> LinkStatuses]
      BY <2>1 DEF KanbanTask
    <3>2. l \in [Sessions -> LinkStatuses] /\ \A s \in Sessions : l[s] # "active"
      BY <3>1, CleanupLinks
    <3> HIDE DEF l
    <3>3. c[x] = [b[x] EXCEPT !.status = "review", !.links = l]
      BY <1>1, <2>2 DEF l
    <3>4. c[x] \in KanbanTask
      BY <2>1, <3>2, <3>3 DEF KanbanTask, Statuses
    <3>5. /\ c[x].parent = b[x].parent /\ c[x].depth = b[x].depth
          /\ c[x].subtasks = b[x].subtasks /\ c[x].links = l
      BY <2>1, <3>3 DEF KanbanTask
    <3> QED
      BY <2>1, <3>2, <3>4, <3>5 DEF Active
  <2>3. CASE x \notin R
    BY <1>1, <2>1, <2>3 DEF Active
  <2> QED
    BY <2>2, <2>3
<1>4. c \in [DOMAIN c -> KanbanTask]
  BY <1>1, <1>2, <1>3
<1>5. DOMAIN b \subseteq TaskIds
  BY DEF IsBoard
<1> QED
  BY <1>2, <1>3, <1>4, <1>5 DEF IsBoard, SameTree, c

\* Recomputing or setting the blocked-child flag changes nothing else.
LEMMA FlagsKeepBoard ==
    ASSUME NEW b, IsBoard(b), NEW p
    PROVE  /\ IsBoard(PropagateBlockerToParent(b, p))
           /\ SameTree(b, PropagateBlockerToParent(b, p))
           /\ \A x \in DOMAIN b : Active(PropagateBlockerToParent(b, p), x) = Active(b, x)
           /\ IsBoard(UpdateParentBlockedStatus(b, p))
           /\ SameTree(b, UpdateParentBlockedStatus(b, p))
           /\ \A x \in DOMAIN b : Active(UpdateParentBlockedStatus(b, p), x) = Active(b, x)
<1>1. ASSUME NEW c, NEW F, c = [x \in DOMAIN b |-> [b[x] EXCEPT !.hasBlockedChild = (x \in F)]]
      PROVE  IsBoard(c) /\ SameTree(b, c)
             /\ \A x \in DOMAIN b : Active(c, x) = Active(b, x)
  <2>1. ASSUME NEW x \in DOMAIN b
        PROVE  /\ c[x] \in KanbanTask /\ c[x].depth = b[x].depth /\ c[x].links = b[x].links
               /\ c[x].parent = b[x].parent /\ c[x].subtasks = b[x].subtasks
    <3>1. b[x] \in KanbanTask
      BY DEF IsBoard
    <3>2. \/ c[x] = [b[x] EXCEPT !.hasBlockedChild = TRUE]
          \/ c[x] = [b[x] EXCEPT !.hasBlockedChild = FALSE]
      <4>1. c[x] = [b[x] EXCEPT !.hasBlockedChild = (x \in F)]
        BY <1>1
      <4>2. CASE x \in F
        <5>1. (x \in F) = TRUE
          BY <4>2
        <5> QED
          BY <4>1, <5>1, Zenon
      <4>3. CASE x \notin F
        <5>1. (x \in F) = FALSE
          BY <4>3
        <5> QED
          BY <4>1, <5>1, Zenon
      <4> QED
        BY <4>2, <4>3
    <3> QED
      BY <3>1, <3>2 DEF KanbanTask
  <2> QED
    BY <1>1, <2>1 DEF IsBoard, SameTree, Active
<1>2. ASSUME NEW c, NEW F,
             c = [x \in DOMAIN b |-> IF x \in F THEN [b[x] EXCEPT !.hasBlockedChild = TRUE]
                                     ELSE b[x]]
      PROVE  IsBoard(c) /\ SameTree(b, c)
             /\ \A x \in DOMAIN b : Active(c, x) = Active(b, x)
  <2>1. ASSUME NEW x \in DOMAIN b
        PROVE  /\ c[x] \in KanbanTask /\ c[x].depth = b[x].depth /\ c[x].links = b[x].links
               /\ c[x].parent = b[x].parent /\ c[x].subtasks = b[x].subtasks
    <3>1. b[x] \in KanbanTask
      BY DEF IsBoard
    <3>2. c[x] = b[x] \/ c[x] = [b[x] EXCEPT !.hasBlockedChild = TRUE]
      BY <1>2
    <3> QED
      BY <3>1, <3>2 DEF KanbanTask
  <2> QED
    BY <1>2, <2>1 DEF IsBoard, SameTree, Active
<1>3. IsBoard(PropagateBlockerToParent(b, p))
      /\ SameTree(b, PropagateBlockerToParent(b, p))
      /\ \A x \in DOMAIN b : Active(PropagateBlockerToParent(b, p), x) = Active(b, x)
  <2> DEFINE F == Climb(b, p, {x \in DOMAIN b : b[x].flags.blockParentOnBlocked})
             c == PropagateBlockerToParent(b, p)
  <2>1. c = [x \in DOMAIN b |-> IF x \in F THEN [b[x] EXCEPT !.hasBlockedChild = TRUE]
                                ELSE b[x]]
    BY DEF PropagateBlockerToParent
  <2> HIDE DEF F, c
  <2>2. IsBoard(c) /\ SameTree(b, c) /\ \A x \in DOMAIN b : Active(c, x) = Active(b, x)
    BY <1>2, <2>1
  <2> QED
    BY <2>2 DEF c
<1>4. IsBoard(UpdateParentBlockedStatus(b, p))
      /\ SameTree(b, UpdateParentBlockedStatus(b, p))
      /\ \A x \in DOMAIN b : Active(UpdateParentBlockedStatus(b, p), x) = Active(b, x)
  <2> DEFINE F == FlaggedAfter(b, p)
             c == UpdateParentBlockedStatus(b, p)
  <2>1. c = [x \in DOMAIN b |-> [b[x] EXCEPT !.hasBlockedChild = (x \in F)]]
    BY DEF UpdateParentBlockedStatus
  <2> HIDE DEF F, c
  <2>2. IsBoard(c) /\ SameTree(b, c) /\ \A x \in DOMAIN b : Active(c, x) = Active(b, x)
    BY <1>1, <2>1
  <2> QED
    BY <2>2 DEF c
<1> QED
  BY <1>3, <1>4

\* An operation on one task: replacing it by a task of the same depth.
LEMMA ReplaceTask ==
    ASSUME NEW b, IsBoard(b), NEW t \in DOMAIN b, NEW k \in KanbanTask,
           k.depth = b[t].depth
    PROVE  IsBoard([b EXCEPT ![t] = k])
BY DEF IsBoard

-----------------------------------------------------------------------------
Inv == TypeOK /\ OneExecutor

LEMMA InitInv == Init => Inv
<1> SUFFICES ASSUME Init PROVE Inv
  OBVIOUS
<1>1. DOMAIN board = {}
  BY DEF Init
<1> QED
  BY <1>1 DEF Init, Inv, TypeOK, OneExecutor

LEMMA CreateInv ==
    ASSUME Inv, NEW t \in TaskIds, NEW p \in TaskIds \cup {NoTask},
           NEW st \in CreateStatuses, NEW a \in UpdateAssignees \cup {NoSession},
           NEW f \in FlagSets, NEW r \in RefSets, CreateTask(t, p, st, a, f, r)
    PROVE  Inv'
<1> DEFINE depth == IF p = NoTask THEN 0 ELSE board[p].depth + 1
           new == [status |-> st, assignee |-> a, parent |-> p,
                   subtasks |-> {}, depth |-> depth, flags |-> f,
                   hasBlockedChild |-> FALSE,
                   links |-> [s \in Sessions |-> "none"],
                   open |-> 0, resolved |-> 0, lock |-> "none", refs |-> r]
<1>1. /\ t \in TaskIds \ used /\ (p = NoTask \/ p \in DOMAIN board)
      /\ depth <= MaxDepth
      /\ used' = used \cup {t}
      /\ board' = [x \in DOMAIN board \cup {t} |->
                     IF x = t THEN new
                     ELSE IF x = p
                     THEN [board[x] EXCEPT
                             !.subtasks = @ \cup {t},
                             !.status = IF @ = "todo" THEN "in-progress" ELSE @]
                     ELSE board[x]]
  BY DEF CreateTask, WithinNesting
<1>2. IsBoard(board) /\ used \subseteq TaskIds /\ DOMAIN board \subseteq used
  BY DEF Inv, TypeOK, IsBoard
<1>3. depth \in Nat
  <2>1. CASE p = NoTask
    BY <2>1
  <2>2. CASE p # NoTask
    <3>1. board[p] \in KanbanTask
      BY <1>1, <1>2, <2>2 DEF IsBoard
    <3>2. board[p].depth \in Nat
      BY <3>1 DEF KanbanTask
    <3> QED
      BY <2>2, <3>2
  <2> QED
    BY <2>1, <2>2
<1>4. new \in KanbanTask /\ new.depth <= MaxDepth /\ \A s \in Sessions : new.links[s] = "none"
  <2>1. st \in Statuses /\ a \in Sessions \cup {NoSession} /\ f \in Flags /\ r \subseteq Refs
    BY InputsAreLegal DEF InputsAreLegal
  <2> HIDE DEF depth
  <2> QED
    BY <1>1, <1>3, <2>1 DEF KanbanTask, LinkStatuses
<1> HIDE DEF new, depth
<1>5. ASSUME NEW x \in DOMAIN board, x # t
      PROVE  /\ board'[x] \in KanbanTask /\ board'[x].depth <= MaxDepth
             /\ board'[x].links = board[x].links
  <2>1. board[x] \in KanbanTask /\ board[x].depth <= MaxDepth
    BY <1>2 DEF IsBoard
  <2>2. CASE x = p
    <3> DEFINE status == IF board[x].status = "todo" THEN "in-progress" ELSE board[x].status
               subtasks == board[x].subtasks \cup {t}
    <3>1. board'[x] = [board[x] EXCEPT !.subtasks = subtasks, !.status = status]
      BY <1>1, <1>5, <2>2
    <3>2. status \in Statuses /\ subtasks \subseteq TaskIds
      BY <2>1 DEF KanbanTask, Statuses
    <3> HIDE DEF status, subtasks
    <3> QED
      BY <2>1, <3>1, <3>2 DEF KanbanTask
  <2>3. CASE x # p
    BY <1>1, <1>5, <2>1, <2>3
  <2> QED
    BY <2>2, <2>3
<1>6. DOMAIN board' = DOMAIN board \cup {t} /\ board'[t] = new
  BY <1>1
<1>7. TypeOK'
  BY <1>1, <1>2, <1>4, <1>5, <1>6 DEF TypeOK
<1>8. OneExecutor'
  BY <1>4, <1>5, <1>6 DEF Inv, OneExecutor, Active
<1> QED
  BY <1>7, <1>8 DEF Inv

-----------------------------------------------------------------------------
(* Every other operation replaces some tasks and then may propagate.        *)

\* A step to a board that satisfies the invariant, without new tasks.
LEMMA SameTasks ==
    ASSUME Inv, IsBoard(board'), DOMAIN board' \subseteq DOMAIN board, used' = used,
           \A x \in DOMAIN board' : \A s1, s2 \in Active(board', x) : s1 = s2
    PROVE  Inv'
<1>1. TypeOK'
  BY DEF Inv, TypeOK, IsBoard
<1>2. OneExecutor'
  BY DEF OneExecutor
<1> QED
  BY <1>1, <1>2 DEF Inv

\* The same for one changed task whose executors are still unique.
LEMMA OneChanged ==
    ASSUME Inv, NEW t \in DOMAIN board, NEW k \in KanbanTask, k.depth = board[t].depth,
           \A s1, s2 \in Sessions :
              k.links[s1] = "active" /\ k.links[s2] = "active" => s1 = s2
    PROVE  LET b == [board EXCEPT ![t] = k]
           IN /\ IsBoard(b) /\ DOMAIN b = DOMAIN board
              /\ \A x \in DOMAIN b : \A s1, s2 \in Active(b, x) : s1 = s2
              /\ k.parent = board[t].parent /\ k.subtasks = board[t].subtasks
                 => SameTree(board, b)
<1> DEFINE b == [board EXCEPT ![t] = k]
<1>1. IsBoard(board)
  BY DEF Inv, TypeOK, IsBoard
<1>2. IsBoard(b)
  BY <1>1, ReplaceTask
<1>3. DOMAIN b = DOMAIN board
  OBVIOUS
<1>4. ASSUME NEW x \in DOMAIN b, NEW s1 \in Active(b, x), NEW s2 \in Active(b, x)
      PROVE  s1 = s2
  <2>1. CASE x = t
    BY <2>1, <1>4 DEF Active
  <2>2. CASE x # t
    BY <2>2, <1>4 DEF Active, Inv, OneExecutor
  <2> QED
    BY <2>1, <2>2
<1>5. k.parent = board[t].parent /\ k.subtasks = board[t].subtasks => SameTree(board, b)
  BY DEF SameTree
<1> QED
  BY <1>2, <1>3, <1>4, <1>5

LEMMA ExecutorsOf ==
    ASSUME Inv, NEW t \in DOMAIN board
    PROVE  /\ board[t] \in KanbanTask
           /\ \A s1, s2 \in Sessions :
                 board[t].links[s1] = "active" /\ board[t].links[s2] = "active" => s1 = s2
<1>1. board[t] \in KanbanTask
  BY DEF Inv, TypeOK
<1> QED
  BY <1>1 DEF Inv, OneExecutor, Active

\* What an operation on one task leaves alone: its place in the tree, the flag of its
\* children, and the executors, who may only stop.
Keeps(k, old) ==
    /\ k.depth = old.depth /\ k.subtasks = old.subtasks
    /\ k.hasBlockedChild = old.hasBlockedChild
    /\ \A s \in Sessions : k.links[s] = "active" => old.links[s] = "active"

\* The task t of an update becomes k, and the board follows.
UpdatesTo(k, t, st, p, human) ==
    LET old == board[t]
        changes == st # Keep /\ st # old.status
        b == [board EXCEPT ![t] = k]
    IN /\ Keeps(k, old) /\ k.parent = p
       /\ k.status = IF changes THEN st ELSE old.status
       /\ changes => LockAllows(t, human)
       /\ st \in {"review", "done"} => \A s \in Sessions : k.links[s] # "active"
       /\ used' = used
       /\ board' = IF changes /\ st = "done" THEN HandleTaskCompletion(b, t)
                   ELSE IF changes /\ st = "blocked"
                   THEN PropagateBlockerToParent(b, old.parent)
                   ELSE b

\* A request that updates task t with values it may carry.
Updates(t, st, a, p, r, human) ==
    /\ t \in DOMAIN board /\ st \in Statuses \cup {Keep}
    /\ a \in UpdateAssignees \cup {board[t].assignee}
    /\ p \in UpdateParents \cup {board[t].parent}
    /\ r \in UpdateRefs \cup {board[t].refs}
    /\ UpdateTask(t, st, a, p, r, human)

LEMMA UpdateDoes ==
    ASSUME Inv, NEW t, NEW st, NEW a, NEW p, NEW r, NEW human,
           Updates(t, st, a, p, r, human)
    PROVE  \E k \in KanbanTask : UpdatesTo(k, t, st, p, human) /\ k.refs = r
<1> DEFINE old == board[t]
           changes == st # Keep /\ st # old.status
           status == IF changes THEN st ELSE old.status
           links == IF st \in {"review", "done"} THEN CleanupActiveExecutionLinks(old.links, a)
                    ELSE old.links
           lock == IF changes /\ human THEN "manual-status" ELSE old.lock
           k == [old EXCEPT !.status = status, !.assignee = a, !.parent = p, !.refs = r,
                            !.links = links, !.lock = lock]
           b == [board EXCEPT ![t] = k]
<1>0. /\ t \in DOMAIN board /\ st \in Statuses \cup {Keep}
      /\ a \in UpdateAssignees \cup {old.assignee} /\ p \in UpdateParents \cup {old.parent}
      /\ r \in UpdateRefs \cup {old.refs}
  BY DEF Updates
<1>1. old \in KanbanTask
  BY <1>0, ExecutorsOf
<1>2. /\ used' = used
      /\ changes => LockAllows(t, human)
      /\ board' = IF changes /\ st = "done" THEN HandleTaskCompletion(b, t)
                  ELSE IF changes /\ st = "blocked"
                  THEN PropagateBlockerToParent(b, old.parent)
                  ELSE b
  BY DEF Updates, UpdateTask
<1>3. status \in Statuses /\ a \in Sessions \cup {NoSession}
      /\ p \in TaskIds \cup {NoTask} /\ r \subseteq Refs
  BY <1>0, <1>1, InputsAreLegal DEF InputsAreLegal, KanbanTask
<1>4. lock \in Modes \cup {"none"}
  BY <1>1 DEF KanbanTask, Modes
<1>5. old.links \in [Sessions -> LinkStatuses]
  BY <1>1 DEF KanbanTask
<1>6. /\ links \in [Sessions -> LinkStatuses]
      /\ \A s \in Sessions : links[s] = "active" => old.links[s] = "active"
      /\ st \in {"review", "done"} => \A s \in Sessions : links[s] # "active"
  BY <1>5, CleanupLinks
<1> HIDE DEF links, lock
<1>7. /\ k \in KanbanTask /\ k.depth = old.depth /\ k.links = links
      /\ k.parent = p /\ k.subtasks = old.subtasks /\ k.refs = r /\ k.status = status
      /\ k.hasBlockedChild = old.hasBlockedChild
  <2> HIDE DEF status
  <2> QED BY <1>1, <1>3, <1>4, <1>6 DEF KanbanTask
<1> HIDE DEF k
<1>8. Keeps(k, old)
  BY <1>6, <1>7 DEF Keeps
<1>9. UpdatesTo(k, t, st, p, human)
  BY <1>2, <1>6, <1>7, <1>8 DEF UpdatesTo
<1> QED BY <1>7, <1>9

LEMMA UpdateInv ==
    ASSUME Inv, NEW t \in DOMAIN board, NEW st \in UpdateStatuses,
           NEW a \in UpdateAssignees \cup {board[t].assignee},
           NEW p \in UpdateParents \cup {board[t].parent},
           NEW r \in UpdateRefs \cup {board[t].refs}, NEW human \in BOOLEAN,
           UpdateTask(t, st, a, p, r, human)
    PROVE  Inv' /\ (p = board[t].parent => SameTree(board, board'))
<1>1. st \in Statuses \cup {Keep}
  BY InputsAreLegal DEF InputsAreLegal
<1>2. PICK k \in KanbanTask : UpdatesTo(k, t, st, p, human)
  <2>1. \E k \in KanbanTask : UpdatesTo(k, t, st, p, human) /\ k.refs = r
    BY <1>1, UpdateDoes DEF Updates
  <2> QED BY <2>1
<1> DEFINE b == [board EXCEPT ![t] = k]
<1>3. Keeps(k, board[t]) /\ k.parent = p /\ used' = used
  BY <1>2 DEF UpdatesTo
<1>4. board' \in {HandleTaskCompletion(b, t), PropagateBlockerToParent(b, board[t].parent), b}
  BY <1>2 DEF UpdatesTo
<1>5. /\ IsBoard(b) /\ DOMAIN b = DOMAIN board
      /\ \A x \in DOMAIN b : \A s1, s2 \in Active(b, x) : s1 = s2
      /\ p = board[t].parent => SameTree(board, b)
  BY <1>3, ExecutorsOf, OneChanged DEF Keeps
<1> HIDE DEF b
<1>6. /\ IsBoard(board') /\ DOMAIN board' = DOMAIN board
      /\ \A x \in DOMAIN board' : \A s1, s2 \in Active(board', x) : s1 = s2
      /\ p = board[t].parent => SameTree(board, board')
  <2>1. CASE board' = HandleTaskCompletion(b, t)
    BY <1>5, <2>1, CompletionKeepsBoard DEF SameTree
  <2>2. CASE board' = PropagateBlockerToParent(b, board[t].parent)
    BY <1>5, <2>2, FlagsKeepBoard DEF SameTree
  <2>3. CASE board' = b
    BY <1>5, <2>3
  <2> QED
    BY <1>4, <2>1, <2>2, <2>3
<1> QED
  BY <1>3, <1>6, SameTasks

LEMMA DeleteInv ==
    ASSUME Inv, NEW t \in TaskIds, DeleteTask(t)
    PROVE  Inv'
<1> DEFINE ids == IF board[t].flags.cascadeDeleteSubtasks
                  THEN CollectSubtaskIds(board, t) ELSE {t}
<1>1. /\ used' = used
      /\ board' = [x \in DOMAIN board \ ids |->
                     IF x = board[t].parent THEN [board[x] EXCEPT !.subtasks = @ \ ids]
                     ELSE board[x]]
  BY DEF DeleteTask
<1> HIDE DEF ids
<1>2. DOMAIN board' = DOMAIN board \ ids
  BY <1>1
<1>3. IsBoard(board)
  BY DEF Inv, TypeOK, IsBoard
<1>4. ASSUME NEW x \in DOMAIN board'
      PROVE  /\ board'[x] \in KanbanTask /\ board'[x].depth <= MaxDepth
             /\ board'[x].links = board[x].links
  <2>1. board[x] \in KanbanTask /\ board[x].depth <= MaxDepth
    BY <1>2, <1>3, <1>4 DEF IsBoard
  <2>2. board'[x] = board[x] \/ board'[x] = [board[x] EXCEPT !.subtasks = @ \ ids]
    BY <1>1, <1>2, <1>4
  <2> QED
    BY <2>1, <2>2 DEF KanbanTask
<1>5. board' \in [DOMAIN board' -> KanbanTask]
  BY <1>1, <1>2, <1>4
<1>6. IsBoard(board')
  BY <1>2, <1>3, <1>4, <1>5 DEF IsBoard
<1>7. \A x \in DOMAIN board' : \A s1, s2 \in Active(board', x) : s1 = s2
  BY <1>2, <1>4 DEF Active, Inv, OneExecutor
<1> QED
  BY <1>1, <1>2, <1>6, <1>7, SameTasks

\* The heart of the matter: a session starts a task only when no other session
\* holds an active link on it.
LEMMA StartInv ==
    ASSUME Inv, NEW t \in TaskIds, NEW s \in Sessions, NEW human \in BOOLEAN,
           StartTask(t, s, human)
    PROVE  Inv' /\ SameTree(board, board')
<1> DEFINE old == board[t]
           links == [old.links EXCEPT ![s] = "active"]
           status == IF old.status = "todo" THEN "in-progress" ELSE old.status
           k == [old EXCEPT !.links = links, !.status = status, !.assignee = s]
<1>1. /\ t \in DOMAIN board /\ used' = used
      /\ Active(board, t) \subseteq {s}
      /\ board' = [board EXCEPT
                     ![t].links[s] = "active",
                     ![t].status = IF @ = "todo" THEN "in-progress" ELSE @,
                     ![t].assignee = s]
  BY DEF StartTask, HeldByOther
<1>2. old \in KanbanTask
  BY <1>1, ExecutorsOf
<1>3. board \in [DOMAIN board -> KanbanTask]
  BY DEF Inv, TypeOK
<1>4. board' = [board EXCEPT ![t] = k]
  BY <1>1, <1>2, <1>3 DEF KanbanTask
<1>5. status \in Statuses
  BY <1>2 DEF KanbanTask, Statuses
<1>6. old.links \in [Sessions -> LinkStatuses]
  BY <1>2 DEF KanbanTask
<1>7. /\ links \in [Sessions -> LinkStatuses]
      /\ \A s1, s2 \in Sessions : links[s1] = "active" /\ links[s2] = "active" => s1 = s2
  BY <1>1, <1>6 DEF LinkStatuses, Active
<1> HIDE DEF links, status
<1>8. /\ k \in KanbanTask /\ k.depth = board[t].depth /\ k.links = links
      /\ k.parent = board[t].parent /\ k.subtasks = board[t].subtasks
  BY <1>2, <1>5, <1>7 DEF KanbanTask
<1> HIDE DEF k, old
<1>9. LET b == [board EXCEPT ![t] = k]
      IN /\ IsBoard(b) /\ DOMAIN b = DOMAIN board
         /\ \A x \in DOMAIN b : \A s1, s2 \in Active(b, x) : s1 = s2
         /\ SameTree(board, b)
  BY <1>1, <1>7, <1>8, OneChanged
<1> QED
  BY <1>1, <1>4, <1>9, SameTasks

\* The task t that is completed becomes k, and handleTaskCompletion follows.
CompletesTo(k, t) ==
    /\ Keeps(k, board[t]) /\ k.parent = board[t].parent
    /\ k.status = "done" /\ \A s \in Sessions : k.links[s] # "active"
    /\ k.refs = board[t].refs
    /\ used' = used
    /\ board' = HandleTaskCompletion([board EXCEPT ![t] = k], t)

LEMMA CompleteDoes ==
    ASSUME Inv, NEW t \in TaskIds, NEW s \in Sessions, NEW human \in BOOLEAN,
           CompleteTask(t, s, human)
    PROVE  /\ t \in DOMAIN board /\ LockAllows(t, human)
           /\ \E k \in KanbanTask : CompletesTo(k, t)
<1> DEFINE old == board[t]
           links == CleanupActiveExecutionLinks(old.links, s)
           k == [old EXCEPT !.links = links, !.status = "done"]
           b == [board EXCEPT ![t] = k]
<1>1. /\ t \in DOMAIN board /\ used' = used /\ LockAllows(t, human)
      /\ board' = HandleTaskCompletion(
                     [board EXCEPT
                         ![t].links = CleanupActiveExecutionLinks(@, s),
                         ![t].status = "done"], t)
  BY DEF CompleteTask
<1>2. old \in KanbanTask
  BY <1>1, ExecutorsOf
<1>3. board \in [DOMAIN board -> KanbanTask]
  BY DEF Inv, TypeOK
<1>4. old.links \in [Sessions -> LinkStatuses]
  BY <1>2 DEF KanbanTask
<1>5. links \in [Sessions -> LinkStatuses] /\ \A s1 \in Sessions : links[s1] # "active"
  BY <1>4, CleanupLinks
<1> HIDE DEF links
<1>6. [board EXCEPT ![t].links = links, ![t].status = "done"] = b
  BY <1>1, <1>2, <1>3 DEF KanbanTask
<1>7. board' = HandleTaskCompletion(b, t)
  BY <1>1, <1>6 DEF links
<1>8. /\ k \in KanbanTask /\ k.depth = old.depth /\ k.links = links /\ k.status = "done"
      /\ k.parent = old.parent /\ k.subtasks = old.subtasks /\ k.refs = old.refs
      /\ k.hasBlockedChild = old.hasBlockedChild
  BY <1>2, <1>5 DEF KanbanTask, Statuses
<1> HIDE DEF k
<1>9. CompletesTo(k, t)
  BY <1>1, <1>5, <1>7, <1>8 DEF CompletesTo, Keeps
<1> QED
  BY <1>1, <1>8, <1>9

LEMMA CompleteInv ==
    ASSUME Inv, NEW t \in TaskIds, NEW s \in Sessions, NEW human \in BOOLEAN,
           CompleteTask(t, s, human)
    PROVE  Inv' /\ SameTree(board, board')
<1>1. t \in DOMAIN board
  BY CompleteDoes
<1>2. PICK k \in KanbanTask : CompletesTo(k, t)
  BY CompleteDoes
<1> DEFINE b == [board EXCEPT ![t] = k]
<1>3. /\ IsBoard(b) /\ DOMAIN b = DOMAIN board
      /\ \A x \in DOMAIN b : \A s1, s2 \in Active(b, x) : s1 = s2
      /\ SameTree(board, b)
  BY <1>1, <1>2, OneChanged DEF CompletesTo, Keeps
<1>4. board' = HandleTaskCompletion(b, t) /\ used' = used
  BY <1>2 DEF CompletesTo
<1> HIDE DEF b
<1>5. /\ IsBoard(board') /\ SameTree(board, board')
      /\ \A x \in DOMAIN board' : \A s1, s2 \in Active(board', x) : s1 = s2
  BY <1>3, <1>4, CompletionKeepsBoard DEF SameTree
<1> QED
  BY <1>4, <1>5, SameTasks DEF SameTree

\* The task t that is blocked becomes k, and its parents are told.
ReportsTo(k, t) ==
    /\ Keeps(k, board[t]) /\ k.parent = board[t].parent /\ k.refs = board[t].refs
    /\ k.status = "blocked"
    /\ used' = used
    /\ board' = PropagateBlockerToParent([board EXCEPT ![t] = k], board[t].parent)

LEMMA ReportDoes ==
    ASSUME Inv, NEW t \in TaskIds, NEW human \in BOOLEAN, ReportBlocker(t, human)
    PROVE  /\ t \in DOMAIN board /\ LockAllows(t, human)
           /\ \E k \in KanbanTask : ReportsTo(k, t)
<1> DEFINE old == board[t]
           open == old.open + 1
           k == [old EXCEPT !.open = open, !.status = "blocked"]
           b == [board EXCEPT ![t] = k]
<1>1. /\ t \in DOMAIN board /\ used' = used /\ LockAllows(t, human)
      /\ board' = PropagateBlockerToParent(
                     [board EXCEPT ![t].open = @ + 1, ![t].status = "blocked"],
                     board[t].parent)
  BY DEF ReportBlocker
<1>2. old \in KanbanTask
  BY <1>1, ExecutorsOf
<1>3. board \in [DOMAIN board -> KanbanTask]
  BY DEF Inv, TypeOK
<1>4. open \in Nat
  BY <1>2 DEF KanbanTask
<1>5. [board EXCEPT ![t].open = @ + 1, ![t].status = "blocked"] = b
  BY <1>1, <1>2, <1>3 DEF KanbanTask
<1>6. board' = PropagateBlockerToParent(b, board[t].parent)
  BY <1>1, <1>5
<1> HIDE DEF open
<1>7. /\ k \in KanbanTask /\ k.depth = old.depth /\ k.links = old.links
      /\ k.parent = old.parent /\ k.subtasks = old.subtasks /\ k.refs = old.refs
      /\ k.hasBlockedChild = old.hasBlockedChild /\ k.status = "blocked"
  BY <1>2, <1>4 DEF KanbanTask, Statuses
<1> HIDE DEF k
<1>8. ReportsTo(k, t)
  BY <1>1, <1>6, <1>7 DEF ReportsTo, Keeps
<1> QED
  BY <1>1, <1>7, <1>8

LEMMA ReportInv ==
    ASSUME Inv, NEW t \in TaskIds, NEW human \in BOOLEAN, ReportBlocker(t, human)
    PROVE  Inv' /\ SameTree(board, board')
<1>1. t \in DOMAIN board
  BY ReportDoes
<1>2. PICK k \in KanbanTask : ReportsTo(k, t)
  BY ReportDoes
<1> DEFINE b == [board EXCEPT ![t] = k]
<1>3. /\ IsBoard(b) /\ DOMAIN b = DOMAIN board
      /\ \A x \in DOMAIN b : \A s1, s2 \in Active(b, x) : s1 = s2
      /\ SameTree(board, b)
  BY <1>1, <1>2, ExecutorsOf, OneChanged DEF ReportsTo, Keeps
<1>4. board' = PropagateBlockerToParent(b, board[t].parent) /\ used' = used
  BY <1>2 DEF ReportsTo
<1> HIDE DEF b
<1>5. /\ IsBoard(board') /\ SameTree(board, board')
      /\ \A x \in DOMAIN board' : \A s1, s2 \in Active(board', x) : s1 = s2
  BY <1>3, <1>4, FlagsKeepBoard DEF SameTree
<1> QED
  BY <1>4, <1>5, SameTasks DEF SameTree

\* The task t whose blocker is resolved becomes k, and the flags of its ancestors are
\* recomputed.
ResolvesTo(k, t, human) ==
    /\ Keeps(k, board[t]) /\ k.parent = board[t].parent /\ k.refs = board[t].refs
    /\ k.status # board[t].status => k.status = "in-progress" /\ LockAllows(t, human)
    /\ used' = used
    /\ board' = UpdateParentBlockedStatus([board EXCEPT ![t] = k], board[t].parent)

LEMMA ResolveDoes ==
    ASSUME Inv, NEW t \in TaskIds, NEW isOpen \in BOOLEAN, NEW human \in BOOLEAN,
           ResolveBlocker(t, isOpen, human)
    PROVE  t \in DOMAIN board /\ \E k \in KanbanTask : ResolvesTo(k, t, human)
<1> DEFINE old == board[t]
           n == IF isOpen THEN 1 ELSE 0
           open == old.open - n
           resolved == old.resolved + n
           status == IF old.open = n THEN "in-progress" ELSE old.status
           k == [old EXCEPT !.open = open, !.resolved = resolved, !.status = status]
           b == [board EXCEPT ![t] = k]
<1>1. /\ t \in DOMAIN board /\ used' = used
      /\ isOpen => old.open > 0
      /\ old.open <= 1 => LockAllows(t, human)
      /\ board' = UpdateParentBlockedStatus(
                     [board EXCEPT
                        ![t].open = @ - n,
                        ![t].resolved = @ + n,
                        ![t].status = IF old.open = n THEN "in-progress" ELSE @],
                     board[t].parent)
  BY DEF ResolveBlocker, Closes, MayUnblock
<1>2. old \in KanbanTask
  BY <1>1, ExecutorsOf
<1>3. board \in [DOMAIN board -> KanbanTask]
  BY DEF Inv, TypeOK
<1>4. /\ open \in Nat /\ resolved \in Nat
      /\ status # old.status => status = "in-progress" /\ LockAllows(t, human)
  <2>1. old.open \in Nat /\ old.resolved \in Nat
    BY <1>2 DEF KanbanTask
  <2>2. n = 0 \/ (n = 1 /\ old.open > 0)
    BY <1>1
  <2> HIDE DEF n
  <2> QED
    BY <1>1, <2>1, <2>2
<1>5. status \in Statuses
  BY <1>2 DEF KanbanTask, Statuses
<1> HIDE DEF n
<1>6. [board EXCEPT ![t].open = @ - n, ![t].resolved = @ + n,
                    ![t].status = IF old.open = n THEN "in-progress" ELSE @] = b
  BY <1>1, <1>2, <1>3 DEF KanbanTask
<1>7. board' = UpdateParentBlockedStatus(b, board[t].parent)
  BY <1>1, <1>6
<1> HIDE DEF open, resolved, status
<1>8. /\ k \in KanbanTask /\ k.depth = old.depth /\ k.links = old.links
      /\ k.parent = old.parent /\ k.subtasks = old.subtasks /\ k.refs = old.refs
      /\ k.hasBlockedChild = old.hasBlockedChild /\ k.status = status
  BY <1>2, <1>4, <1>5 DEF KanbanTask
<1> HIDE DEF k
<1>9. ResolvesTo(k, t, human)
  BY <1>1, <1>4, <1>7, <1>8 DEF ResolvesTo, Keeps
<1> QED
  BY <1>1, <1>8, <1>9

LEMMA ResolveInv ==
    ASSUME Inv, NEW t \in TaskIds, NEW isOpen \in BOOLEAN, NEW human \in BOOLEAN,
           ResolveBlocker(t, isOpen, human)
    PROVE  Inv' /\ SameTree(board, board')
<1>1. t \in DOMAIN board
  BY ResolveDoes
<1>2. PICK k \in KanbanTask : ResolvesTo(k, t, human)
  BY ResolveDoes
<1> DEFINE b == [board EXCEPT ![t] = k]
<1>3. /\ IsBoard(b) /\ DOMAIN b = DOMAIN board
      /\ \A x \in DOMAIN b : \A s1, s2 \in Active(b, x) : s1 = s2
      /\ SameTree(board, b)
  BY <1>1, <1>2, ExecutorsOf, OneChanged DEF ResolvesTo, Keeps
<1>4. board' = UpdateParentBlockedStatus(b, board[t].parent) /\ used' = used
  BY <1>2 DEF ResolvesTo
<1> HIDE DEF b
<1>5. /\ IsBoard(board') /\ SameTree(board, board')
      /\ \A x \in DOMAIN board' : \A s1, s2 \in Active(board', x) : s1 = s2
  BY <1>3, <1>4, FlagsKeepBoard DEF SameTree
<1> QED
  BY <1>4, <1>5, SameTasks DEF SameTree

\* Setting and clearing a human lock are one argument.
LEMMA LockInv ==
    ASSUME Inv, NEW t \in DOMAIN board, NEW m \in Modes \cup {"none"},
           board' = [board EXCEPT ![t].lock = m], used' = used
    PROVE  Inv' /\ SameTree(board, board')
<1> DEFINE k == [board[t] EXCEPT !.lock = m]
<1>1. board[t] \in KanbanTask /\ \A s1, s2 \in Sessions :
          board[t].links[s1] = "active" /\ board[t].links[s2] = "active" => s1 = s2
  BY ExecutorsOf
<1>2. board' = [board EXCEPT ![t] = k]
  OBVIOUS
<1>3. /\ k \in KanbanTask /\ k.depth = board[t].depth /\ k.links = board[t].links
      /\ k.parent = board[t].parent /\ k.subtasks = board[t].subtasks
  BY <1>1 DEF KanbanTask
<1> HIDE DEF k
<1>4. LET b == [board EXCEPT ![t] = k]
      IN /\ IsBoard(b) /\ DOMAIN b = DOMAIN board
         /\ \A x \in DOMAIN b : \A s1, s2 \in Active(b, x) : s1 = s2
         /\ SameTree(board, b)
  BY <1>1, <1>3, OneChanged
<1> QED
  BY <1>2, <1>4, SameTasks

LEMMA ReleaseInv ==
    ASSUME Inv, NEW s \in Sessions, ReleaseSessionTaskLocks(s)
    PROVE  Inv' /\ SameTree(board, board')
<1>1. /\ used' = used
      /\ board' = [t \in DOMAIN board |->
                     [board[t] EXCEPT !.links[s] =
                         IF @ = "active" THEN "abandoned" ELSE @]]
  BY DEF ReleaseSessionTaskLocks
<1>2. DOMAIN board' = DOMAIN board
  BY <1>1
<1>3. IsBoard(board)
  BY DEF Inv, TypeOK, IsBoard
<1>4. ASSUME NEW x \in DOMAIN board
      PROVE  /\ board'[x] \in KanbanTask /\ board'[x].depth <= MaxDepth
             /\ Active(board', x) \subseteq Active(board, x)
             /\ board'[x].parent = board[x].parent /\ board'[x].depth = board[x].depth
             /\ board'[x].subtasks = board[x].subtasks
  <2> DEFINE l == [board[x].links EXCEPT ![s] = IF @ = "active" THEN "abandoned" ELSE @]
  <2>1. board[x] \in KanbanTask /\ board[x].depth <= MaxDepth
    BY <1>3 DEF IsBoard
  <2>2. board[x].links \in [Sessions -> LinkStatuses]
    BY <2>1 DEF KanbanTask
  <2>3. board'[x] = [board[x] EXCEPT !.links = l]
    BY <1>1, <2>1 DEF KanbanTask
  <2>4. /\ l \in [Sessions -> LinkStatuses]
        /\ \A q \in Sessions : l[q] = "active" => board[x].links[q] = "active"
    BY <2>2 DEF LinkStatuses
  <2> HIDE DEF l
  <2>5. /\ board'[x] \in KanbanTask /\ board'[x].links = l
        /\ board'[x].parent = board[x].parent /\ board'[x].depth = board[x].depth
        /\ board'[x].subtasks = board[x].subtasks
    BY <2>1, <2>3, <2>4 DEF KanbanTask
  <2> QED
    BY <2>1, <2>4, <2>5 DEF Active
<1>5. board' \in [DOMAIN board' -> KanbanTask]
  BY <1>1, <1>2, <1>4
<1>6. IsBoard(board')
  BY <1>2, <1>3, <1>4, <1>5 DEF IsBoard
<1>7. \A x \in DOMAIN board' : \A s1, s2 \in Active(board', x) : s1 = s2
  BY <1>2, <1>4 DEF Inv, OneExecutor
<1>8. SameTree(board, board')
  BY <1>2, <1>4 DEF SameTree
<1> QED
  BY <1>1, <1>2, <1>6, <1>7, <1>8, SameTasks

LEMMA NextInv == Inv /\ [Next]_vars => Inv'
<1> SUFFICES ASSUME Inv, [Next]_vars PROVE Inv'
  OBVIOUS
<1>1. CASE UNCHANGED vars
  BY <1>1 DEF vars, Inv, TypeOK, OneExecutor, Active
<1>2. ASSUME NEW human \in BOOLEAN, ActorNext(human)
      PROVE  Inv'
  <2>1. ASSUME NEW t \in TaskIds, NEW p \in TaskIds \cup {NoTask}, NEW st \in CreateStatuses,
               NEW a \in UpdateAssignees \cup {NoSession}, NEW f \in FlagSets,
               NEW r \in RefSets, CreateTask(t, p, st, a, f, r)
        PROVE  Inv'
    BY <2>1, CreateInv
  <2>2. ASSUME NEW t \in DOMAIN board, NEW st \in UpdateStatuses,
               NEW a \in UpdateAssignees \cup {board[t].assignee},
               NEW p \in UpdateParents \cup {board[t].parent},
               NEW r \in UpdateRefs \cup {board[t].refs}, UpdateTask(t, st, a, p, r, human)
        PROVE  Inv'
    BY <2>2, UpdateInv
  <2>3. ASSUME NEW t \in TaskIds, DeleteTask(t) PROVE Inv'
    BY <2>3, DeleteInv
  <2>4. ASSUME NEW t \in TaskIds, NEW s \in Sessions, StartTask(t, s, human) PROVE Inv'
    BY <2>4, StartInv
  <2>5. ASSUME NEW t \in TaskIds, NEW s \in Sessions, CompleteTask(t, s, human) PROVE Inv'
    BY <2>5, CompleteInv
  <2>6. ASSUME NEW t \in TaskIds, ReportBlocker(t, human) PROVE Inv'
    BY <2>6, ReportInv
  <2>7. ASSUME NEW t \in TaskIds, NEW isOpen \in BOOLEAN, ResolveBlocker(t, isOpen, human)
        PROVE  Inv'
    BY <2>7, ResolveInv
  <2>8. ASSUME NEW t \in TaskIds, NEW m \in LockModes, SetHumanStatusLock(t, m) PROVE Inv'
    <3>1. m \in Modes
      BY InputsAreLegal DEF InputsAreLegal
    <3> QED
      BY <2>8, <3>1, LockInv DEF SetHumanStatusLock
  <2>9. ASSUME NEW t \in TaskIds, NEW m \in LockModes \cup {Keep}, ClearHumanStatusLock(t, m)
        PROVE  Inv'
    BY <2>9, LockInv DEF ClearHumanStatusLock
  <2>10. ASSUME NEW s \in Sessions, ReleaseSessionTaskLocks(s) PROVE Inv'
    BY <2>10, ReleaseInv
  <2> QED
    BY <1>2, <2>1, <2>2, <2>3, <2>4, <2>5, <2>6, <2>7, <2>8, <2>9, <2>10 DEF ActorNext
<1> QED
  BY <1>1, <1>2 DEF Next

LEMMA InvHolds == Spec => []Inv
BY InitInv, NextInv, PTL DEF Spec

\* The board stays well formed, within the nesting limit at the creation of
\* every task, for any number of tasks, sessions and references.
THEOREM TypeCorrect == Spec => []TypeOK
<1>1. Inv => TypeOK
  BY DEF Inv
<1> QED
  BY <1>1, InvHolds, PTL

\* Two sessions never execute the same task, for any number of tasks and
\* sessions: the conflict check of startTask is enough, whatever the other
\* operations do to links, assignees and statuses.
THEOREM OneExecutorAlways == Spec => []OneExecutor
<1>1. Inv => OneExecutor
  BY DEF Inv
<1> QED
  BY <1>1, InvHolds, PTL

-----------------------------------------------------------------------------
(* The tree of subtasks.                                                    *)

\* A task whose parent was deleted keeps its id, and ids are never reused: the
\* parent of a task was handed out before.
ParentsAreKnown ==
    \A x \in DOMAIN board : board[x].parent \in used \cup {NoTask}

TreeInv == Inv /\ TreeIsConsistent /\ ParentsAreKnown

\* Whatever a cascading deletion collects, except the task itself, was listed
\* by a task that it also collects.
LEMMA CollectedIsListed ==
    ASSUME NEW t \in DOMAIN board, Inv, NEW c \in CollectSubtaskIds(board, t), c # t
    PROVE  \E y \in CollectSubtaskIds(board, t) \cap DOMAIN board : c \in board[y].subtasks
<1> DEFINE ids == CollectSubtaskIds(board, t)
           S == ids \ {c}
<1>1. ids = {x \in TaskIds : \A R \in SUBSET TaskIds :
                t \in R /\ (\A y \in R \cap DOMAIN board : board[y].subtasks \subseteq R)
                => x \in R}
  BY DEF CollectSubtaskIds
<1>2. t \in TaskIds /\ \A y \in DOMAIN board : board[y].subtasks \subseteq TaskIds
  BY DEF Inv, TypeOK, KanbanTask
<1> HIDE DEF ids
<1>3. t \in S /\ S \subseteq TaskIds
  BY <1>1, <1>2
<1>4. \A y \in ids \cap DOMAIN board : board[y].subtasks \subseteq ids
  BY <1>1, <1>2
<1>5. c \notin S /\ c \in ids
  BY DEF ids
<1>6. ~ \A y \in S \cap DOMAIN board : board[y].subtasks \subseteq S
  BY <1>1, <1>3, <1>5
<1>7. PICK y \in S \cap DOMAIN board : ~ board[y].subtasks \subseteq S
  BY <1>6
<1>8. c \in board[y].subtasks
  BY <1>4, <1>7
<1> QED
  BY <1>7, <1>8 DEF ids

\* A step that leaves the tree alone.
LEMMA TreeStays ==
    ASSUME TreeInv, Inv', SameTree(board, board'), used' = used
    PROVE  TreeInv'
BY DEF TreeInv, SameTree, TreeIsConsistent, ParentsAreKnown

\* A new task is listed by its parent; nobody listed or named its id before.
LEMMA TreeCreate ==
    ASSUME TreeInv, NEW t \in TaskIds, NEW p \in TaskIds \cup {NoTask},
           NEW st \in CreateStatuses, NEW a \in UpdateAssignees \cup {NoSession},
           NEW f \in FlagSets, NEW r \in RefSets, CreateTask(t, p, st, a, f, r)
    PROVE  TreeInv'
<1> DEFINE depth == IF p = NoTask THEN 0 ELSE board[p].depth + 1
           new == [status |-> st, assignee |-> a, parent |-> p,
                   subtasks |-> {}, depth |-> depth, flags |-> f,
                   hasBlockedChild |-> FALSE,
                   links |-> [s \in Sessions |-> "none"],
                   open |-> 0, resolved |-> 0, lock |-> "none", refs |-> r]
<1>1. /\ t \in TaskIds \ used /\ (p = NoTask \/ p \in DOMAIN board)
      /\ used' = used \cup {t}
      /\ board' = [x \in DOMAIN board \cup {t} |->
                     IF x = t THEN new
                     ELSE IF x = p
                     THEN [board[x] EXCEPT
                             !.subtasks = @ \cup {t},
                             !.status = IF @ = "todo" THEN "in-progress" ELSE @]
                     ELSE board[x]]
  BY DEF CreateTask
<1>2. Inv'
  BY CreateInv DEF TreeInv
<1>3. new.parent = p /\ new.subtasks = {} /\ new.depth = depth
  OBVIOUS
<1> HIDE DEF new
<1>4. /\ DOMAIN board \subseteq used /\ used \subseteq TaskIds /\ NoTask \notin TaskIds
      /\ \A x \in DOMAIN board : board[x] \in KanbanTask
  BY InputsAreLegal DEF TreeInv, Inv, TypeOK, InputsAreLegal
<1>5. DOMAIN board' = DOMAIN board \cup {t} /\ board'[t] = new
  BY <1>1
<1>6. ASSUME NEW x \in DOMAIN board
      PROVE  /\ x # t
             /\ board'[x].parent = board[x].parent /\ board'[x].depth = board[x].depth
             /\ board'[x].subtasks = IF x = p THEN board[x].subtasks \cup {t}
                                     ELSE board[x].subtasks
  <2>1. x # t /\ board[x] \in KanbanTask
    BY <1>1, <1>4
  <2>2. CASE x = p
    BY <1>1, <2>1, <2>2 DEF KanbanTask
  <2>3. CASE x # p
    BY <1>1, <2>1, <2>3
  <2> QED
    BY <2>1, <2>2, <2>3
<1>7. ASSUME NEW x \in DOMAIN board
      PROVE  board[x].parent # t /\ t \notin board[x].subtasks
  <2>1. board[x].parent # t
    BY <1>1, <1>4 DEF TreeInv, ParentsAreKnown
  <2>2. t \notin board[x].subtasks
    BY <1>1, <1>4 DEF TreeInv, TreeIsConsistent
  <2> QED
    BY <2>1, <2>2
<1>8. p \in DOMAIN board => depth = board[p].depth + 1
  <2>1. p \in DOMAIN board => p # NoTask
    BY <1>4
  <2> QED
    BY <2>1
<1> HIDE DEF depth
<1>9. TreeIsConsistent'
  <2> SUFFICES ASSUME NEW x \in DOMAIN board'
               PROVE  /\ \A c \in board'[x].subtasks : c \in DOMAIN board' /\ board'[c].parent = x
                      /\ board'[x].parent \in DOMAIN board' =>
                            /\ x \in board'[board'[x].parent].subtasks
                            /\ board'[x].depth = board'[board'[x].parent].depth + 1
    BY DEF TreeIsConsistent
  <2>1. CASE x = t
    <3>1. board'[x].parent = p /\ board'[x].subtasks = {} /\ board'[x].depth = depth
      BY <1>3, <1>5, <2>1
    <3>2. CASE p \in DOMAIN board
      BY <1>6, <1>8, <2>1, <3>1, <3>2
    <3>3. CASE p = NoTask
      BY <1>1, <1>4, <1>5, <3>1, <3>3
    <3> QED
      BY <1>1, <3>2, <3>3, <3>1
  <2>2. CASE x \in DOMAIN board
    <3>1. /\ \A c \in board[x].subtasks : c \in DOMAIN board /\ board[c].parent = x
          /\ board[x].parent \in DOMAIN board =>
                /\ x \in board[board[x].parent].subtasks
                /\ board[x].depth = board[board[x].parent].depth + 1
      BY <2>2 DEF TreeInv, TreeIsConsistent
    <3>2. ASSUME NEW c \in board'[x].subtasks
          PROVE  c \in DOMAIN board' /\ board'[c].parent = x
      <4>1. CASE c = t
        <5>1. x = p
          BY <1>6, <1>7, <2>2, <4>1
        <5> QED
          BY <1>3, <1>5, <4>1, <5>1
      <4>2. CASE c # t
        <5>1. c \in board[x].subtasks
          BY <1>6, <2>2, <4>2
        <5> QED
          BY <1>5, <1>6, <3>1, <5>1
      <4> QED
        BY <4>1, <4>2
    <3>3. ASSUME board'[x].parent \in DOMAIN board'
          PROVE  /\ x \in board'[board'[x].parent].subtasks
                 /\ board'[x].depth = board'[board'[x].parent].depth + 1
      <4>1. board'[x].parent = board[x].parent /\ board[x].parent \in DOMAIN board
        BY <1>5, <1>6, <1>7, <2>2, <3>3
      <4> QED
        BY <1>6, <2>2, <3>1, <4>1
    <3> QED
      BY <3>2, <3>3
  <2> QED
    BY <1>5, <2>1, <2>2
<1>10. ParentsAreKnown'
  <2> SUFFICES ASSUME NEW x \in DOMAIN board'
               PROVE  board'[x].parent \in used' \cup {NoTask}
    BY DEF ParentsAreKnown
  <2>1. CASE x = t
    BY <1>1, <1>3, <1>4, <1>5, <2>1
  <2>2. CASE x # t
    <3>1. x \in DOMAIN board
      BY <1>5, <2>2
    <3>2. board[x].parent \in used \cup {NoTask}
      BY <3>1 DEF TreeInv, ParentsAreKnown
    <3>3. board'[x].parent = board[x].parent
      BY <1>6, <3>1
    <3>4. used' = used \cup {t}
      BY <1>1
    <3> QED
      BY <3>2, <3>3, <3>4
  <2> QED
    BY <2>1, <2>2
<1> QED
  BY <1>2, <1>9, <1>10 DEF TreeInv

\* A deletion takes the ids out of the list of the task's parent; no other
\* remaining task lists a deleted one.
LEMMA TreeDelete ==
    ASSUME TreeInv, NEW t \in TaskIds, DeleteTask(t)
    PROVE  TreeInv'
<1> DEFINE ids == IF board[t].flags.cascadeDeleteSubtasks
                  THEN CollectSubtaskIds(board, t) ELSE {t}
<1>1. /\ t \in DOMAIN board /\ used' = used
      /\ board' = [x \in DOMAIN board \ ids |->
                     IF x = board[t].parent THEN [board[x] EXCEPT !.subtasks = @ \ ids]
                     ELSE board[x]]
  BY DEF DeleteTask
<1>2. Inv /\ Inv'
  BY DeleteInv DEF TreeInv
<1>3. \A c \in ids \ {t} : \E y \in ids \cap DOMAIN board : c \in board[y].subtasks
  BY <1>1, <1>2, CollectedIsListed
<1>4. \A x \in DOMAIN board : board[x] \in KanbanTask
  BY <1>2 DEF Inv, TypeOK
<1> HIDE DEF ids
<1>5. DOMAIN board' = DOMAIN board \ ids
  BY <1>1
<1>6. ASSUME NEW x \in DOMAIN board \ ids
      PROVE  /\ board'[x].parent = board[x].parent /\ board'[x].depth = board[x].depth
             /\ board'[x].subtasks = IF x = board[t].parent THEN board[x].subtasks \ ids
                                     ELSE board[x].subtasks
  <2>1. board[x] \in KanbanTask
    BY <1>4
  <2>2. CASE x = board[t].parent
    BY <1>1, <2>1, <2>2 DEF KanbanTask
  <2>3. CASE x # board[t].parent
    BY <1>1, <2>1, <2>3
  <2> QED
    BY <2>2, <2>3
<1>7. ASSUME NEW x \in DOMAIN board \ ids
      PROVE  \A c \in board'[x].subtasks : c \in DOMAIN board' /\ board'[c].parent = x
  <2> SUFFICES ASSUME NEW c \in board'[x].subtasks
               PROVE  c \in DOMAIN board' /\ board'[c].parent = x
    OBVIOUS
  <2>1. c \in board[x].subtasks /\ c \in DOMAIN board /\ board[c].parent = x
    BY <1>6 DEF TreeInv, TreeIsConsistent
  <2>2. c \notin ids
    <3>1. CASE x = board[t].parent
      BY <1>6, <3>1
    <3>2. CASE x # board[t].parent
      <4>1. c # t
        BY <2>1, <3>2
      <4>2. ASSUME c \in ids PROVE FALSE
        <5>1. PICK y \in ids \cap DOMAIN board : c \in board[y].subtasks
          BY <1>3, <4>1, <4>2
        <5>2. board[c].parent = y
          BY <5>1 DEF TreeInv, TreeIsConsistent
        <5> QED
          BY <2>1, <5>2
      <4> QED
        BY <4>2
    <3> QED
      BY <3>1, <3>2
  <2> QED
    BY <1>5, <1>6, <2>1, <2>2
<1>8. ASSUME NEW x \in DOMAIN board \ ids, board'[x].parent \in DOMAIN board'
      PROVE  /\ x \in board'[board'[x].parent].subtasks
             /\ board'[x].depth = board'[board'[x].parent].depth + 1
  <2>1. board'[x].parent = board[x].parent /\ board[x].parent \in DOMAIN board \ ids
    BY <1>5, <1>6, <1>8
  <2>2. /\ x \in board[board[x].parent].subtasks
        /\ board[x].depth = board[board[x].parent].depth + 1
    BY <1>8, <2>1 DEF TreeInv, TreeIsConsistent
  <2> QED
    BY <1>6, <1>8, <2>1, <2>2
<1>9. TreeIsConsistent'
  BY <1>5, <1>7, <1>8 DEF TreeIsConsistent
<1>10. ParentsAreKnown'
  BY <1>1, <1>5, <1>6 DEF TreeInv, ParentsAreKnown
<1> QED
  BY <1>2, <1>9, <1>10 DEF TreeInv

LEMMA TreeNext ==
    ASSUME TreeInv, [Next]_vars, UpdateParents = {}
    PROVE  TreeInv'
<1>1. Inv /\ Inv'
  BY NextInv DEF TreeInv
<1>2. CASE UNCHANGED vars
  BY <1>1, <1>2 DEF vars, TreeInv, TreeIsConsistent, ParentsAreKnown
<1>3. ASSUME SameTree(board, board'), used' = used PROVE TreeInv'
  BY <1>1, <1>3, TreeStays
<1>4. ASSUME NEW human \in BOOLEAN, ActorNext(human)
      PROVE  TreeInv'
  <2>1. ASSUME NEW t \in TaskIds, NEW p \in TaskIds \cup {NoTask}, NEW st \in CreateStatuses,
               NEW a \in UpdateAssignees \cup {NoSession}, NEW f \in FlagSets,
               NEW r \in RefSets, CreateTask(t, p, st, a, f, r)
        PROVE  TreeInv'
    BY <2>1, TreeCreate
  <2>2. ASSUME NEW t \in DOMAIN board, NEW st \in UpdateStatuses,
               NEW a \in UpdateAssignees \cup {board[t].assignee},
               NEW p \in UpdateParents \cup {board[t].parent},
               NEW r \in UpdateRefs \cup {board[t].refs}, UpdateTask(t, st, a, p, r, human)
        PROVE  TreeInv'
    <3>1. used' = used
      BY <2>2 DEF UpdateTask
    <3>2. p = board[t].parent
      BY <2>2
    <3> QED
      BY <1>1, <1>3, <2>2, <3>1, <3>2, UpdateInv
  <2>3. ASSUME NEW t \in TaskIds, DeleteTask(t) PROVE TreeInv'
    BY <2>3, TreeDelete
  <2>4. ASSUME NEW t \in TaskIds, NEW s \in Sessions, StartTask(t, s, human) PROVE TreeInv'
    BY <1>1, <1>3, <2>4, StartInv DEF StartTask
  <2>5. ASSUME NEW t \in TaskIds, NEW s \in Sessions, CompleteTask(t, s, human) PROVE TreeInv'
    BY <1>1, <1>3, <2>5, CompleteInv DEF CompleteTask
  <2>6. ASSUME NEW t \in TaskIds, ReportBlocker(t, human) PROVE TreeInv'
    BY <1>1, <1>3, <2>6, ReportInv DEF ReportBlocker
  <2>7. ASSUME NEW t \in TaskIds, NEW isOpen \in BOOLEAN, ResolveBlocker(t, isOpen, human)
        PROVE  TreeInv'
    <3>1. used' = used
      BY <2>7 DEF ResolveBlocker
    <3> QED
      BY <1>1, <1>3, <2>7, <3>1, ResolveInv
  <2>8. ASSUME NEW t \in TaskIds, NEW m \in LockModes, SetHumanStatusLock(t, m)
        PROVE  TreeInv'
    <3>1. m \in Modes
      BY InputsAreLegal DEF InputsAreLegal
    <3> QED
      BY <1>1, <1>3, <2>8, <3>1, LockInv DEF SetHumanStatusLock
  <2>9. ASSUME NEW t \in TaskIds, NEW m \in LockModes \cup {Keep}, ClearHumanStatusLock(t, m)
        PROVE  TreeInv'
    BY <1>1, <1>3, <2>9, LockInv DEF ClearHumanStatusLock
  <2>10. ASSUME NEW s \in Sessions, ReleaseSessionTaskLocks(s) PROVE TreeInv'
    BY <1>1, <1>3, <2>10, ReleaseInv DEF ReleaseSessionTaskLocks
  <2> QED
    BY <1>4, <2>1, <2>2, <2>3, <2>4, <2>5, <2>6, <2>7, <2>8, <2>9, <2>10 DEF ActorNext
<1> QED
  BY <1>2, <1>4 DEF Next

\* The two sides of the tree always agree: listed subtasks exist and point back,
\* tasks with a living parent are listed there, one level below, and deletion,
\* cascading or not, leaves no dangling subtask id.
THEOREM TreeAlwaysConsistent ==
    ASSUME UpdateParents = {}
    PROVE  Spec => []TreeIsConsistent
<1>1. Init => TreeInv
  <2> SUFFICES ASSUME Init PROVE TreeInv
    OBVIOUS
  <2>1. DOMAIN board = {} /\ Inv
    BY InitInv DEF Init
  <2> QED
    BY <2>1 DEF TreeInv, TreeIsConsistent, ParentsAreKnown
<1>2. TreeInv /\ [Next]_vars => TreeInv'
  BY TreeNext
<1>3. TreeInv => TreeIsConsistent
  BY DEF TreeInv
<1> QED
  BY <1>1, <1>2, <1>3, PTL DEF Spec
-----------------------------------------------------------------------------
(* What one step may do to a task that stays on the board.                  *)

\* Moved to review by the completion of a subtask.
Reviewed(x) ==
    /\ board'[x].status = "review" /\ Active(board', x) = {}
    /\ board[x].status # "done"
    /\ \A d \in board[x].subtasks \cap DOMAIN board : board'[d].status = "done"

\* Moved by a request about the task itself.
MovedByRequest(x, human) ==
    /\ board[x].lock = "none" \/ human
    /\ board'[x].status \in {"review", "done"} => Active(board', x) = {}

\* Put in progress by a new subtask.
Opened(x) ==
    /\ board[x].status = "todo" /\ board'[x].status = "in-progress"
    /\ board'[x].subtasks # board[x].subtasks

StatusMoves(x, human) ==
    \/ board'[x].status = board[x].status
    \/ MovedByRequest(x, human)
    \/ Opened(x)
    \/ Reviewed(x) /\ DOMAIN board' = DOMAIN board

BlockedChild(b, x) == \E c \in b[x].subtasks \cap DOMAIN b : b[c].status = "blocked"

Visible(x) == board[x].hasBlockedChild /\ BlockedChild(board', x) => board'[x].hasBlockedChild

\* Nobody starts two tasks that overlap, unless their texts change.
KeepsApart ==
    \A t, u \in DOMAIN board \cap DOMAIN board' : \A r, s \in Sessions :
        /\ t # u /\ r # s
        /\ r \in Active(board', t) /\ s \in Active(board', u)
        /\ board'[t].refs \cap board'[u].refs # {}
        /\ board'[t].refs = board[t].refs /\ board'[u].refs = board[u].refs
        => r \in Active(board, t) /\ s \in Active(board, u)

\* Subtasks that are listed were created.
ListedWereMade == \A x \in DOMAIN board : board[x].subtasks \subseteq used

StepIsSound(human) ==
    /\ \A x \in DOMAIN board \cap DOMAIN board' : StatusMoves(x, human) /\ Visible(x)
    /\ KeepsApart
    /\ ListedWereMade'

\* Who works on a task worked on it before.
NobodyStarts ==
    \A x \in DOMAIN board' : \A s \in Active(board', x) :
        x \in DOMAIN board /\ s \in Active(board, x)

OnlyJoins(s) ==
    \A x \in DOMAIN board' : \A q \in Active(board', x) :
        q = s \/ (x \in DOMAIN board /\ q \in Active(board, x))

\* Nobody becomes active: nothing comes together.
LEMMA NothingMeets ==
    ASSUME \A x \in DOMAIN board \cap DOMAIN board' : Active(board', x) \subseteq Active(board, x)
    PROVE  KeepsApart
  BY DEF KeepsApart

\* The length of a chain of parents is bounded by the number of ids.
LEMMA Lengths == Cardinality(TaskIds) \in Nat
BY FS_CardinalityType, InputsAreLegal DEF InputsAreLegal

\* A climb stays inside the set it is confined to.
LEMMA ClimbsInside ==
    ASSUME NEW b, NEW p, NEW allowed
    PROVE  Climb(b, p, allowed) \subseteq allowed
<1> DEFINE up == Chain(b, p)
<1> HIDE DEF up
<1>1. SUFFICES ASSUME NEW a \in Climb(b, p, allowed) PROVE a \in allowed
  OBVIOUS
<1>2. PICK n \in Steps : up[n] = a /\ \A i \in 0 .. n : up[i] \in allowed
  BY <1>1 DEF Climb, up
<1>3. n \in 0 .. n
  BY Lengths DEF Steps
<1> QED BY <1>2, <1>3

\* handleTaskCompletion, for a task of the board that it reaches or does not.
LEMMA CompletionMoves ==
    ASSUME NEW b, IsBoard(b), NEW t, NEW x \in DOMAIN b
    PROVE  LET c == HandleTaskCompletion(b, t)
           IN /\ c[x].hasBlockedChild = b[x].hasBlockedChild
              /\ \/ c[x].status = b[x].status
                 \/ /\ c[x].status = "review" /\ Active(c, x) = {}
                    /\ x \in ReadyForReview(b)
<1> DEFINE R == Climb(b, b[t].parent, ReadyForReview(b))
           c == HandleTaskCompletion(b, t)
<1>1. c[x] = IF x \in R
             THEN [b[x] EXCEPT !.status = "review",
                               !.links = CleanupActiveExecutionLinks(@, b[x].assignee)]
             ELSE b[x]
  BY DEF HandleTaskCompletion
<1>2. x \in R => x \in ReadyForReview(b)
  BY ClimbsInside
<1> HIDE DEF R, c
<1>3. b[x] \in KanbanTask
  BY DEF IsBoard
<1>4. CASE x \in R
  <2> DEFINE l == CleanupActiveExecutionLinks(b[x].links, b[x].assignee)
  <2>1. b[x].links \in [Sessions -> LinkStatuses]
    BY <1>3 DEF KanbanTask
  <2>2. \A s \in Sessions : l[s] # "active"
    BY <2>1, CleanupLinks
  <2> HIDE DEF l
  <2>3. c[x] = [b[x] EXCEPT !.status = "review", !.links = l]
    BY <1>1, <1>4 DEF l
  <2>4. c[x].hasBlockedChild = b[x].hasBlockedChild /\ c[x].status = "review" /\ c[x].links = l
    BY <1>3, <2>3 DEF KanbanTask
  <2>5. Active(c, x) = {}
    BY <2>2, <2>4 DEF Active
  <2> QED BY <1>2, <1>4, <2>4, <2>5 DEF c
<1>5. CASE x \notin R
  BY <1>1, <1>5 DEF c
<1> QED BY <1>4, <1>5

\* When a task is finished the parents that move had all their subtasks done, and still do.
LEMMA CompletionReviews ==
    ASSUME NEW t \in DOMAIN board, NEW b, IsBoard(b), DOMAIN b = DOMAIN board,
           board' = HandleTaskCompletion(b, t),
           b[t].status = "done",
           \A x \in DOMAIN board \ {t} : b[x] = board[x],
           NEW x \in DOMAIN board, x # t
    PROVE  board'[x].status = board[x].status \/ Reviewed(x)
<1> DEFINE c == HandleTaskCompletion(b, t)
<1>1. DOMAIN b = DOMAIN board /\ DOMAIN board' = DOMAIN board /\ b[x] = board[x]
  BY CompletionKeepsBoard DEF SameTree
<1>2. \/ board'[x].status = b[x].status
      \/ /\ board'[x].status = "review" /\ Active(board', x) = {}
         /\ x \in ReadyForReview(b)
  BY <1>1, CompletionMoves
<1>3. ASSUME x \in ReadyForReview(b), NEW d \in board[x].subtasks \cap DOMAIN board
      PROVE  board'[d].status = "done"
  <2>1. b[d].status = "done"
    BY <1>1, <1>3 DEF ReadyForReview
  <2>2. d \notin ReadyForReview(b)
    BY <2>1 DEF ReadyForReview
  <2>3. board'[d].status = b[d].status
    BY <1>1, <1>3, <2>2, CompletionMoves
  <2> QED BY <2>1, <2>3
<1>4. x \in ReadyForReview(b) => board[x].status # "done"
  BY <1>1 DEF ReadyForReview
<1> QED BY <1>1, <1>2, <1>3, <1>4 DEF Reviewed

\* The task that was finished is not moved on.
LEMMA CompletionSpares ==
    ASSUME NEW b, IsBoard(b), NEW t \in DOMAIN b, b[t].status = "done"
    PROVE  HandleTaskCompletion(b, t)[t].status = "done"
<1>1. t \notin ReadyForReview(b)
  BY DEF ReadyForReview
<1> QED BY <1>1, CompletionMoves

\* The flags of the parents: no status moves; a blocker that is propagated hides nothing.
LEMMA FlagsMove ==
    ASSUME NEW b, IsBoard(b), NEW p, NEW x \in DOMAIN b
    PROVE  /\ PropagateBlockerToParent(b, p)[x].status = b[x].status
           /\ b[x].hasBlockedChild => PropagateBlockerToParent(b, p)[x].hasBlockedChild
           /\ UpdateParentBlockedStatus(b, p)[x].status = b[x].status
           /\ UpdateParentBlockedStatus(b, p)[x].hasBlockedChild <=> x \in FlaggedAfter(b, p)
<1> DEFINE F == Climb(b, p, {y \in DOMAIN b : b[y].flags.blockParentOnBlocked})
           G == FlaggedAfter(b, p)
           c == PropagateBlockerToParent(b, p)
           e == UpdateParentBlockedStatus(b, p)
<1>1. c[x] = IF x \in F THEN [b[x] EXCEPT !.hasBlockedChild = TRUE] ELSE b[x]
  BY DEF PropagateBlockerToParent
<1>2. e[x] = [b[x] EXCEPT !.hasBlockedChild = (x \in G)]
  BY DEF UpdateParentBlockedStatus
<1> HIDE DEF F, G, c, e
<1>3. b[x] \in KanbanTask
  BY DEF IsBoard
<1>4. c[x].status = b[x].status /\ (b[x].hasBlockedChild => c[x].hasBlockedChild)
  BY <1>1, <1>3 DEF KanbanTask
<1>5. e[x].status = b[x].status
  BY <1>2, <1>3 DEF KanbanTask
<1>6. e[x].hasBlockedChild = (x \in G)
  BY <1>2, <1>3, Zenon DEF KanbanTask
<1> QED BY <1>4, <1>5, <1>6 DEF G, c, e

-----------------------------------------------------------------------------
(* The flags of blocked children.                                           *)

LEMMA LeastOf ==
    ASSUME NEW S \in SUBSET Nat, S # {}
    PROVE  \E n \in S : \A k \in S : n <= k
<1>1. IsWellFoundedOn(OpToRel(<, Nat), Nat)
  BY NatLessThanWellFounded
<1>2. PICK n \in S : \A k \in S : <<k, n>> \notin OpToRel(<, Nat)
  BY <1>1, WFMin
<1>3. \A k \in S : ~(k < n)
  BY <1>2 DEF OpToRel
<1> QED BY <1>3

\* The flags when the n-th ancestor on the chain has been recomputed.
FlagStep(b, up, n, below) ==
    LET a == up[n - 1]
    IN IF a \notin DOMAIN b \/ \E i \in 0 .. n - 2 : up[i] = a THEN below
       ELSE IF \E c \in b[a].subtasks \cap DOMAIN b :
                   b[c].status = "blocked" \/ c \in below
            THEN below \cup {a}
            ELSE below \ {a}

FlagsFirst(b) == {x \in DOMAIN b : b[x].hasBlockedChild}

Flagging(f, b, up, S) ==
    f = [n \in S |-> IF n = 0 THEN FlagsFirst(b) ELSE FlagStep(b, up, n, f[n - 1])]

FlaggingUpTo(b, up, k) == \E f : Flagging(f, b, up, 0 .. k)

LEMMA FlaggingExists ==
    ASSUME NEW b, NEW up, NEW k \in Nat
    PROVE  FlaggingUpTo(b, up, k)
<1> DEFINE Bad == {j \in Nat : ~ FlaggingUpTo(b, up, j)}
<1>1. SUFFICES ASSUME Bad # {} PROVE FALSE
  OBVIOUS
<1>2. PICK m \in Bad : \A j \in Bad : m <= j
  BY <1>1, LeastOf
<1>3. m # 0
  <2> DEFINE g == [n \in 0 .. 0 |-> FlagsFirst(b)]
  <2>1. g = [n \in 0 .. 0 |-> IF n = 0 THEN FlagsFirst(b) ELSE FlagStep(b, up, n, g[n - 1])]
    OBVIOUS
  <2> HIDE DEF g
  <2>2. FlaggingUpTo(b, up, 0)
    BY <2>1 DEF FlaggingUpTo, Flagging
  <2> QED BY <2>2
<1>4. m \in Nat /\ m - 1 \in Nat /\ m - 1 \notin Bad
  BY <1>2, <1>3
<1>5. FlaggingUpTo(b, up, m - 1)
  BY <1>4
<1>6. PICK g : Flagging(g, b, up, 0 .. m - 1)
  BY <1>5 DEF FlaggingUpTo
<1> DEFINE h == [n \in 0 .. m |-> IF n = 0 THEN FlagsFirst(b) ELSE FlagStep(b, up, n, g[n - 1])]
<1>7. ASSUME NEW n \in 0 .. m, n # 0 PROVE h[n - 1] = g[n - 1]
  <2>1. n - 1 \in 0 .. m /\ n - 1 \in 0 .. m - 1
    BY <1>4, <1>7
  <2>2. g[n - 1] = IF n - 1 = 0 THEN FlagsFirst(b) ELSE FlagStep(b, up, n - 1, g[n - 1 - 1])
    BY <1>6, <2>1 DEF Flagging
  <2>3. h[n - 1] = IF n - 1 = 0 THEN FlagsFirst(b) ELSE FlagStep(b, up, n - 1, g[n - 1 - 1])
    BY <2>1
  <2> QED BY <2>2, <2>3
<1>8. h = [n \in 0 .. m |-> IF n = 0 THEN FlagsFirst(b) ELSE FlagStep(b, up, n, h[n - 1])]
  <2> DEFINE e == [n \in 0 .. m |-> IF n = 0 THEN FlagsFirst(b) ELSE FlagStep(b, up, n, h[n - 1])]
  <2>1. ASSUME NEW n \in 0 .. m PROVE h[n] = e[n]
    <3>1. CASE n = 0
      BY <3>1
    <3>2. CASE n # 0
      <4>1. h[n - 1] = g[n - 1]
        BY <1>7, <3>2
      <4>2. h[n] = FlagStep(b, up, n, g[n - 1])
        BY <3>2
      <4> HIDE DEF h
      <4>3. e[n] = FlagStep(b, up, n, h[n - 1])
        BY <3>2
      <4> QED BY <4>1, <4>2, <4>3
    <3> QED BY <3>1, <3>2
  <2>2. h = [n \in 0 .. m |-> h[n]] /\ e = [n \in 0 .. m |-> e[n]]
    OBVIOUS
  <2> HIDE DEF e, h
  <2>3. h = e
    BY <2>1, <2>2
  <2> QED BY <2>3 DEF e
<1> HIDE DEF h
<1>9. Flagging(h, b, up, 0 .. m)
  BY <1>8 DEF Flagging
<1>10. FlaggingUpTo(b, up, m)
  BY <1>9 DEF FlaggingUpTo
<1> QED BY <1>10, <1>2

\* The recursion of FlaggedAfter is well defined.
LEMMA FlaggedIsReached ==
    ASSUME NEW b, NEW p
    PROVE  \E f : /\ Flagging(f, b, Chain(b, p), Steps)
                  /\ FlaggedAfter(b, p) = f[Cardinality(TaskIds)]
<1> DEFINE up == Chain(b, p)
           f == CHOOSE flagged : Flagging(flagged, b, up, Steps)
<1>1. FlaggedAfter(b, p) = f[Cardinality(TaskIds)]
  BY DEF FlaggedAfter, Flagging, FlagStep, FlagsFirst
<1>2. \E g : Flagging(g, b, up, Steps)
  BY FlaggingExists, Lengths DEF FlaggingUpTo, Steps
<1>3. Flagging(f, b, up, Steps)
  <2> HIDE DEF up
  <2> QED BY <1>2
<1> QED BY <1>1, <1>3

\* A parent that is flagged and has a blocked subtask stays flagged, whatever order the
\* ancestors of another task are recomputed in.
LEMMA FlaggedStays ==
    ASSUME NEW b, NEW p, NEW x \in DOMAIN b, b[x].hasBlockedChild, BlockedChild(b, x)
    PROVE  x \in FlaggedAfter(b, p)
<1> DEFINE up == Chain(b, p)
<1>1. PICK f : Flagging(f, b, up, Steps) /\ FlaggedAfter(b, p) = f[Cardinality(TaskIds)]
  BY FlaggedIsReached
<1> HIDE DEF up
<1> DEFINE Bad == {n \in Steps : x \notin f[n]}
<1>2. SUFFICES ASSUME Bad # {} PROVE FALSE
  BY <1>1, Lengths DEF Steps
<1>3. Bad \in SUBSET Nat
  BY Lengths DEF Steps
<1>4. PICK m \in Bad : \A j \in Bad : m <= j
  BY <1>2, <1>3, LeastOf
<1>5. \A n \in Steps : f[n] = IF n = 0 THEN FlagsFirst(b) ELSE FlagStep(b, up, n, f[n - 1])
  BY <1>1 DEF Flagging
<1>6. m # 0
  BY <1>5 DEF FlagsFirst
<1>7. m - 1 \in Steps /\ m - 1 < m
  BY <1>6, Lengths DEF Steps
<1>8. x \in f[m - 1]
  BY <1>3, <1>4, <1>7
<1>9. f[m] = FlagStep(b, up, m, f[m - 1])
  BY <1>5, <1>6
<1>10. x \in FlagStep(b, up, m, f[m - 1])
  BY <1>8 DEF FlagStep, BlockedChild
<1> QED BY <1>9, <1>10

-----------------------------------------------------------------------------
(* Every operation is sound.                                                *)

MadeInv == Inv /\ ListedWereMade

\* An operation that makes nobody active and lists no new subtask.
LEMMA NothingNew ==
    ASSUME MadeInv, NEW human \in BOOLEAN, used' = used, DOMAIN board' \subseteq DOMAIN board,
           \A x \in DOMAIN board' :
              /\ Active(board', x) \subseteq Active(board, x)
              /\ board'[x].subtasks \subseteq board[x].subtasks
              /\ StatusMoves(x, human) /\ Visible(x)
    PROVE  StepIsSound(human) /\ NobodyStarts
<1>1. KeepsApart /\ NobodyStarts
  BY NothingMeets DEF NobodyStarts
<1>2. ListedWereMade'
  BY DEF MadeInv, ListedWereMade
<1> QED BY <1>1, <1>2 DEF StepIsSound

\* The board with one task replaced.
LEMMA WithTask ==
    ASSUME Inv, NEW t \in DOMAIN board, NEW k \in KanbanTask, Keeps(k, board[t])
    PROVE  LET b == [board EXCEPT ![t] = k]
           IN /\ IsBoard(b) /\ DOMAIN b = DOMAIN board /\ b[t] = k
              /\ \A x \in DOMAIN board : x # t => b[x] = board[x]
              /\ \A x \in DOMAIN board : /\ Active(b, x) \subseteq Active(board, x)
                                        /\ b[x].subtasks = board[x].subtasks
                                        /\ b[x].hasBlockedChild = board[x].hasBlockedChild
<1> DEFINE b == [board EXCEPT ![t] = k]
<1>1. IsBoard(b)
  BY ReplaceTask DEF Inv, TypeOK, IsBoard, Keeps
<1>2. DOMAIN b = DOMAIN board /\ b[t] = k /\ \A x \in DOMAIN board : x # t => b[x] = board[x]
  OBVIOUS
<1> HIDE DEF b
<1>3. ASSUME NEW x \in DOMAIN board
      PROVE  /\ Active(b, x) \subseteq Active(board, x)
             /\ b[x].subtasks = board[x].subtasks
             /\ b[x].hasBlockedChild = board[x].hasBlockedChild
  BY <1>2 DEF Active, Keeps
<1> QED BY <1>1, <1>2, <1>3 DEF b

\* The three ways an operation on one task is followed up.
LEMMA FollowedUp ==
    ASSUME Inv, NEW t \in DOMAIN board, NEW k \in KanbanTask, Keeps(k, board[t]),
           NEW human \in BOOLEAN,
           k.status # board[t].status => LockAllows(t, human),
           k.status # board[t].status /\ k.status \in {"review", "done"}
              => \A s \in Sessions : k.links[s] # "active",
           NEW x \in DOMAIN board'
    PROVE  LET b == [board EXCEPT ![t] = k]
           IN /\ \/ board' = b
                 \/ board' = PropagateBlockerToParent(b, board[t].parent)
                 \/ k.status = "done" /\ board' = HandleTaskCompletion(b, t)
              => /\ x \in DOMAIN board /\ DOMAIN board' = DOMAIN board
                 /\ Active(board', x) \subseteq Active(board, x)
                 /\ board'[x].subtasks = board[x].subtasks
                 /\ StatusMoves(x, human) /\ Visible(x)
<1> DEFINE b == [board EXCEPT ![t] = k]
<1>1. /\ IsBoard(b) /\ DOMAIN b = DOMAIN board /\ b[t] = k
      /\ \A y \in DOMAIN board : y # t => b[y] = board[y]
      /\ \A y \in DOMAIN board : /\ Active(b, y) \subseteq Active(board, y)
                                /\ b[y].subtasks = board[y].subtasks
                                /\ b[y].hasBlockedChild = board[y].hasBlockedChild
  BY WithTask
<1> HIDE DEF b
<1>2. \A s \in Sessions : k.links[s] # "active" <=> s \notin Active(b, t)
  BY <1>1 DEF Active
<1>3. ASSUME DOMAIN board' = DOMAIN board, \A y \in DOMAIN board : board'[y].status = b[y].status,
             Active(board', x) = Active(b, x)
      PROVE  StatusMoves(x, human)
  <2>1. CASE x = t /\ k.status # board[t].status
    <3>1. board[t].lock = "none" \/ human
      BY <2>1 DEF LockAllows
    <3>2. board'[x].status = k.status
      BY <1>1, <1>3, <2>1
    <3>3. board'[x].status \in {"review", "done"} => Active(board', x) = {}
      BY <1>2, <1>3, <2>1, <3>2 DEF Active
    <3> QED BY <2>1, <3>1, <3>3 DEF StatusMoves, MovedByRequest
  <2>2. CASE x # t \/ k.status = board[t].status
    BY <1>1, <1>3, <2>2 DEF StatusMoves
  <2> QED BY <2>1, <2>2
<1>4. CASE board' = b
  BY <1>1, <1>3, <1>4 DEF Visible, b
<1>5. CASE board' = PropagateBlockerToParent(b, board[t].parent)
  <2>1. DOMAIN board' = DOMAIN board /\ x \in DOMAIN b
    BY <1>1, <1>5, FlagsKeepBoard DEF SameTree
  <2>2. board'[x].subtasks = b[x].subtasks /\ Active(board', x) = Active(b, x)
    BY <1>1, <1>5, <2>1, FlagsKeepBoard DEF SameTree
  <2>3. \A y \in DOMAIN board : board'[y].status = b[y].status
                               /\ (b[y].hasBlockedChild => board'[y].hasBlockedChild)
    BY <1>1, <1>5, FlagsMove
  <2>4. StatusMoves(x, human)
    BY <1>3, <2>1, <2>2, <2>3
  <2> QED BY <1>1, <2>1, <2>2, <2>3, <2>4 DEF Visible, b
<1>6. CASE k.status = "done" /\ board' = HandleTaskCompletion(b, t)
  <2>1. DOMAIN board' = DOMAIN board /\ x \in DOMAIN b
    BY <1>1, <1>6, CompletionKeepsBoard DEF SameTree
  <2>2. board'[x].subtasks = b[x].subtasks /\ Active(board', x) \subseteq Active(b, x)
    BY <1>1, <1>6, <2>1, CompletionKeepsBoard DEF SameTree
  <2>3. board'[x].hasBlockedChild = b[x].hasBlockedChild
    BY <1>1, <1>6, <2>1, CompletionMoves
  <2>4. StatusMoves(x, human)
    <3>1. CASE x = t /\ board[t].status # "done"
      <4>1. Active(b, t) = {}
        BY <1>2, <1>6, <3>1 DEF Active
      <4>2. board[t].lock = "none" \/ human
        BY <1>6, <3>1 DEF LockAllows
      <4> QED BY <2>2, <3>1, <4>1, <4>2 DEF StatusMoves, MovedByRequest
    <3>3. CASE x = t /\ board[t].status = "done"
      <4>1. board'[t].status = "done"
        BY <1>1, <1>6, CompletionSpares
      <4> QED BY <3>3, <4>1 DEF StatusMoves
    <3>2. CASE x # t
      <4>1. board'[x].status = board[x].status \/ Reviewed(x)
        BY <1>1, <1>6, <2>1, <3>2, CompletionReviews
      <4> QED BY <2>1, <4>1 DEF StatusMoves
    <3> QED BY <3>1, <3>2, <3>3
  <2> QED BY <1>1, <2>1, <2>2, <2>3, <2>4 DEF Visible, b
<1> QED BY <1>4, <1>5, <1>6 DEF b

LEMMA UpdateSound ==
    ASSUME MadeInv, NEW t \in DOMAIN board, NEW st \in UpdateStatuses,
           NEW a \in UpdateAssignees \cup {board[t].assignee},
           NEW p \in UpdateParents \cup {board[t].parent},
           NEW r \in UpdateRefs \cup {board[t].refs}, NEW human \in BOOLEAN,
           UpdateTask(t, st, a, p, r, human)
    PROVE  StepIsSound(human) /\ NobodyStarts
<1>1. st \in Statuses \cup {Keep} /\ Inv
  BY InputsAreLegal DEF InputsAreLegal, MadeInv
<1>2. PICK k \in KanbanTask : UpdatesTo(k, t, st, p, human)
  <2>1. \E k \in KanbanTask : UpdatesTo(k, t, st, p, human) /\ k.refs = r
    BY <1>1, UpdateDoes DEF Updates
  <2> QED BY <2>1
<1> DEFINE b == [board EXCEPT ![t] = k]
<1>3. /\ Keeps(k, board[t]) /\ used' = used
      /\ k.status # board[t].status => LockAllows(t, human)
      /\ k.status # board[t].status /\ k.status \in {"review", "done"}
            => \A s \in Sessions : k.links[s] # "active"
  BY <1>2 DEF UpdatesTo
<1>4. \/ board' = b
      \/ board' = PropagateBlockerToParent(b, board[t].parent)
      \/ k.status = "done" /\ board' = HandleTaskCompletion(b, t)
  BY <1>2 DEF UpdatesTo
<1>5. ASSUME NEW x \in DOMAIN board'
      PROVE  /\ x \in DOMAIN board
             /\ Active(board', x) \subseteq Active(board, x)
             /\ board'[x].subtasks = board[x].subtasks
             /\ StatusMoves(x, human) /\ Visible(x)
  <2>1. k.status # board[t].status => LockAllows(t, human)
    BY <1>3
  <2>2. k.status # board[t].status /\ k.status \in {"review", "done"}
            => \A s \in Sessions : k.links[s] # "active"
    BY <1>3
  <2>3. Keeps(k, board[t])
    BY <1>3
  <2> QED BY <1>1, <1>4, <2>1, <2>2, <2>3, FollowedUp, Zenon
<1> QED BY <1>3, <1>5, NothingNew

LEMMA CompleteSound ==
    ASSUME MadeInv, NEW t \in TaskIds, NEW s \in Sessions, NEW human \in BOOLEAN,
           CompleteTask(t, s, human)
    PROVE  StepIsSound(human) /\ NobodyStarts
<1>1. Inv /\ t \in DOMAIN board /\ LockAllows(t, human)
  BY CompleteDoes DEF MadeInv
<1>2. PICK k \in KanbanTask : CompletesTo(k, t)
  BY <1>1, CompleteDoes
<1> DEFINE b == [board EXCEPT ![t] = k]
<1>3. /\ Keeps(k, board[t]) /\ used' = used /\ \A q \in Sessions : k.links[q] # "active"
      /\ k.status = "done" /\ board' = HandleTaskCompletion(b, t)
  BY <1>2 DEF CompletesTo
<1>4. ASSUME NEW x \in DOMAIN board'
      PROVE  /\ x \in DOMAIN board
             /\ Active(board', x) \subseteq Active(board, x)
             /\ board'[x].subtasks = board[x].subtasks
             /\ StatusMoves(x, human) /\ Visible(x)
  BY <1>1, <1>3, FollowedUp
<1> QED BY <1>3, <1>4, NothingNew

LEMMA ReportSound ==
    ASSUME MadeInv, NEW t \in TaskIds, NEW human \in BOOLEAN, ReportBlocker(t, human)
    PROVE  StepIsSound(human) /\ NobodyStarts
<1>1. Inv /\ t \in DOMAIN board /\ LockAllows(t, human)
  BY ReportDoes DEF MadeInv
<1>2. PICK k \in KanbanTask : ReportsTo(k, t)
  BY <1>1, ReportDoes
<1> DEFINE b == [board EXCEPT ![t] = k]
<1>3. /\ Keeps(k, board[t]) /\ used' = used
      /\ k.status = "blocked" /\ board' = PropagateBlockerToParent(b, board[t].parent)
  BY <1>2 DEF ReportsTo
<1>4. ASSUME NEW x \in DOMAIN board'
      PROVE  /\ x \in DOMAIN board
             /\ Active(board', x) \subseteq Active(board, x)
             /\ board'[x].subtasks = board[x].subtasks
             /\ StatusMoves(x, human) /\ Visible(x)
  BY <1>1, <1>3, FollowedUp
<1> QED BY <1>3, <1>4, NothingNew

\* The only operation that may take a flag away, and never from a parent with another
\* blocked subtask.
LEMMA ResolveSound ==
    ASSUME MadeInv, NEW t \in TaskIds, NEW isOpen \in BOOLEAN, NEW human \in BOOLEAN,
           ResolveBlocker(t, isOpen, human)
    PROVE  StepIsSound(human) /\ NobodyStarts
<1>1. Inv /\ t \in DOMAIN board
  BY ResolveDoes DEF MadeInv
<1>2. PICK k \in KanbanTask : ResolvesTo(k, t, human)
  BY <1>1, ResolveDoes
<1> DEFINE b == [board EXCEPT ![t] = k]
           p == board[t].parent
<1>3. /\ Keeps(k, board[t]) /\ used' = used
      /\ k.status # board[t].status => k.status = "in-progress" /\ LockAllows(t, human)
      /\ board' = UpdateParentBlockedStatus(b, p)
  BY <1>2 DEF ResolvesTo
<1>4. /\ IsBoard(b) /\ DOMAIN b = DOMAIN board /\ b[t] = k
      /\ \A y \in DOMAIN board : y # t => b[y] = board[y]
      /\ \A y \in DOMAIN board : /\ Active(b, y) \subseteq Active(board, y)
                                /\ b[y].subtasks = board[y].subtasks
                                /\ b[y].hasBlockedChild = board[y].hasBlockedChild
  BY <1>1, <1>3, WithTask
<1> HIDE DEF b, p
<1>5. DOMAIN board' = DOMAIN board
  BY <1>3, <1>4, FlagsKeepBoard DEF SameTree
<1>6. ASSUME NEW x \in DOMAIN board
      PROVE  /\ Active(board', x) \subseteq Active(board, x)
             /\ board'[x].subtasks = b[x].subtasks /\ board'[x].status = b[x].status
             /\ board'[x].hasBlockedChild <=> x \in FlaggedAfter(b, p)
  <2>1. x \in DOMAIN b
    BY <1>4
  <2>2. Active(board', x) = Active(b, x) /\ board'[x].subtasks = b[x].subtasks
    BY <1>3, <1>4, <2>1, FlagsKeepBoard DEF SameTree
  <2>3. board'[x].status = b[x].status /\ (board'[x].hasBlockedChild <=> x \in FlaggedAfter(b, p))
    BY <1>3, <1>4, <2>1, FlagsMove
  <2> QED BY <1>4, <2>2, <2>3
<1>7. ASSUME NEW x \in DOMAIN board
      PROVE  StatusMoves(x, human)
  <2>1. CASE x = t /\ k.status # board[t].status
    <3>1. board[t].lock = "none" \/ human
      BY <1>3, <2>1 DEF LockAllows
    <3>2. board'[x].status = "in-progress"
      BY <1>3, <1>4, <1>6, <2>1
    <3> QED BY <2>1, <3>1, <3>2 DEF StatusMoves, MovedByRequest
  <2>2. CASE x # t \/ k.status = board[t].status
    <3>1. board'[x].status = board[x].status
      BY <1>4, <1>6, <2>2
    <3> QED BY <3>1 DEF StatusMoves
  <2> QED BY <2>1, <2>2
<1>8. ASSUME NEW x \in DOMAIN board
      PROVE  Visible(x)
  <2>1. SUFFICES ASSUME board[x].hasBlockedChild, BlockedChild(board', x)
                 PROVE  board'[x].hasBlockedChild
    BY DEF Visible
  <2>2. PICK c \in board'[x].subtasks \cap DOMAIN board' : board'[c].status = "blocked"
    BY <2>1 DEF BlockedChild
  <2>3. c \in b[x].subtasks \cap DOMAIN b /\ b[c].status = "blocked"
    BY <1>4, <1>5, <1>6, <2>2
  <2>4. BlockedChild(b, x) /\ b[x].hasBlockedChild /\ x \in DOMAIN b
    BY <1>4, <2>1, <2>3 DEF BlockedChild
  <2>5. x \in FlaggedAfter(b, p)
    BY <2>4, FlaggedStays
  <2> QED BY <1>6, <2>5
<1>9. \A x \in DOMAIN board' :
            /\ Active(board', x) \subseteq Active(board, x)
            /\ board'[x].subtasks \subseteq board[x].subtasks
            /\ StatusMoves(x, human) /\ Visible(x)
  BY <1>4, <1>5, <1>6, <1>7, <1>8
<1> QED BY <1>3, <1>5, <1>9, NothingNew

\* A parent that waited is put in progress by the new subtask, and lists it.
LEMMA CreateSound ==
    ASSUME MadeInv, NEW t \in TaskIds, NEW p \in TaskIds \cup {NoTask},
           NEW st \in CreateStatuses, NEW a \in UpdateAssignees \cup {NoSession},
           NEW f \in FlagSets, NEW r \in RefSets, NEW human \in BOOLEAN,
           CreateTask(t, p, st, a, f, r)
    PROVE  StepIsSound(human) /\ NobodyStarts
<1> DEFINE depth == IF p = NoTask THEN 0 ELSE board[p].depth + 1
           new == [status |-> st, assignee |-> a, parent |-> p,
                   subtasks |-> {}, depth |-> depth, flags |-> f,
                   hasBlockedChild |-> FALSE,
                   links |-> [s \in Sessions |-> "none"],
                   open |-> 0, resolved |-> 0, lock |-> "none", refs |-> r]
<1>1. /\ t \in TaskIds \ used /\ used' = used \cup {t}
      /\ board' = [x \in DOMAIN board \cup {t} |->
                     IF x = t THEN new
                     ELSE IF x = p
                     THEN [board[x] EXCEPT
                             !.subtasks = @ \cup {t},
                             !.status = IF @ = "todo" THEN "in-progress" ELSE @]
                     ELSE board[x]]
  BY DEF CreateTask
<1>2. new.subtasks = {} /\ \A s \in Sessions : new.links[s] # "active"
  OBVIOUS
<1> HIDE DEF new
<1>3. DOMAIN board \subseteq used /\ \A x \in DOMAIN board : board[x] \in KanbanTask
  BY DEF MadeInv, Inv, TypeOK
<1>4. ASSUME NEW x \in DOMAIN board
      PROVE  /\ Active(board', x) \subseteq Active(board, x)
             /\ board'[x].subtasks \subseteq used'
             /\ StatusMoves(x, human) /\ Visible(x)
  <2>1. x # t /\ board[x] \in KanbanTask /\ board[x].subtasks \subseteq used
    BY <1>1, <1>3 DEF MadeInv, ListedWereMade
  <2>2. CASE x # p
    BY <1>1, <2>1, <2>2 DEF Active, StatusMoves, Visible
  <2>3. CASE x = p
    <3> DEFINE subtasks == board[x].subtasks \cup {t}
               status == IF board[x].status = "todo" THEN "in-progress" ELSE board[x].status
    <3>1. board'[x] = [board[x] EXCEPT !.subtasks = subtasks, !.status = status]
      BY <1>1, <2>1, <2>3
    <3>2. subtasks # board[x].subtasks /\ subtasks \subseteq used'
      BY <1>1, <2>1
    <3>3. status = board[x].status \/ (board[x].status = "todo" /\ status = "in-progress")
      OBVIOUS
    <3> HIDE DEF subtasks, status
    <3>4. /\ board'[x].subtasks = subtasks /\ board'[x].status = status
          /\ board'[x].links = board[x].links
          /\ board'[x].hasBlockedChild = board[x].hasBlockedChild
      BY <2>1, <3>1 DEF KanbanTask
    <3>5. StatusMoves(x, human)
      BY <3>2, <3>3, <3>4 DEF StatusMoves, Opened
    <3> QED BY <3>2, <3>4, <3>5 DEF Active, Visible
  <2> QED BY <2>2, <2>3
<1>5. DOMAIN board' = DOMAIN board \cup {t} /\ board'[t] = new
  BY <1>1
<1>6. KeepsApart
  BY <1>1, <1>3, <1>4, <1>5, NothingMeets
<1>7. ListedWereMade'
  <2>1. \A x \in DOMAIN board' : board'[x].subtasks \subseteq used'
    BY <1>2, <1>4, <1>5
  <2> QED BY <2>1 DEF ListedWereMade
<1>8. \A x \in DOMAIN board \cap DOMAIN board' : StatusMoves(x, human) /\ Visible(x)
  BY <1>4
<1>9. NobodyStarts
  BY <1>2, <1>4, <1>5 DEF NobodyStarts, Active
<1> QED BY <1>6, <1>7, <1>8, <1>9 DEF StepIsSound

LEMMA DeleteSound ==
    ASSUME MadeInv, NEW t \in TaskIds, NEW human \in BOOLEAN, DeleteTask(t)
    PROVE  StepIsSound(human) /\ NobodyStarts
<1> DEFINE ids == IF board[t].flags.cascadeDeleteSubtasks
                  THEN CollectSubtaskIds(board, t) ELSE {t}
<1>1. /\ used' = used
      /\ board' = [x \in DOMAIN board \ ids |->
                     IF x = board[t].parent THEN [board[x] EXCEPT !.subtasks = @ \ ids]
                     ELSE board[x]]
  BY DEF DeleteTask
<1> HIDE DEF ids
<1>2. DOMAIN board' = DOMAIN board \ ids
  BY <1>1
<1>3. ASSUME NEW x \in DOMAIN board'
      PROVE  /\ Active(board', x) \subseteq Active(board, x)
             /\ board'[x].subtasks \subseteq board[x].subtasks
             /\ StatusMoves(x, human) /\ Visible(x)
  <2>1. board[x] \in KanbanTask
    BY <1>2 DEF MadeInv, Inv, TypeOK
  <2>2. board'[x] = board[x] \/ board'[x] = [board[x] EXCEPT !.subtasks = @ \ ids]
    BY <1>1, <1>2
  <2>3. /\ board'[x].links = board[x].links /\ board'[x].status = board[x].status
        /\ board'[x].hasBlockedChild = board[x].hasBlockedChild
        /\ board'[x].subtasks \subseteq board[x].subtasks
    BY <2>1, <2>2 DEF KanbanTask
  <2> QED BY <2>3 DEF Active, StatusMoves, Visible
<1> QED BY <1>1, <1>2, <1>3, NothingNew

\* A session starts a task only when nobody else works on one that overlaps with it.
LEMMA StartSound ==
    ASSUME MadeInv, NEW t \in TaskIds, NEW s \in Sessions, NEW human \in BOOLEAN,
           StartTask(t, s, human)
    PROVE  StepIsSound(human) /\ OnlyJoins(s)
<1> DEFINE old == board[t]
           links == [old.links EXCEPT ![s] = "active"]
           status == IF old.status = "todo" THEN "in-progress" ELSE old.status
           k == [old EXCEPT !.links = links, !.status = status, !.assignee = s]
<1>1. /\ t \in DOMAIN board /\ used' = used /\ LockAllows(t, human)
      /\ ~ DuplicateExecutionConflict(t, s)
      /\ board' = [board EXCEPT
                     ![t].links[s] = "active",
                     ![t].status = IF @ = "todo" THEN "in-progress" ELSE @,
                     ![t].assignee = s]
  BY DEF StartTask
<1>2. board \in [DOMAIN board -> KanbanTask] /\ old \in KanbanTask
  BY <1>1 DEF MadeInv, Inv, TypeOK
<1>3. board' = [board EXCEPT ![t] = k]
  BY <1>1, <1>2 DEF KanbanTask
<1>4. old.links \in [Sessions -> LinkStatuses]
  BY <1>2 DEF KanbanTask
<1>5. \A q \in Sessions : links[q] = "active" => q = s \/ old.links[q] = "active"
  BY <1>4
<1>6. status = old.status \/ status = "in-progress"
  OBVIOUS
<1> HIDE DEF links, status
<1>7. /\ k.links = links /\ k.status = status /\ k.subtasks = old.subtasks
      /\ k.hasBlockedChild = old.hasBlockedChild
  BY <1>2 DEF KanbanTask
<1> HIDE DEF k
<1>8. DOMAIN board' = DOMAIN board /\ board'[t] = k
      /\ \A x \in DOMAIN board : x # t => board'[x] = board[x]
  BY <1>1, <1>3
<1>9. \A x \in DOMAIN board : \A q \in Active(board', x) :
          q \in Active(board, x) \/ (x = t /\ q = s)
  BY <1>5, <1>7, <1>8 DEF Active
<1>10. KeepsApart
  <2>1. SUFFICES ASSUME NEW x \in DOMAIN board, NEW u \in DOMAIN board,
                        NEW r \in Sessions, NEW q \in Sessions, x # u, r # q,
                        r \in Active(board', x), q \in Active(board', u),
                        board'[x].refs \cap board'[u].refs # {},
                        board'[x].refs = board[x].refs, board'[u].refs = board[u].refs
                 PROVE  r \in Active(board, x) /\ q \in Active(board, u)
    BY <1>8 DEF KeepsApart
  <2>2. board[x].refs \cap board[u].refs # {}
    BY <2>1
  <2>3. ASSUME r \notin Active(board, x) PROVE FALSE
    <3>1. x = t /\ r = s /\ q \in Active(board, u) \ {s} /\ u \in DOMAIN board \ {t}
      BY <1>9, <2>1, <2>3
    <3>2. board[u].refs \cap board[t].refs # {}
      BY <2>2, <3>1
    <3> QED BY <1>1, <3>1, <3>2 DEF DuplicateExecutionConflict
  <2>4. ASSUME q \notin Active(board, u) PROVE FALSE
    <3>1. u = t /\ q = s /\ r \in Active(board, x) \ {s} /\ x \in DOMAIN board \ {t}
      BY <1>9, <2>1, <2>4
    <3> QED BY <1>1, <2>2, <3>1 DEF DuplicateExecutionConflict
  <2> QED BY <2>3, <2>4
<1>11. ASSUME NEW x \in DOMAIN board
       PROVE  board'[x].subtasks = board[x].subtasks /\ StatusMoves(x, human) /\ Visible(x)
  <2>1. CASE x # t
    BY <1>8, <2>1 DEF StatusMoves, Visible
  <2>2. CASE x = t
    <3>1. StatusMoves(x, human)
      BY <1>1, <1>6, <1>7, <1>8, <2>2 DEF StatusMoves, MovedByRequest, LockAllows
    <3> QED BY <1>7, <1>8, <2>2, <3>1 DEF Visible
  <2> QED BY <2>1, <2>2
<1>12. ListedWereMade'
  BY <1>1, <1>8, <1>11 DEF MadeInv, ListedWereMade
<1> QED BY <1>8, <1>9, <1>10, <1>11, <1>12 DEF StepIsSound, OnlyJoins

\* Setting and clearing a human lock.
LEMMA LockSound ==
    ASSUME MadeInv, NEW t \in DOMAIN board, NEW m, NEW human \in BOOLEAN,
           board' = [board EXCEPT ![t].lock = m], used' = used
    PROVE  StepIsSound(human) /\ NobodyStarts
<1>1. ASSUME NEW x \in DOMAIN board
      PROVE  /\ Active(board', x) \subseteq Active(board, x)
             /\ board'[x].subtasks \subseteq board[x].subtasks
             /\ StatusMoves(x, human) /\ Visible(x)
  <2>1. board[x] \in KanbanTask
    BY DEF MadeInv, Inv, TypeOK
  <2>2. board'[x] = board[x] \/ board'[x] = [board[x] EXCEPT !.lock = m]
    OBVIOUS
  <2>3. /\ board'[x].links = board[x].links /\ board'[x].status = board[x].status
        /\ board'[x].hasBlockedChild = board[x].hasBlockedChild
        /\ board'[x].subtasks = board[x].subtasks
    BY <2>1, <2>2 DEF KanbanTask
  <2> QED BY <2>3 DEF Active, StatusMoves, Visible
<1>2. DOMAIN board' = DOMAIN board
  OBVIOUS
<1> QED BY <1>1, <1>2, NothingNew

LEMMA ReleaseSound ==
    ASSUME MadeInv, NEW s \in Sessions, NEW human \in BOOLEAN, ReleaseSessionTaskLocks(s)
    PROVE  StepIsSound(human) /\ NobodyStarts
<1>1. /\ used' = used
      /\ board' = [t \in DOMAIN board |->
                     [board[t] EXCEPT !.links[s] =
                         IF @ = "active" THEN "abandoned" ELSE @]]
  BY DEF ReleaseSessionTaskLocks
<1>2. DOMAIN board' = DOMAIN board
  BY <1>1
<1>3. ASSUME NEW x \in DOMAIN board
      PROVE  /\ Active(board', x) \subseteq Active(board, x)
             /\ board'[x].subtasks \subseteq board[x].subtasks
             /\ StatusMoves(x, human) /\ Visible(x)
  <2> DEFINE l == [board[x].links EXCEPT ![s] = IF @ = "active" THEN "abandoned" ELSE @]
  <2>1. board[x] \in KanbanTask
    BY DEF MadeInv, Inv, TypeOK
  <2>2. board[x].links \in [Sessions -> LinkStatuses]
    BY <2>1 DEF KanbanTask
  <2>3. board'[x] = [board[x] EXCEPT !.links = l]
    BY <1>1, <2>1 DEF KanbanTask
  <2>4. \A q \in Sessions : l[q] = "active" => board[x].links[q] = "active"
    BY <2>2 DEF LinkStatuses
  <2> HIDE DEF l
  <2>5. /\ board'[x].links = l /\ board'[x].status = board[x].status
        /\ board'[x].hasBlockedChild = board[x].hasBlockedChild
        /\ board'[x].subtasks = board[x].subtasks
    BY <2>1, <2>3 DEF KanbanTask
  <2> QED BY <2>4, <2>5 DEF Active, StatusMoves, Visible
<1> QED BY <1>1, <1>2, <1>3, NothingNew

\* Nothing is left to a session that was released.
LEMMA ReleaseFrees ==
    ASSUME Inv, NEW s \in Sessions, ReleaseSessionTaskLocks(s), NEW x \in DOMAIN board'
    PROVE  s \notin Active(board', x)
<1> DEFINE l == [board[x].links EXCEPT ![s] = IF @ = "active" THEN "abandoned" ELSE @]
<1>1. /\ x \in DOMAIN board
      /\ board'[x] = [board[x] EXCEPT !.links[s] = IF @ = "active" THEN "abandoned" ELSE @]
  BY DEF ReleaseSessionTaskLocks
<1>2. board[x] \in KanbanTask
  BY <1>1 DEF Inv, TypeOK
<1>3. board[x].links \in [Sessions -> LinkStatuses]
  BY <1>2 DEF KanbanTask
<1>4. l[s] # "active"
  BY <1>3
<1>5. board'[x] = [board[x] EXCEPT !.links = l]
  BY <1>1, <1>2 DEF KanbanTask
<1> HIDE DEF l
<1>6. board'[x].links = l
  BY <1>2, <1>5 DEF KanbanTask
<1> QED BY <1>4, <1>6 DEF Active

\* What a request of an actor does, agent or human.
LEMMA ActorSound ==
    ASSUME MadeInv, NEW human \in BOOLEAN, ActorNext(human)
    PROVE  StepIsSound(human)
<1>1. ASSUME NEW t \in TaskIds, NEW p \in TaskIds \cup {NoTask}, NEW st \in CreateStatuses,
             NEW a \in UpdateAssignees \cup {NoSession}, NEW f \in FlagSets,
             NEW r \in RefSets, CreateTask(t, p, st, a, f, r)
      PROVE  StepIsSound(human)
  BY <1>1, CreateSound
<1>2. ASSUME NEW t \in DOMAIN board, NEW st \in UpdateStatuses,
             NEW a \in UpdateAssignees \cup {board[t].assignee},
             NEW p \in UpdateParents \cup {board[t].parent},
             NEW r \in UpdateRefs \cup {board[t].refs}, UpdateTask(t, st, a, p, r, human)
      PROVE  StepIsSound(human)
  BY <1>2, UpdateSound
<1>3. ASSUME NEW t \in TaskIds, DeleteTask(t) PROVE StepIsSound(human)
  BY <1>3, DeleteSound
<1>4. ASSUME NEW t \in TaskIds, NEW s \in Sessions, StartTask(t, s, human)
      PROVE  StepIsSound(human)
  BY <1>4, StartSound
<1>5. ASSUME NEW t \in TaskIds, NEW s \in Sessions, CompleteTask(t, s, human)
      PROVE  StepIsSound(human)
  BY <1>5, CompleteSound
<1>6. ASSUME NEW t \in TaskIds, ReportBlocker(t, human) PROVE StepIsSound(human)
  BY <1>6, ReportSound
<1>7. ASSUME NEW t \in TaskIds, NEW isOpen \in BOOLEAN, ResolveBlocker(t, isOpen, human)
      PROVE  StepIsSound(human)
  BY <1>7, ResolveSound
<1>8. ASSUME NEW t \in TaskIds, NEW m \in LockModes, SetHumanStatusLock(t, m)
      PROVE  StepIsSound(human)
  BY <1>8, LockSound DEF SetHumanStatusLock
<1>9. ASSUME NEW t \in TaskIds, NEW m \in LockModes \cup {Keep}, ClearHumanStatusLock(t, m)
      PROVE  StepIsSound(human)
  BY <1>9, LockSound DEF ClearHumanStatusLock
<1>10. ASSUME NEW s \in Sessions, ReleaseSessionTaskLocks(s) PROVE StepIsSound(human)
  BY <1>10, ReleaseSound
<1> QED
  BY <1>1, <1>2, <1>3, <1>4, <1>5, <1>6, <1>7, <1>8, <1>9, <1>10 DEF ActorNext

LEMMA MadeNext == MadeInv /\ [Next]_vars => MadeInv'
<1>1. SUFFICES ASSUME MadeInv, [Next]_vars PROVE MadeInv'
  OBVIOUS
<1>2. Inv'
  BY <1>1, NextInv DEF MadeInv
<1>3. CASE UNCHANGED vars
  BY <1>1, <1>2, <1>3 DEF vars, MadeInv, ListedWereMade
<1>4. ASSUME NEW human \in BOOLEAN, ActorNext(human) PROVE MadeInv'
  BY <1>1, <1>2, <1>4, ActorSound DEF StepIsSound, MadeInv
<1> QED BY <1>1, <1>3, <1>4 DEF Next

LEMMA MadeHolds == Spec => []MadeInv
<1>1. Init => MadeInv
  <2>1. Init => DOMAIN board = {}
    BY DEF Init
  <2> QED BY <2>1, InitInv DEF MadeInv, ListedWereMade
<1> QED BY <1>1, MadeNext, PTL DEF Spec

\* Whatever moves a task to review or done, the request or the completion of its last
\* subtask, leaves nobody executing it.
THEOREM ClosingAlwaysReleases == Spec => ClosingReleases
<1>1. ASSUME MadeInv, [Next]_vars
      PROVE  [\A t \in DOMAIN board \cap DOMAIN board' :
                 board'[t].status # board[t].status /\ board'[t].status \in {"review", "done"}
                 => Active(board', t) = {}]_vars
  <2>1. CASE UNCHANGED vars
    BY <2>1
  <2>2. ASSUME NEW human \in BOOLEAN, ActorNext(human),
               NEW t \in DOMAIN board \cap DOMAIN board',
               board'[t].status # board[t].status, board'[t].status \in {"review", "done"}
        PROVE  Active(board', t) = {}
    <3>1. StatusMoves(t, human)
      BY <1>1, <2>2, ActorSound DEF StepIsSound
    <3> QED BY <2>2, <3>1 DEF StatusMoves, MovedByRequest, Opened, Reviewed
  <2> QED BY <1>1, <2>1, <2>2 DEF Next
<1> QED BY <1>1, MadeHolds, PTL DEF Spec, ClosingReleases

\* Two sessions come to work on overlapping tasks only because a text was edited: the
\* check of startTask, which compares with the active links alone, is enough whatever
\* the other operations do to statuses and links.
THEOREM OverlapIsByEditing == Spec => OverlapOnlyByEditing
<1>1. ASSUME MadeInv, [Next]_vars
      PROVE  [\A t, u \in DOMAIN board \cap DOMAIN board' : \A r, s \in Sessions :
                 /\ t # u /\ r # s
                 /\ r \in Active(board', t) /\ s \in Active(board', u)
                 /\ board'[t].refs \cap board'[u].refs # {}
                 /\ board'[t].refs = board[t].refs /\ board'[u].refs = board[u].refs
                 => r \in Active(board, t) /\ s \in Active(board, u)]_vars
  <2>1. CASE UNCHANGED vars
    BY <2>1
  <2>2. ASSUME NEW human \in BOOLEAN, ActorNext(human) PROVE KeepsApart
    BY <1>1, <2>2, ActorSound DEF StepIsSound
  <2> QED BY <1>1, <2>1, <2>2 DEF Next, KeepsApart
<1> QED BY <1>1, MadeHolds, PTL DEF Spec, OverlapOnlyByEditing

\* An agent moves a locked task only through the tree: by a new subtask, or by the last
\* one that is finished.
THEOREM AgentsAlwaysRespectLock == Spec => AgentsRespectLock
<1>1. ASSUME MadeInv, [Next]_vars
      PROVE  [ActorNext(FALSE) =>
                 \A t \in DOMAIN board \cap DOMAIN board' :
                     board[t].lock # "none" /\ board'[t].status # board[t].status
                     => \/ /\ board[t].status = "todo" /\ board'[t].status = "in-progress"
                           /\ board'[t].subtasks # board[t].subtasks
                        \/ /\ board'[t].status = "review" /\ board[t].status # "done"
                           /\ \A c \in board[t].subtasks \cap DOMAIN board' :
                                 board'[c].status = "done"]_vars
  <2>1. SUFFICES ASSUME ActorNext(FALSE), NEW t \in DOMAIN board \cap DOMAIN board',
                        board[t].lock # "none", board'[t].status # board[t].status
                 PROVE  \/ /\ board[t].status = "todo" /\ board'[t].status = "in-progress"
                           /\ board'[t].subtasks # board[t].subtasks
                        \/ /\ board'[t].status = "review" /\ board[t].status # "done"
                           /\ \A c \in board[t].subtasks \cap DOMAIN board' :
                                 board'[c].status = "done"
    OBVIOUS
  <2>2. StatusMoves(t, FALSE)
    BY <1>1, <2>1, ActorSound DEF StepIsSound
  <2> QED BY <2>1, <2>2 DEF StatusMoves, MovedByRequest, Opened, Reviewed
<1> QED BY <1>1, MadeHolds, PTL DEF Spec, AgentsRespectLock

\* A parent shown as having a blocked child stays so while one of its subtasks is blocked,
\* whichever blockers are resolved, tasks deleted or moved.
THEOREM BlockedChildAlwaysVisible == Spec => BlockedChildStaysVisible
<1>1. ASSUME MadeInv, [Next]_vars
      PROVE  [\A t \in DOMAIN board \cap DOMAIN board' :
                 board[t].hasBlockedChild
                 /\ (\E c \in board'[t].subtasks \cap DOMAIN board' :
                        board'[c].status = "blocked")
                 => board'[t].hasBlockedChild]_vars
  <2>1. CASE UNCHANGED vars
    BY <2>1
  <2>2. ASSUME NEW human \in BOOLEAN, ActorNext(human),
               NEW t \in DOMAIN board \cap DOMAIN board'
        PROVE  Visible(t)
    BY <1>1, <2>2, ActorSound DEF StepIsSound
  <2> QED BY <1>1, <2>1, <2>2 DEF Next, Visible, BlockedChild
<1> QED BY <1>1, MadeHolds, PTL DEF Spec, BlockedChildStaysVisible

\* When a request finishes a task, the other tasks that move are ancestors whose subtasks
\* are then all done, and they move to review.
THEOREM AutoReviewAlwaysJustified == Spec => AutoReviewIsJustified
<1>1. ASSUME Inv, NEW c \in TaskIds, Finishes(c), NEW t \in DOMAIN board \ {c},
             board'[t].status # board[t].status
      PROVE  Reviewed(t)
  <2>1. \E k \in KanbanTask :
           LET b == [board EXCEPT ![c] = k]
           IN /\ c \in DOMAIN board /\ Keeps(k, board[c])
              /\ \/ board' = b
                 \/ k.status = "done" /\ board' = HandleTaskCompletion(b, c)
    <3>1. CASE \E s \in Sessions, human \in BOOLEAN : CompleteTask(c, s, human)
      <4>1. PICK s \in Sessions, human \in BOOLEAN : CompleteTask(c, s, human)
        BY <3>1
      <4>2. c \in DOMAIN board /\ \E k \in KanbanTask : CompletesTo(k, c)
        BY <1>1, <4>1, CompleteDoes
      <4> QED BY <4>2 DEF CompletesTo
    <3>2. CASE /\ c \in DOMAIN board
               /\ \E a \in UpdateAssignees \cup {board[c].assignee},
                     p \in UpdateParents \cup {board[c].parent},
                     r \in UpdateRefs \cup {board[c].refs}, human \in BOOLEAN :
                        UpdateTask(c, "done", a, p, r, human)
      <4>1. PICK a \in UpdateAssignees \cup {board[c].assignee},
                 p \in UpdateParents \cup {board[c].parent},
                 r \in UpdateRefs \cup {board[c].refs}, human \in BOOLEAN :
                    UpdateTask(c, "done", a, p, r, human)
        BY <3>2
      <4>2. "done" \in Statuses \cup {Keep}
        BY DEF Statuses
      <4>3. \E k \in KanbanTask : UpdatesTo(k, c, "done", p, human) /\ k.refs = r
        <5>1. Updates(c, "done", a, p, r, human)
          BY <3>2, <4>1, <4>2 DEF Updates
        <5> QED BY <1>1, <5>1, UpdateDoes
      <4> QED BY <3>2, <4>3 DEF UpdatesTo
    <3> QED BY <1>1, <3>1, <3>2 DEF Finishes
  <2>2. PICK k \in KanbanTask :
           /\ c \in DOMAIN board /\ Keeps(k, board[c])
           /\ \/ board' = [board EXCEPT ![c] = k]
              \/ k.status = "done" /\ board' = HandleTaskCompletion([board EXCEPT ![c] = k], c)
    BY <2>1
  <2> DEFINE b == [board EXCEPT ![c] = k]
  <2>3. IsBoard(b) /\ DOMAIN b = DOMAIN board /\ b[c] = k
        /\ \A x \in DOMAIN board \ {c} : b[x] = board[x]
    BY <1>1, <2>2, WithTask
  <2> HIDE DEF b
  <2>4. board' # b
    BY <1>1, <2>3
  <2>5. b[c].status = "done" /\ board' = HandleTaskCompletion(b, c)
    BY <2>2, <2>3, <2>4 DEF b
  <2> QED BY <1>1, <2>2, <2>3, <2>5, CompletionReviews
<1>2. ASSUME MadeInv, [Next]_vars
      PROVE  [\A c \in TaskIds : Finishes(c) =>
                 \A t \in DOMAIN board \ {c} :
                     board'[t].status # board[t].status
                     => /\ board'[t].status = "review" /\ board[t].status # "done"
                        /\ \A d \in board[t].subtasks \cap DOMAIN board :
                              board'[d].status = "done"]_vars
  BY <1>1, <1>2 DEF MadeInv, Reviewed
<1> QED BY <1>2, MadeHolds, PTL DEF Spec, AutoReviewIsJustified
=============================================================================
