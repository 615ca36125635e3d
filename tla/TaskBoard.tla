----------------------------- MODULE TaskBoard -----------------------------
(***************************************************************************)
(* The kanban board of one team, as the TaskOrchestrator of                *)
(* sources/app/task keeps it: tasks with a status, an assignee, a place in *)
(* a tree of subtasks, execution links (which session is working on the    *)
(* task), blockers and a human status lock.                                *)
(*                                                                         *)
(* Every operation reads the board, validates, mutates it in place and     *)
(* saves it, with no I/O between the read and the mutation, so each one is *)
(* an action here.  What can go wrong between the mutation and the end of  *)
(* the save is the subject of BoardStore.                                  *)
(*                                                                         *)
(* Abstractions: titles, descriptions, comments, labels, priorities and    *)
(* timestamps are left out.  What findDuplicateExecutionConflict compares  *)
(* (source message, file references, normalized goal) is the set refs of   *)
(* the task: two tasks overlap when their sets meet.  Blockers are counted *)
(* (open and resolved).  A task has at most one link per session, since    *)
(* startTask looks the session up before it adds one.                      *)
(***************************************************************************)
EXTENDS Integers, FiniteSets

CONSTANTS
    TaskIds,         \* ids the key generator can return; never reused
    Sessions,        \* agent and user sessions of the team
    Refs,            \* source messages, file references, goals
    NoTask,          \* parentTaskId: null
    NoSession,       \* assigneeId: null
    Keep,            \* a field an update leaves out
    MaxDepth,        \* 3 in the code
    MaxBlockers,     \* bound on the blockers ever raised on one task
    CreateStatuses,  \* inputs of createTask and updateTask that a run explores
    RefSets,
    FlagSets,
    UpdateStatuses,
    UpdateParents,
    UpdateAssignees,
    UpdateRefs,
    LockModes

Statuses == {"todo", "in-progress", "review", "blocked", "done"}
Modes == {"viewing", "editing", "manual-status"}
LinkStatuses == {"none", "active", "completed", "abandoned"}
Flags == [autoCompleteParent : BOOLEAN, blockParentOnBlocked : BOOLEAN,
          cascadeDeleteSubtasks : BOOLEAN]

ASSUME InputsAreLegal ==
    /\ IsFiniteSet(TaskIds)  \* ids are twelve random characters
    /\ NoTask \notin TaskIds /\ NoSession \notin Sessions
    /\ Keep \notin Statuses \cup Modes
    /\ MaxDepth \in Nat /\ MaxBlockers \in Nat
    /\ CreateStatuses \subseteq Statuses
    /\ RefSets \subseteq SUBSET Refs
    /\ FlagSets \subseteq Flags
    /\ UpdateStatuses \subseteq Statuses \cup {Keep}
    /\ UpdateParents \subseteq TaskIds \cup {NoTask}
    /\ UpdateAssignees \subseteq Sessions \cup {NoSession}
    /\ UpdateRefs \subseteq SUBSET Refs
    /\ LockModes \subseteq Modes

KanbanTask ==
    [status : Statuses,
     assignee : Sessions \cup {NoSession},
     parent : TaskIds \cup {NoTask},
     subtasks : SUBSET TaskIds,
     depth : Nat,
     flags : Flags,
     hasBlockedChild : BOOLEAN,
     links : [Sessions -> LinkStatuses],
     open : Nat,
     resolved : Nat,
     lock : Modes \cup {"none"},
     refs : SUBSET Refs]

VARIABLES
    board,  \* the tasks on the board: a function from their ids
    used    \* every id handed out so far

vars == <<board, used>>

-----------------------------------------------------------------------------
(* Helpers of taskOrchestratorHelpers, executionLinks, duplicateExecution.  *)

\* Variant: only the mode of the lock button is looked at.
LockAllowsManual(t, human) == board[t].lock \in {"none", "manual-status"} \/ human

\* A human lock stops everybody but a human from changing the status.
LockAllows(t, human) == board[t].lock = "none" \/ human

\* The active links of a task that closes end: completed for the session that
\* closes it (or for all when there is none), abandoned for the others.
CleanupActiveExecutionLinks(links, owner) ==
    [s \in Sessions |->
        IF links[s] # "active" THEN links[s]
        ELSE IF owner # NoSession /\ s # owner THEN "abandoned" ELSE "completed"]

Active(b, t) == {s \in Sessions : b[t].links[s] = "active"}

\* Variant: only a task in progress counts as held.
HeldByOtherWhileInProgress(t, session) ==
    board[t].status = "in-progress" /\ ~ (Active(board, t) \subseteq {session})

\* The task is already being executed by another session (startTask reads the
\* first active link; by OneExecutor there is at most one).
HeldByOther(t, session) == ~ (Active(board, t) \subseteq {session})

\* Variant: tasks in another status are not compared.
DuplicateOnSameStatus(t, session) ==
    \E u \in DOMAIN board \ {t} :
        /\ board[u].status = board[t].status
        /\ Active(board, u) \ {session} # {}
        /\ board[u].refs \cap board[t].refs # {}

\* Other tasks in the hands of other sessions that share a reference with t.
DuplicateExecutionConflict(t, session) ==
    \E u \in DOMAIN board \ {t} :
        /\ Active(board, u) \ {session} # {}
        /\ board[u].refs \cap board[t].refs # {}

-----------------------------------------------------------------------------
(* Propagation along the tree (taskOrchestratorPropagation).  The code      *)
(* climbs from parent to parent with a set of visited ids; here the chain   *)
(* of parents is a function and a climb is the part of the chain, from its  *)
(* start, that stays inside a set of tasks.                                 *)

Steps == 0 .. Cardinality(TaskIds)

\* p, its parent, its grandparent...; NoTask from the first missing task on.
Chain(b, p) ==
    LET up[n \in Steps] ==
            IF n = 0 THEN p
            ELSE IF up[n - 1] \in DOMAIN b THEN b[up[n - 1]].parent ELSE NoTask
    IN up

Climb(b, p, allowed) ==
    LET up == Chain(b, p)
    IN {a \in DOMAIN b :
            \E n \in Steps : up[n] = a /\ \A i \in 0 .. n : up[i] \in allowed}

\* Variant: a parent that is done goes back to review.
ReadyForReviewEvenIfDone(b) ==
    {p \in DOMAIN b :
        /\ b[p].flags.autoCompleteParent
        /\ \A c \in b[p].subtasks \cap DOMAIN b : b[c].status = "done"}

\* Parents that handleTaskCompletion moves to review when it reaches them. A
\* task it has just moved was not done, so the test reads the board it started
\* from.
ReadyForReview(b) ==
    {p \in DOMAIN b :
        /\ b[p].flags.autoCompleteParent
        /\ b[p].status # "done"
        /\ \A c \in b[p].subtasks \cap DOMAIN b : b[c].status = "done"}

\* Variant: the links of the parent stay active.
CompletionKeepsLinks(b, t) ==
    [x \in DOMAIN b |->
        IF x \in Climb(b, b[t].parent, ReadyForReview(b))
        THEN [b[x] EXCEPT !.status = "review"] ELSE b[x]]

HandleTaskCompletion(b, t) ==
    LET reviewed == Climb(b, b[t].parent, ReadyForReview(b))
    IN [x \in DOMAIN b |->
            IF x \in reviewed
            THEN [b[x] EXCEPT !.status = "review",
                              !.links = CleanupActiveExecutionLinks(@, b[x].assignee)]
            ELSE b[x]]

PropagateBlockerToParent(b, p) ==
    LET flagged == Climb(b, p, {x \in DOMAIN b : b[x].flags.blockParentOnBlocked})
    IN [x \in DOMAIN b |->
            IF x \in flagged THEN [b[x] EXCEPT !.hasBlockedChild = TRUE] ELSE b[x]]

\* Variant: the other subtasks are not looked at.
UnflagParents(b, p) ==
    LET above == Climb(b, p, DOMAIN b)
    IN [x \in DOMAIN b |->
            IF x \in above THEN [b[x] EXCEPT !.hasBlockedChild = FALSE] ELSE b[x]]

\* The tasks flagged after the flag of every ancestor is recomputed, nearest
\* first, so that an ancestor reads the flags already recomputed below it.
FlaggedAfter(b, p) ==
    LET up == Chain(b, p)
        flagged[n \in Steps] ==
            IF n = 0 THEN {x \in DOMAIN b : b[x].hasBlockedChild}
            ELSE LET a == up[n - 1]
                     below == flagged[n - 1]
                 IN IF a \notin DOMAIN b \/ \E i \in 0 .. n - 2 : up[i] = a
                    THEN below
                    ELSE IF \E c \in b[a].subtasks \cap DOMAIN b :
                                b[c].status = "blocked" \/ c \in below
                         THEN below \cup {a}
                         ELSE below \ {a}
    IN flagged[Cardinality(TaskIds)]

UpdateParentBlockedStatus(b, p) ==
    LET flagged == FlaggedAfter(b, p)
    IN [x \in DOMAIN b |-> [b[x] EXCEPT !.hasBlockedChild = (x \in flagged)]]

\* collectSubtaskIds: the task and everything listed below it, the least set
\* that holds the task and is closed under subtasks.
CollectSubtaskIds(b, t) ==
    {x \in TaskIds : \A S \in SUBSET TaskIds :
        t \in S /\ (\A y \in S \cap DOMAIN b : b[y].subtasks \subseteq S) => x \in S}

-----------------------------------------------------------------------------
(* The operations of the orchestrator.                                      *)

Init == board = <<>> /\ used = {}

WithinNesting(depth) == depth <= MaxDepth

CreateTask(t, parent, status, assignee, flags, refs) ==
    /\ t \in TaskIds \ used
    /\ parent = NoTask \/ parent \in DOMAIN board
    /\ LET depth == IF parent = NoTask THEN 0 ELSE board[parent].depth + 1
           new == [status |-> status, assignee |-> assignee, parent |-> parent,
                   subtasks |-> {}, depth |-> depth, flags |-> flags,
                   hasBlockedChild |-> FALSE,
                   links |-> [s \in Sessions |-> "none"],
                   open |-> 0, resolved |-> 0, lock |-> "none", refs |-> refs]
       IN /\ WithinNesting(depth)
          /\ board' = [x \in DOMAIN board \cup {t} |->
                        IF x = t THEN new
                        ELSE IF x = parent
                        THEN [board[x] EXCEPT
                                !.subtasks = @ \cup {t},
                                !.status = IF @ = "todo" THEN "in-progress" ELSE @]
                        ELSE board[x]]
    /\ used' = used \cup {t}

\* status is Keep when the request leaves it out; a request that leaves out one
\* of the other fields is one that repeats its value.  Only start_task moves a
\* task into in-progress.
UpdateTask(t, status, assignee, parent, refs, human) ==
    /\ t \in DOMAIN board
    /\ LET old == board[t]
           changes == status # Keep /\ status # old.status
           closes == status \in {"review", "done"}
           updated ==
             [old EXCEPT
                !.status = IF changes THEN status ELSE @,
                !.assignee = assignee,
                !.parent = parent,
                !.refs = refs,
                !.links = IF closes THEN CleanupActiveExecutionLinks(@, assignee) ELSE @,
                !.lock = IF changes /\ human THEN "manual-status" ELSE @]
           b == [board EXCEPT ![t] = updated]
       IN /\ changes => status # "in-progress" /\ LockAllows(t, human)
          /\ board' = IF changes /\ status = "done" THEN HandleTaskCompletion(b, t)
                      ELSE IF changes /\ status = "blocked"
                      THEN PropagateBlockerToParent(b, old.parent)
                      ELSE b
    /\ UNCHANGED used

\* Variant: the parent keeps listing the task.
DeleteKeepsListing(t) ==
    /\ t \in DOMAIN board
    /\ board' = [x \in DOMAIN board \ {t} |-> board[x]]
    /\ UNCHANGED used

DeleteTask(t) ==
    /\ t \in DOMAIN board
    /\ LET ids == IF board[t].flags.cascadeDeleteSubtasks
                  THEN CollectSubtaskIds(board, t) ELSE {t}
       IN board' = [x \in DOMAIN board \ ids |->
                        IF x = board[t].parent
                        THEN [board[x] EXCEPT !.subtasks = @ \ ids]
                        ELSE board[x]]
    /\ UNCHANGED used

\* A session claims a task.  Only a task in todo changes its status.
StartTask(t, session, human) ==
    /\ t \in DOMAIN board
    /\ LockAllows(t, human)
    /\ ~ HeldByOther(t, session)
    /\ ~ DuplicateExecutionConflict(t, session)
    /\ board' = [board EXCEPT
                    ![t].links[session] = "active",
                    ![t].status = IF @ = "todo" THEN "in-progress" ELSE @,
                    ![t].assignee = session]
    /\ UNCHANGED used

CompleteTask(t, session, human) ==
    /\ t \in DOMAIN board
    /\ LockAllows(t, human)
    /\ \A c \in board[t].subtasks \cap DOMAIN board : board[c].status = "done"
    /\ board' = HandleTaskCompletion(
                    [board EXCEPT
                        ![t].links = CleanupActiveExecutionLinks(@, session),
                        ![t].status = "done"], t)
    /\ UNCHANGED used

ReportBlocker(t, human) ==
    /\ t \in DOMAIN board
    /\ LockAllows(t, human)
    /\ board[t].open + board[t].resolved < MaxBlockers
    /\ board' = PropagateBlockerToParent(
                    [board EXCEPT ![t].open = @ + 1, ![t].status = "blocked"],
                    board[t].parent)
    /\ UNCHANGED used

\* The resolution may be that of the last open blocker.
MayUnblock(t) == board[t].open <= 1

\* Variant: a blocker that was resolved before counts again.
ClosesAgain(isOpen) == 1

\* How many open blockers a resolution closes.
Closes(isOpen) == IF isOpen THEN 1 ELSE 0

\* The blocker named by the request is open, or was resolved before: both are
\* accepted.  The lock matters only when the task may leave blocked.
ResolveBlocker(t, isOpen, human) ==
    /\ t \in DOMAIN board
    /\ IF isOpen THEN board[t].open > 0 ELSE board[t].resolved > 0
    /\ MayUnblock(t) => LockAllows(t, human)
    /\ LET n == Closes(isOpen)
           b == [board EXCEPT
                    ![t].open = @ - n,
                    ![t].resolved = @ + n,
                    ![t].status = IF board[t].open = n THEN "in-progress" ELSE @]
       IN board' = UpdateParentBlockedStatus(b, board[t].parent)
    /\ UNCHANGED used

\* Anyone may set a lock, over any lock that is there already.
SetHumanStatusLock(t, mode) ==
    /\ t \in DOMAIN board
    /\ board' = [board EXCEPT ![t].lock = mode]
    /\ UNCHANGED used

\* mode is the lock the request means to clear, Keep for any.
ClearHumanStatusLock(t, mode) ==
    /\ t \in DOMAIN board
    /\ board[t].lock # "none"
    /\ mode # Keep => board[t].lock = mode
    /\ board' = [board EXCEPT ![t].lock = "none"]
    /\ UNCHANGED used

\* The daemon found the session dead: every task it holds is released.
ReleaseSessionTaskLocks(session) ==
    /\ \E t \in DOMAIN board : session \in Active(board, t)
    /\ board' = [t \in DOMAIN board |->
                    [board[t] EXCEPT !.links[session] =
                        IF @ = "active" THEN "abandoned" ELSE @]]
    /\ UNCHANGED used

\* What a request from an agent (human = FALSE) or from a person may do.
ActorNext(human) ==
    \/ \E t \in TaskIds, p \in TaskIds \cup {NoTask}, st \in CreateStatuses,
          a \in UpdateAssignees \cup {NoSession},
          f \in FlagSets, r \in RefSets : CreateTask(t, p, st, a, f, r)
    \/ \E t \in DOMAIN board, st \in UpdateStatuses :
          \E a \in UpdateAssignees \cup {board[t].assignee},
             p \in UpdateParents \cup {board[t].parent},
             r \in UpdateRefs \cup {board[t].refs} : UpdateTask(t, st, a, p, r, human)
    \/ \E t \in TaskIds : DeleteTask(t)
    \/ \E t \in TaskIds, s \in Sessions : StartTask(t, s, human)
    \/ \E t \in TaskIds, s \in Sessions : CompleteTask(t, s, human)
    \/ \E t \in TaskIds : ReportBlocker(t, human)
    \/ \E t \in TaskIds, isOpen \in BOOLEAN : ResolveBlocker(t, isOpen, human)
    \/ \E t \in TaskIds, m \in LockModes : SetHumanStatusLock(t, m)
    \/ \E t \in TaskIds, m \in LockModes \cup {Keep} : ClearHumanStatusLock(t, m)
    \/ \E s \in Sessions : ReleaseSessionTaskLocks(s)

Next == \E human \in BOOLEAN : ActorNext(human)

Spec == Init /\ [][Next]_vars

-----------------------------------------------------------------------------
(* Properties.                                                              *)

\* Every field of every task holds a value of its kind, a task on the board
\* has an id that was handed out, and depth stays within the nesting limit.
TypeOK ==
    /\ used \subseteq TaskIds
    /\ DOMAIN board \subseteq used
    /\ board \in [DOMAIN board -> KanbanTask]
    /\ \A t \in DOMAIN board : board[t].depth <= MaxDepth

\* A task is executed by one session at a time: whatever sequence of starts,
\* completions, releases and reassignments, two sessions never both hold an
\* active execution link on it (startTask's conflict check).
OneExecutor ==
    \A t \in DOMAIN board : \A r, s \in Active(board, t) : r = s

\* A step that moves a task to review or done, itself or through
\* handleTaskCompletion on an ancestor, leaves nobody executing it.
ClosingReleases ==
    [][\A t \in DOMAIN board \cap DOMAIN board' :
          board'[t].status # board[t].status /\ board'[t].status \in {"review", "done"}
          => Active(board', t) = {}]_vars

\* Two sessions come to work on overlapping tasks only because the text of one
\* of the tasks was edited: startTask, and every other operation, never makes
\* two active links of different sessions meet on a shared reference.
OverlapOnlyByEditing ==
    [][\A t, u \in DOMAIN board \cap DOMAIN board' : \A r, s \in Sessions :
          /\ t # u /\ r # s
          /\ r \in Active(board', t) /\ s \in Active(board', u)
          /\ board'[t].refs \cap board'[u].refs # {}
          /\ board'[t].refs = board[t].refs /\ board'[u].refs = board[u].refs
          => r \in Active(board, t) /\ s \in Active(board, u)]_vars

\* While a task is locked an agent's request cannot change its status, except
\* through the tree: a new subtask puts a waiting parent in progress, the last
\* finished subtask puts its parent in review.
AgentsRespectLock ==
    [][ActorNext(FALSE) =>
          \A t \in DOMAIN board \cap DOMAIN board' :
              board[t].lock # "none" /\ board'[t].status # board[t].status
              => \/ /\ board[t].status = "todo" /\ board'[t].status = "in-progress"
                    /\ board'[t].subtasks # board[t].subtasks
                 \/ /\ board'[t].status = "review" /\ board[t].status # "done"
                    /\ \A c \in board[t].subtasks \cap DOMAIN board' :
                          board'[c].status = "done"]_vars

Finishes(c) ==
    \/ \E s \in Sessions, human \in BOOLEAN : CompleteTask(c, s, human)
    \/ /\ c \in DOMAIN board
       /\ \E a \in UpdateAssignees \cup {board[c].assignee},
             p \in UpdateParents \cup {board[c].parent},
             r \in UpdateRefs \cup {board[c].refs}, human \in BOOLEAN :
                UpdateTask(c, "done", a, p, r, human)

\* When a request moves a task to review behind the back of its owner (another
\* task was finished), the task was not done and all its subtasks are.
AutoReviewIsJustified ==
    [][\A c \in TaskIds : Finishes(c) =>
          \A t \in DOMAIN board \ {c} :
              board'[t].status # board[t].status
              => /\ board'[t].status = "review" /\ board[t].status # "done"
                 /\ \A d \in board[t].subtasks \cap DOMAIN board :
                       board'[d].status = "done"]_vars

\* Resolving one blocker does not hide another: a parent shown as having a
\* blocked child stays so as long as one of its subtasks is blocked.
BlockedChildStaysVisible ==
    [][\A t \in DOMAIN board \cap DOMAIN board' :
          board[t].hasBlockedChild
          /\ (\E c \in board'[t].subtasks \cap DOMAIN board' : board'[c].status = "blocked")
          => board'[t].hasBlockedChild]_vars

\* The two sides of the tree agree as long as nobody edits parentTaskId: a
\* listed subtask exists and points back at its parent one level up, a task
\* whose parent exists is listed there, and deletions leave no dangling id.
TreeIsConsistent ==
    \A p \in DOMAIN board :
        /\ \A c \in board[p].subtasks :
              c \in DOMAIN board /\ board[c].parent = p
        /\ board[p].parent \in DOMAIN board =>
              /\ p \in board[board[p].parent].subtasks
              /\ board[p].depth = board[board[p].parent].depth + 1
=============================================================================
