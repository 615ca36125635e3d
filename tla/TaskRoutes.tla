----------------------------- MODULE TaskRoutes -----------------------------
(***************************************************************************)
(* The task routes of a team: a request is let in by the team's artifact,  *)
(* the session it names is looked up, and only then does the orchestrator  *)
(* work (an operation of TaskBoard).  Meanwhile the roster changes,        *)
(* sessions are deleted, and the daemon releases what dead sessions hold.  *)
(* A save that fails is the subject of BoardStore, the roster's own routes *)
(* that of TeamRoster.  Comments are left out of the board.  A request     *)
(* "edit"s the board (create, update, delete, lock), "act"s as a session   *)
(* (start, complete, block, unblock, comment) or "release"s one.           *)
(***************************************************************************)
EXTENDS Absent, Naturals, FiniteSets

CONSTANTS
    Captain,           \* the owner of the team
    Visitors,       \* accounts that call, the owner among them
    Helpers,        \* sessions
    HelperHome,     \* the account of each
    FirstRows,      \* rows that may be there before
    Jobs,           \* ids of tasks
    Couriers,       \* requests under way at once
    MaxTurns        \* bound on the requests, and on what happens meanwhile

\* A request: who calls, for which session, and what was read of the team.
Errand ==
    [for : Visitors, does : {"edit", "act", "release"}, helper : Helpers \cup {None},
     crew : SUBSET Helpers, at : {"admit", "resolve", "perform", "drop", "observe"},
     observed : {None, Captain} \cup {HelperHome[h] : h \in Helpers},
     listed : BOOLEAN, alive : BOOLEAN]

ASSUME TasksAssumption ==
    /\ IsFiniteSet(Jobs) /\ None \notin Jobs \cup Helpers \cup Errand \cup {"deleted"}
    /\ FirstRows \subseteq [Helpers -> {None, "live", "deleted"}]

VARIABLES
    jobs, jobIds,   \* the board and its ids (see TaskBoard)
    crew,           \* the sessions the team's artifact lists
    helperRow,      \* the row of each session: None, "live" or "deleted"
    awake,          \* the rows marked active
    overviewKept,   \* there is an overview of the owner
    errand,         \* the request of each courier
    turns,          \* how many requests arrived, and changes of the team
    lost,           \* sessions that died
    released        \* history: lost sessions whose tasks were released when no
                    \* request of theirs was under way

teamVars == <<crew, helperRow, lost>>
taskVars == <<jobs, jobIds, crew, helperRow, awake, overviewKept, errand, turns,
              lost, released>>

AnyFlags == [autoCompleteParent |-> TRUE, blockParentOnBlocked |-> TRUE,
             cascadeDeleteSubtasks |-> TRUE]

Orchestrator == INSTANCE TaskBoard WITH
    board <- jobs, used <- jobIds, TaskIds <- Jobs, Sessions <- Helpers, Refs <- {},
    NoTask <- None, NoSession <- None, Keep <- "keep", MaxDepth <- 3, MaxBlockers <- 1,
    CreateStatuses <- {"todo"}, RefSets <- {{}}, FlagSets <- {AnyFlags},
    UpdateStatuses <- {"keep", "done"}, UpdateParents <- {},
    UpdateAssignees <- Helpers \cup {None}, UpdateRefs <- {{}}, LockModes <- {"editing"}

HeldBy(h) == {t \in DOMAIN jobs : h \in Orchestrator!Active(jobs, t)}

GoesOn(c, stage) == errand' = [errand EXCEPT ![c].at = stage]
Departs(c) == errand' = [errand EXCEPT ![c] = None]
Stands(c, stage) == errand[c] # None /\ errand[c].at = stage

\* The team's artifact is read: it is there, a team, and not archived.
\* listed and alive are history.
ReadTeam(c, account, does, h) ==
    /\ errand[c] = None /\ turns < MaxTurns
    /\ h \notin lost \/ does = "release"
    /\ turns' = turns + 1
    /\ errand' = [errand EXCEPT ![c] =
                    [for |-> account, does |-> does, helper |-> h, crew |-> crew, at |-> "admit",
                     observed |-> None,
                     listed |-> crew = {} \/ h \in crew,
                     alive |-> h \notin Helpers \/ helperRow[h] # "deleted"]]
    /\ UNCHANGED <<jobs, jobIds, awake, overviewKept, released, teamVars>>

\* The owner may, and an account one of whose sessions is on the roster.
Belongs(e) ==
    \/ e.for = Captain
    \/ \E h \in e.crew : HelperHome[h] = e.for /\ helperRow[h] = "live"

Admit(c) ==
    /\ Stands(c, "admit") /\ Belongs(errand[c])
    /\ GoesOn(c, IF errand[c].does = "release" THEN "perform" ELSE "resolve")
    /\ UNCHANGED <<jobs, jobIds, awake, overviewKept, turns, released, teamVars>>

\* The row is looked for among the sessions of the caller and of the owner.
Found(e) == helperRow[e.helper] # None /\ HelperHome[e.helper] \in {e.for, Captain}

\* Variant: a deleted session still counts.
ResolvesDeleted(e) ==
    /\ e.crew # {} => e.helper \in e.crew
    /\ e.crew # {} \/ Found(e)

\* A roster that lists sessions must list this one; a row that is found must
\* not be deleted; without a row the roster is enough.
Resolves(e) ==
    /\ e.crew # {} => e.helper \in e.crew
    /\ IF Found(e) THEN helperRow[e.helper] = "live" ELSE e.crew # {}

ResolveTaskSession(c) ==
    /\ Stands(c, "resolve") /\ errand[c].helper # None /\ Resolves(errand[c])
    /\ errand' = [errand EXCEPT
                    ![c].at = "perform",
                    ![c].observed = IF Found(errand[c]) THEN HelperHome[errand[c].helper] ELSE Captain]
    /\ UNCHANGED <<jobs, jobIds, awake, overviewKept, turns, released, teamVars>>

\* No session is named, or it is unknown and a person sets or clears a lock.
ResolveNobody(c) ==
    /\ Stands(c, "resolve")
    /\ errand[c].helper # None => errand[c].does = "edit" /\ ~Resolves(errand[c])
    /\ GoesOn(c, "perform")
    /\ UNCHANGED <<jobs, jobIds, awake, overviewKept, turns, released, teamVars>>

-----------------------------------------------------------------------------
(* The operations of the orchestrator that the routes call, for agents: who *)
(* says he is a person may change a locked status, too (see TaskBoard).     *)

CreateRoute ==
    \E t \in Jobs, p \in Jobs \cup {None} :
        Orchestrator!CreateTask(t, p, "todo", None, AnyFlags, {})

UpdateRoute(h, t) ==
    \E status \in {"keep", "done"} : Orchestrator!UpdateTask(t, status, h, jobs[t].parent, {}, FALSE)

SetLockRoute(t) == Orchestrator!SetHumanStatusLock(t, "editing")
ClearLockRoute(t) == Orchestrator!ClearHumanStatusLock(t, "keep")
DeleteRoute(t) == Orchestrator!DeleteTask(t)

StartRoute(h, t) == Orchestrator!StartTask(t, h, FALSE)
CompleteRoute(h, t) == Orchestrator!CompleteTask(t, h, FALSE)
BlockerRoute(t) == Orchestrator!ReportBlocker(t, FALSE)
ResolveRoute(t) == \E isOpen \in BOOLEAN : Orchestrator!ResolveBlocker(t, isOpen, FALSE)
CommentRoute(t) == t \in DOMAIN jobs /\ UNCHANGED <<jobs, jobIds>>

ReleaseRoute(h) == Orchestrator!ReleaseSessionTaskLocks(h)

\* A session acts: it starts, completes, blocks, unblocks or comments on a task.
Act(h, t) ==
    \/ StartRoute(h, t) \/ CompleteRoute(h, t)
    \/ BlockerRoute(t) \/ ResolveRoute(t) \/ CommentRoute(t)

\* An edit that shows in the overview; the actor is known, or none was named.
Edit(e) ==
    /\ e.helper # None => e.observed # None
    /\ \/ CreateRoute
       \/ \E t \in DOMAIN jobs : UpdateRoute(e.helper, t)
       \/ \E t \in DOMAIN jobs : e.helper = None /\ DeleteRoute(t)

Lock == \E t \in DOMAIN jobs : SetLockRoute(t) \/ ClearLockRoute(t)

Perform(c) ==
    /\ Stands(c, "perform")
    /\ \/ errand[c].does = "edit" /\ Edit(errand[c]) /\ GoesOn(c, "drop")
       \/ errand[c].does = "edit" /\ Lock /\ GoesOn(c, "observe")
       \/ errand[c].does = "release" /\ ReleaseRoute(errand[c].helper) /\ GoesOn(c, "observe")
       \/ /\ errand[c].does = "act"
          /\ \E t \in DOMAIN jobs : Act(errand[c].helper, t)
          /\ GoesOn(c, "observe")
    /\ released' = IF /\ errand[c].does = "release" /\ errand[c].helper \in lost
                      /\ \A d \in Couriers \ {c} :
                            errand[d] # None => errand[d].helper # errand[c].helper
                   THEN released \cup {errand[c].helper} ELSE released
    /\ UNCHANGED <<awake, overviewKept, turns, teamVars>>

\* Not a member, no such session or task, locked, held by another, not saved.
TurnAway(c) ==
    /\ errand[c] # None /\ errand[c].at \in {"admit", "resolve", "perform"}
    /\ Departs(c)
    /\ UNCHANGED <<jobs, jobIds, awake, overviewKept, turns, released, teamVars>>

\* Creating, updating and deleting drop the overview, the others do not.
DropsOverview(c) ==
    /\ Stands(c, "drop")
    /\ overviewKept' = FALSE
    /\ Departs(c)
    /\ UNCHANGED <<jobs, jobIds, awake, turns, released, teamVars>>

\* What a session did is a sign of its life, if the row is that account's, and
\* even if it was deleted meanwhile.
Observe(c) ==
    /\ Stands(c, "observe")
    /\ Departs(c)
    /\ LET e == errand[c]
       IN awake' = IF /\ e.observed # None
                      /\ helperRow[e.helper] # None /\ HelperHome[e.helper] = e.observed
                   THEN awake \cup {e.helper} ELSE awake
    /\ UNCHANGED <<jobs, jobIds, overviewKept, turns, released, teamVars>>

-----------------------------------------------------------------------------
(* Meanwhile: the other routes of the team and of its sessions.             *)

Hire(h) ==
    /\ turns < MaxTurns /\ h \notin crew
    /\ turns' = turns + 1
    /\ crew' = crew \cup {h}
    /\ errand' = [c \in Couriers |->
                    IF errand[c] # None /\ errand[c].helper = h
                    THEN [errand[c] EXCEPT !.listed = TRUE] ELSE errand[c]]
    /\ UNCHANGED <<jobs, jobIds, awake, overviewKept, released, helperRow, lost>>

Unlist(h) ==
    /\ turns < MaxTurns /\ h \in crew
    /\ turns' = turns + 1
    /\ crew' = crew \ {h}
    /\ errand' = [c \in Couriers |->
                    IF errand[c] # None /\ crew = {h}
                    THEN [errand[c] EXCEPT !.listed = TRUE] ELSE errand[c]]
    /\ UNCHANGED <<jobs, jobIds, awake, overviewKept, released, helperRow, lost>>

DeleteHelper(h) ==
    /\ turns < MaxTurns /\ helperRow[h] = "live"
    /\ turns' = turns + 1
    /\ helperRow' = [helperRow EXCEPT ![h] = "deleted"]
    /\ awake' = awake \ {h}
    /\ UNCHANGED <<jobs, jobIds, overviewKept, errand, released, crew, lost>>

\* The session's process ends: it sends nothing more.
Lose(h) ==
    /\ turns < MaxTurns /\ h \notin lost
    /\ turns' = turns + 1
    /\ lost' = lost \cup {h}
    /\ UNCHANGED <<jobs, jobIds, awake, overviewKept, errand, released, crew, helperRow>>

\* A task that a session has in its hands.
HeldAlready(h) ==
    [status |-> "in-progress", assignee |-> h, parent |-> None, subtasks |-> {}, depth |-> 0,
     flags |-> AnyFlags, hasBlockedChild |-> FALSE,
     links |-> [g \in Helpers |-> IF g = h THEN "active" ELSE "none"],
     open |-> 0, resolved |-> 0, lock |-> "none", refs |-> {}]

\* The board is empty, or one session that lives has all its tasks.
TasksInit ==
    /\ helperRow \in FirstRows
    /\ jobs \in {<<>>} \cup {[t \in Jobs |-> HeldAlready(h)] : h \in {g \in Helpers : helperRow[g] = "live"}}
    /\ jobIds = DOMAIN jobs
    /\ crew \in {{}, Helpers}
    /\ awake = {} /\ overviewKept = TRUE
    /\ errand = [c \in Couriers |-> None] /\ turns = 0
    /\ lost = {} /\ released = {}

TasksNext ==
    \/ \E c \in Couriers, account \in Visitors :
          \/ ReadTeam(c, account, "edit", None)
          \/ \E does \in {"edit", "act", "release"}, h \in Helpers : ReadTeam(c, account, does, h)
    \/ \E c \in Couriers :
          \/ Admit(c) \/ ResolveTaskSession(c) \/ ResolveNobody(c)
          \/ TurnAway(c) \/ DropsOverview(c) \/ Observe(c) \/ Perform(c)
    \/ \E h \in Helpers : Hire(h) \/ Unlist(h) \/ DeleteHelper(h) \/ Lose(h)

TasksSpec == TasksInit /\ [][TasksNext]_taskVars

-----------------------------------------------------------------------------
(* Properties.                                                              *)

\* A session takes a task only by a request during which the roster listed it
\* (or nobody), and that arrived before its row was deleted; only the row of a
\* third account is not looked at (resolveTaskSession).
TakersWereWelcome ==
    \A h \in Helpers :
        (\E t \in DOMAIN jobs' : h \in Orchestrator!Active(jobs', t) /\ t \notin HeldBy(h))
        => \E c \in Couriers :
              /\ errand[c] # None /\ errand[c].helper = h
              /\ errand[c].listed
              /\ errand[c].alive \/ HelperHome[h] \notin {errand[c].for, Captain}

\* What a dead session held is free once the daemon has released it, and stays
\* so whatever arrives late, unless a request of the session itself was under
\* way ("so other agents can claim those tasks", taskRoutes.ts:1038).
TheReleasedHoldNothing ==
    \A h \in released' : \A t \in DOMAIN jobs' : h \notin Orchestrator!Active(jobs', t)

HoldersAreEntitled == [][TakersWereWelcome /\ TheReleasedHoldNothing]_taskVars

=============================================================================
