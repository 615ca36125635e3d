------------------------------ MODULE Presence ------------------------------
(***************************************************************************)
(* Whether a session (or a machine) is shown as active.                    *)
(*                                                                         *)
(* The database row has a flag and the time of the last activity.  It is   *)
(* written by: the flush of the heartbeats that ActivityCache holds back,  *)
(* the connection of a socket, HTTP requests, the timer that runs after a  *)
(* disconnection, the sweep over the rows that were not updated for two    *)
(* minutes, session-end, report-dead-sessions, deletion, archiving and     *)
(* restoring.                                                              *)
(* Each of them sends a query and, when it is answered, some of them drop  *)
(* the cache entry.  A query is a record in the slot of who sent it: it is *)
(* sent, applied by the database at a moment of its own, then answered.    *)
(*                                                                         *)
(* Time is counted in ticks of 30 seconds.  A time stamp is kept as its    *)
(* age, which Tick increments up to Old.  One row is modelled: nothing in  *)
(* the code relates two of them.                                           *)
(***************************************************************************)
EXTENDS Naturals, FiniteSets

CONSTANTS
    Settings,    \* what is modelled: whose row it is, and whether all is well
    Sockets,     \* the sockets that announce themselves as the subject
    TTL,         \* CACHE_TTL, in ticks
    Threshold,   \* UPDATE_THRESHOLD
    Grace,       \* SESSION_OFFLINE_GRACE_MS, MACHINE_OFFLINE_GRACE_MS
    Timeout,     \* the age from which the sweep closes a row
    Old,         \* ages from here on are not told apart
    BeatAges,    \* how old the time in a heartbeat may be on arrival
    MaxOps,      \* bound on the queries in flight, each fault counting as one
    MaxFaults,   \* bound on failed queries and restarts
    None

Ages == 0 .. Old

\* Entries of ActivityCache, and heartbeats that asked the database: life counts
\* the ticks until validUntil.
Entry == [life : 0 .. TTL, sent : Ages, pending : Ages \cup {None}]
Asked == [life : 0 .. TTL, at : Ages, told : Ages \cup {None}]

\* Who sends queries, what they do to the row, and what follows their answer.
Desks == {"http", "flush", "end", "dead", "sweep", "grace", "admin"}
Slots == Desks \cup Sockets
TurnsOn == {"observe", "state", "flush", "restore"}
TurnsOff == {"end", "dead", "grace", "sweep", "shelve"}
Stamps == {"observe", "state", "register", "flush", "end", "grace"}
OnlyIfActive == {"dead", "sweep"}
Invalidates == {"observe", "end", "dead", "grace", "sweep", "shelve", "restore"}
Kinds == TurnsOn \cup TurnsOff \cup {"register", "archive", "unarchive"}

Query == [kind : Kinds, at : Ages, pc : {"sent", "applied"}, hit : BOOLEAN]

ASSUME PresenceAssumption ==
    /\ Settings \subseteq [subject : {"session", "machine"}, prompt : BOOLEAN]
    /\ {TTL, Threshold, Grace, Timeout, Old, MaxOps, MaxFaults} \subseteq Nat
    /\ Timeout \in 1 .. Old
    /\ BeatAges \subseteq {a \in Ages : a + Threshold < Old}
    /\ Sockets \cap Desks = {}
    /\ None \notin Sockets \cup Nat
    /\ None \notin Entry /\ None \notin Asked /\ None \notin Query

VARIABLES
    setting,  \* one of Settings
    row,      \* active, the age of lastActiveAt, and deletedAt or archivedAt
    cache,    \* the entry of ActivityCache
    beat,     \* a heartbeat that asked the database, and what it was told
    op,       \* the queries in flight
    sock,     \* the sockets
    timers,   \* the ticks until a grace timer fires
    held,     \* the one in disconnectGraceTimers
    quiet,    \* the age of the last word (history): a sign of life, a
              \* session-end, or the timer that stands for a lost socket
    faults

vars == <<setting, row, cache, beat, op, sock, timers, held, quiet, faults>>
links == <<sock, timers, held>>

\* Whose row it is.
Session == setting.subject = "session"
\* There is word of the subject, and everything is answered, in every tick;
\* no query fails, and nobody restores a closed row.
Prompt == setting.prompt

TypeOK ==
    /\ setting \in Settings
    /\ row \in [active : BOOLEAN, age : Ages, gone : BOOLEAN]
    /\ cache \in {None} \cup Entry
    /\ beat \in {None} \cup Asked
    /\ op \in [Slots -> {None} \cup Query]
    /\ sock \in [Sockets -> {"off", "joining", "on"}]
    /\ timers \in [Sockets -> 0 .. Grace \cup {None}]
    /\ held \in Sockets \cup {None}
    /\ quiet \in Ages
    /\ faults \in 0 .. MaxFaults

Init ==
    /\ setting \in Settings
    /\ \/ row = [active |-> TRUE, age |-> 0, gone |-> FALSE] /\ quiet = 0
       \/ /\ ~Prompt /\ quiet = Old
          /\ row = [active |-> FALSE, age |-> Old, gone |-> FALSE]
    /\ cache = None /\ beat = None
    /\ op = [x \in Slots |-> None]
    /\ sock = [s \in Sockets |-> "off"]
    /\ timers = [s \in Sockets |-> None]
    /\ held = None
    /\ faults = 0

Least(a, b) == IF a < b THEN a ELSE b
Apart(a, b) == IF a < b THEN b - a ELSE a - b
Older(a) == IF a = None \/ a = Old THEN a ELSE a + 1
Earlier(n) == IF n = None \/ n = 0 THEN n ELSE n - 1

\* Variant: lte written as gte.
StaleIfRecent(age) == age <= Timeout

Stale(age) == age >= Timeout

Busy == {x \in Slots : op[x] # None}

-----------------------------------------------------------------------------
(* Queries.                                                                 *)

Send(x, kind, at) ==
    /\ op[x] = None
    /\ Cardinality(Busy) + faults < MaxOps
    /\ op' = [op EXCEPT ![x] = [kind |-> kind, at |-> at, pc |-> "sent", hit |-> FALSE]]

\* The where clauses.
Hits(q) ==
    /\ q.kind \in OnlyIfActive => row.active
    /\ q.kind = "grace" /\ Session => row.active
    /\ q.kind = "archive" => ~row.gone

Written(q) ==
    [active |-> (row.active \/ q.kind \in TurnsOn) /\ q.kind \notin TurnsOff,
     age |-> IF q.kind \in Stamps THEN q.at ELSE row.age,
     gone |-> (row.gone \/ q.kind = "archive") /\ q.kind \notin {"register", "unarchive"}]

Apply(x) ==
    /\ op[x] # None /\ op[x].pc = "sent"
    /\ op' = [op EXCEPT ![x] = [op[x] EXCEPT !.pc = "applied", !.hit = Hits(op[x])]]
    /\ row' = IF Hits(op[x]) THEN Written(op[x]) ELSE row
    /\ UNCHANGED <<setting, cache, beat, links, quiet, faults>>

\* observeSessionActivity never throws, and an error of the query on the
\* machine is caught: either way the handlers of the socket are installed.
Joined(x) == [s \in Sockets |-> IF s = x /\ sock[s] = "joining" THEN "on" ELSE sock[s]]

Answer(x) ==
    /\ op[x] # None /\ op[x].pc = "applied"
    /\ op' = [op EXCEPT ![x] = None]
    /\ cache' = IF op[x].hit /\ op[x].kind \in Invalidates THEN None ELSE cache
    /\ sock' = Joined(x)
    /\ UNCHANGED <<setting, row, beat, timers, held, quiet, faults>>

\* A query fails, before or after it was applied.
Fail(x) ==
    /\ op[x] # None /\ faults < MaxFaults /\ ~Prompt
    /\ op' = [op EXCEPT ![x] = None]
    /\ faults' = faults + 1
    /\ sock' = Joined(x)
    /\ UNCHANGED <<setting, row, cache, beat, timers, held, quiet>>

-----------------------------------------------------------------------------
(* Heartbeats: session-alive, machine-alive, and ActivityCache.             *)

\* Variant: the threshold is the timeout.
QueuedTooSeldom(entry, at) ==
    IF Apart(at, entry.sent) >= Timeout THEN [entry EXCEPT !.pending = at] ELSE entry

Queued(entry, at) ==
    IF Apart(at, entry.sent) > Threshold THEN [entry EXCEPT !.pending = at] ELSE entry

Fresh == cache # None /\ cache.life > 0

BeatHit(a) ==
    /\ Fresh
    /\ cache' = Queued(cache, a)
    /\ quiet' = Least(quiet, a)
    /\ UNCHANGED <<setting, row, beat, op, links, faults>>

BeatMiss(a) ==
    /\ ~Fresh /\ beat = None
    /\ beat' = [life |-> TTL, at |-> a, told |-> None]
    /\ quiet' = Least(quiet, a)
    /\ UNCHANGED <<setting, row, cache, op, links, faults>>

\* Variant: only active rows are looked up.
ReadActiveOnly ==
    /\ beat # None /\ beat.told = None
    /\ beat' = IF row.active THEN [beat EXCEPT !.told = row.age] ELSE None
    /\ UNCHANGED <<setting, row, cache, op, links, quiet, faults>>

Read ==
    /\ beat # None /\ beat.told = None
    /\ beat' = [beat EXCEPT !.told = row.age]
    /\ UNCHANGED <<setting, row, cache, op, links, quiet, faults>>

ReadFails ==
    /\ beat # None /\ faults < MaxFaults /\ ~Prompt
    /\ beat' = None
    /\ faults' = faults + 1
    /\ UNCHANGED <<setting, row, cache, op, links, quiet>>

\* The entry replaces whatever was cached meanwhile.
BeatCached ==
    /\ beat # None /\ beat.told # None
    /\ cache' = Queued([life |-> beat.life, sent |-> beat.told, pending |-> None], beat.at)
    /\ beat' = None
    /\ UNCHANGED <<setting, row, op, links, quiet, faults>>

\* Variant: the flush stamps the row with its own time.
StampNow(entry) == 0

Stamp(entry) == entry.pending

Flush ==
    /\ cache # None /\ cache.pending # None
    /\ Send("flush", "flush", Stamp(cache))
    /\ cache' = [cache EXCEPT !.sent = cache.pending, !.pending = None]
    /\ UNCHANGED <<setting, row, beat, links, quiet, faults>>

Cleanup ==
    /\ cache # None /\ cache.life = 0
    /\ cache' = None
    /\ UNCHANGED <<setting, row, beat, op, links, quiet, faults>>

-----------------------------------------------------------------------------
(* Sockets.                                                                 *)

\* Variant: the timer goes on.
ConnectKeepsTimer(s) ==
    /\ sock[s] = "off"
    /\ timers[s] = None \/ s = held
    /\ Send(s, "observe", 0)
    /\ sock' = [sock EXCEPT ![s] = "joining"]
    /\ held' = None
    /\ quiet' = 0
    /\ UNCHANGED <<setting, row, cache, beat, timers, faults>>

\* A socket that is used again is a new one: its old timer must be over,
\* unless it is the one that the connection cancels.
Connect(s) ==
    /\ sock[s] = "off"
    /\ timers[s] = None \/ s = held
    /\ Send(s, "observe", 0)
    /\ sock' = [sock EXCEPT ![s] = "joining"]
    /\ timers' = [t \in Sockets |-> IF t = held THEN None ELSE timers[t]]
    /\ held' = None
    /\ quiet' = 0
    /\ UNCHANGED <<setting, row, cache, beat, faults>>

\* The disconnect handler is only installed once the query is answered.
Drop(s) ==
    /\ sock[s] = "joining"
    /\ sock' = [sock EXCEPT ![s] = "off"]
    /\ UNCHANGED <<setting, row, cache, beat, op, timers, held, quiet, faults>>

\* A machine's disconnection clears the timer it replaces, a session's does not.
Disconnect(s) ==
    /\ sock[s] = "on"
    /\ sock' = [sock EXCEPT ![s] = "off"]
    /\ timers' = [t \in Sockets |->
                    IF t = s THEN Grace
                    ELSE IF t = held /\ ~Session THEN None ELSE timers[t]]
    /\ held' = s
    /\ UNCHANGED <<setting, row, cache, beat, op, quiet, faults>>

Fire(s) ==
    /\ timers[s] = 0
    /\ Send("grace", "grace", 0)
    /\ timers' = [timers EXCEPT ![s] = None]
    /\ held' = None
    /\ quiet' = 0
    /\ UNCHANGED <<setting, row, cache, beat, sock, faults>>

-----------------------------------------------------------------------------
(* The sweep, HTTP, session-end, report-dead-sessions, delete and archive.  *)

Sweep ==
    /\ row.active /\ Stale(row.age)
    /\ Send("sweep", "sweep", 0)
    /\ UNCHANGED <<setting, row, cache, beat, links, quiet, faults>>

\* A task or message route on behalf of the session, or the registration of
\* the machine, which does not touch the flag.
Http ==
    /\ Send("http", IF Session THEN "observe" ELSE "register", 0)
    /\ quiet' = 0
    /\ UNCHANGED <<setting, row, cache, beat, links, faults>>

\* An accepted machine-update-state; a refused one writes nothing.
DaemonState ==
    /\ ~Session /\ Send("http", "state", 0)
    /\ quiet' = 0
    /\ UNCHANGED <<setting, row, cache, beat, links, faults>>

SessionEnd(a) ==
    /\ Session /\ Send("end", "end", a)
    /\ quiet' = Least(quiet, a)
    /\ UNCHANGED <<setting, row, cache, beat, links, faults>>

ReportDead ==
    /\ Session /\ Send("dead", "dead", 0)
    /\ UNCHANGED <<setting, row, cache, beat, links, quiet, faults>>

\* One serializable transaction; the cache is not told.
Delete ==
    /\ Session /\ ~row.gone
    /\ row' = [row EXCEPT !.active = FALSE, !.gone = TRUE]
    /\ UNCHANGED <<setting, cache, beat, op, links, quiet, faults>>

\* A session is archived and restored on its own or with its team.
Shelve ==
    /\ Session /\ Send("admin", "shelve", 0)
    /\ UNCHANGED <<setting, row, cache, beat, links, quiet, faults>>

Restore ==
    /\ Session /\ ~Prompt /\ Send("admin", "restore", 0)
    /\ UNCHANGED <<setting, row, cache, beat, links, quiet, faults>>

\* A machine is archived: the read that looks at the flag, and the query that does not.
Archive ==
    /\ ~Session /\ ~row.active /\ ~row.gone
    /\ Send("admin", "archive", 0)
    /\ UNCHANGED <<setting, row, cache, beat, links, quiet, faults>>

Unarchive ==
    /\ ~Session /\ row.gone
    /\ Send("admin", "unarchive", 0)
    /\ UNCHANGED <<setting, row, cache, beat, links, quiet, faults>>

-----------------------------------------------------------------------------
(* Time and restarts.                                                       *)

\* A timer that is due fires before the next tick.  A heartbeat that asked
\* the database is answered before its time could not be told from older ones.
Tick ==
    /\ \A s \in Sockets : timers[s] # 0
    /\ beat # None => beat.at + 1 + Threshold < Old
    /\ Prompt => /\ quiet = 0 /\ beat = None /\ Busy = {}
                 /\ cache # None => cache.pending = None
    /\ row' = [row EXCEPT !.age = Older(@)]
    /\ cache' = IF cache = None THEN None
                ELSE [life |-> Earlier(cache.life), sent |-> Older(cache.sent),
                      pending |-> Older(cache.pending)]
    /\ beat' = IF beat = None THEN None
               ELSE [life |-> Earlier(beat.life), at |-> Older(beat.at),
                     told |-> Older(beat.told)]
    /\ op' = [x \in Slots |-> IF op[x] = None \/ op[x].kind \notin Stamps THEN op[x]
                              ELSE [op[x] EXCEPT !.at = Older(@)]]
    /\ timers' = [s \in Sockets |-> Earlier(timers[s])]
    /\ quiet' = Older(quiet)
    /\ UNCHANGED <<setting, sock, held, faults>>

\* Queries in flight are lost, or were applied just before.
Restart ==
    /\ faults < MaxFaults /\ ~Prompt
    /\ faults' = faults + 1
    /\ cache' = None /\ beat' = None
    /\ op' = [x \in Slots |-> None]
    /\ sock' = [s \in Sockets |-> "off"]
    /\ timers' = [s \in Sockets |-> None]
    /\ held' = None
    /\ UNCHANGED <<setting, row, quiet>>

Beat == \E a \in BeatAges : BeatHit(a) \/ BeatMiss(a)

Next ==
    \/ Beat \/ Read \/ ReadFails \/ BeatCached \/ Flush \/ Cleanup
    \/ \E x \in Slots : Apply(x) \/ Answer(x) \/ Fail(x)
    \/ \E s \in Sockets : Connect(s) \/ Drop(s) \/ Disconnect(s) \/ Fire(s)
    \/ Sweep \/ Http \/ DaemonState \/ ReportDead \/ Delete
    \/ Shelve \/ Restore \/ Archive \/ Unarchive
    \/ \E a \in BeatAges : SessionEnd(a)
    \/ Tick \/ Restart

Spec == Init /\ [][Next]_vars

\* The database answers, the intervals of the server run, time passes.  The
\* flush runs sixty times as often as the cleanup, which so cannot come first
\* every time.
Fairness ==
    /\ \A x \in Slots : WF_vars(Apply(x)) /\ WF_vars(Answer(x))
    /\ WF_vars(Read) /\ WF_vars(BeatCached)
    /\ SF_vars(Flush) /\ WF_vars(Sweep) /\ WF_vars(Tick)
    /\ \A s \in Sockets : WF_vars(Fire(s))

FairSpec == Spec /\ Fairness

-----------------------------------------------------------------------------
(* Properties.                                                              *)

\* The row never claims an activity later than the last word of the subject,
\* however late a heartbeat is flushed and in whatever order the queries are
\* applied: so after two minutes of silence the sweep can see that it is stale.
ActivityIsNeverOverstated == row.age >= quiet

\* As long as there is word of the subject in every tick, no query fails and
\* nobody restores a closed row, the heartbeats that the cache holds back
\* never let an active row grow so old that the sweep takes it.
BeatingIsNeverStale == Prompt /\ row.active => ~Stale(row.age)

\* A grace timer only fires when no socket of the subject is connected.
TimerSparesTheConnected ==
    [][\A s \in Sockets : Fire(s) => \A t \in Sockets : sock[t] = "off"]_vars

\* Whatever was in flight when the subject fell silent, it ends up inactive,
\* unless people go on restoring it.
SilentIsClosed == (<>[](quiet = Old) /\ <>[][~Restore]_vars) => <>[]~row.active

\* A subject that goes on sending heartbeats comes back online, unless
\* something goes on closing it.
Closing == Delete \/ \E x \in Slots : Apply(x) /\ op[x].kind \in TurnsOff
HeartbeatHeals == ([]<><<Beat>>_vars /\ <>[][~Closing]_vars) => <>[]row.active
=============================================================================
