--------------------------- MODULE VersionedRecord ---------------------------
(***************************************************************************)
(* Records whose parts carry a version: the metadata and state of sessions *)
(* and machines, the header and body of artifacts, access keys, account    *)
(* settings.  A client names the version it means to replace; the handler  *)
(* reads the record, compares, writes with the version in the where        *)
(* clause, reads again when that misses, takes a number for the event that *)
(* tells the other clients, and answers.  Each query is one action, with   *)
(* the code that runs before the next one; the routes differ in the steps  *)
(* they leave out.                                                         *)
(***************************************************************************)
EXTENDS Naturals, FiniteSets

CONSTANTS
    Requests,    \* the requests, each with an update of its own
    Routes,      \* the routes they may take
    MaxFaults,   \* bound on failed queries
    None,
    Original     \* who wrote what was there at first

-----------------------------------------------------------------------------
(* The routes.                                                              *)

Update(of, parts) ==
    [does |-> "update", of |-> of, parts |-> parts,
     compares |-> TRUE,      \* the where clause of the write has the version
     increments |-> FALSE,   \* the write adds one to the version it finds
     rereads |-> TRUE,       \* a write that missed is followed by a second read
     announces |-> TRUE,     \* an event tells the other clients
     answers |-> TRUE]       \* a record that is not found is answered

UpdateMetadata == [Update("session", {"metadata"}) EXCEPT !.rereads = FALSE, !.answers = FALSE]
UpdateState == [Update("session", {"state"}) EXCEPT !.rereads = FALSE]
MachineUpdateMetadata == Update("machine", {"metadata"})
MachineUpdateState == Update("machine", {"state"})
ArtifactUpdate == Update("artifact", {"header", "body"})
AccessKeyUpdate == [Update("accessKey", {"data"}) EXCEPT !.announces = FALSE]
SettingsUpdate == Update("account", {"settings"})

\* The HTTP routes that compare in the first query only.
PostArtifact == [ArtifactUpdate EXCEPT !.compares = FALSE]
PostMetadata == [Update("session", {"metadata"}) EXCEPT !.compares = FALSE, !.increments = TRUE]

ArtifactCreate == [ArtifactUpdate EXCEPT !.does = "create"]
AccessKeyCreate == [AccessKeyUpdate EXCEPT !.does = "create"]
ArtifactDelete == [ArtifactUpdate EXCEPT !.does = "delete"]

\* Routes that look for an active session.
NeedActive == {UpdateMetadata, UpdateState}

Compared ==
    {UpdateMetadata, UpdateState, MachineUpdateMetadata, MachineUpdateState, ArtifactUpdate,
     AccessKeyUpdate, SettingsUpdate, ArtifactCreate, AccessKeyCreate, ArtifactDelete}
Uncompared == {PostArtifact, PostMetadata}

Parts == {"metadata", "state", "header", "body", "data", "settings"}
PartsOf(kind) == UNION {route.parts : route \in {x \in Routes : x.of = kind}}
MayBeAbsent(kind) == \E route \in Routes : route.of = kind /\ route.does = "create"

VARIABLES
    kind,      \* what the record is
    row,       \* the record: its life, whether it exists, versions, values
    req,       \* the requests
    seq,       \* the counter of allocateUserSeq
    notices,   \* the events that were emitted
    faults,
    done       \* every version that was written, and by whom (history)

vars == <<kind, row, req, seq, notices, faults, done>>

UnderWay == {"read", "write", "reread", "note"}
Ended == {"ok", "found", "refused", "silent", "error"}

\* The version and the value of a part, as a handler holds them.
Value == [version : Nat, by : Requests \cup {Original}]

Request ==
    [pc : UnderWay \cup Ended \cup {"mismatch"},
     route : Routes,
     parts : SUBSET Parts,
     expected : [Parts -> Nat \cup {None}],   \* the versions it names
     known : [Parts -> Value \cup {None}],    \* what it read, reports or wrote
     life : Nat]

ASSUME RecordAssumption ==
    /\ Routes \subseteq Compared \cup Uncompared
    /\ MaxFaults \in Nat
    /\ Original \notin Requests
    /\ None \notin Nat \cup Request \cup Value

Stated(q) == {p \in Parts : q.expected[p] # None}
Known(q) == {p \in Parts : q.known[p] # None}

\* The types of the variables; a request knows nothing of parts it is not about.
TypeOK ==
    /\ kind \in {route.of : route \in Routes}
    /\ row \in [life : Nat, exists : BOOLEAN, ver : [Parts -> Nat],
                val : [Parts -> Requests \cup {Original}]]
    /\ req \in [Requests -> {None} \cup Request]
    /\ seq \in Nat
    /\ notices \subseteq [seq : Nat, life : Nat, part : Parts, version : Nat,
                          by : Requests]
    /\ \A r \in Requests : req[r] # None => Known(req[r]) \subseteq req[r].parts
    /\ faults \in 0 .. MaxFaults
    /\ done \subseteq [life : Nat, part : Parts, version : Nat,
                       by : Requests \cup {Original}]

Init ==
    /\ kind \in {route.of : route \in Routes}
    /\ \E exists \in {TRUE, ~MayBeAbsent(kind)} :
          /\ row = [life |-> IF exists THEN 1 ELSE 0, exists |-> exists,
                    ver |-> [p \in Parts |-> 1], val |-> [p \in Parts |-> Original]]
          /\ done = IF exists THEN [life : {1}, part : PartsOf(kind), version : {1},
                                   by : {Original}] ELSE {}
    /\ req = [r \in Requests |-> None]
    /\ seq = 0 /\ notices = {} /\ faults = 0

-----------------------------------------------------------------------------
(* The queries of a request.                                                *)

At(r, pc) == req[r] # None /\ req[r].pc = pc
Does(r, what) == req[r].route.does = what

Current(p) == [version |-> row.ver[p], by |-> row.val[p]]

\* The request goes on to pc, knowing what is there of some parts.
Goes(r, pc) == req' = [req EXCEPT ![r].pc = pc]
Learns(r, pc, parts) ==
    req' = [req EXCEPT ![r].pc = pc, ![r].life = row.life,
                       ![r].known = [p \in Parts |-> IF p \in parts THEN Current(p) ELSE None]]

\* A client expects the versions it saw last; session routes without
\* expectedVersion expect nothing.
Begin(r) ==
    /\ req[r] = None
    /\ \E route \in {x \in Routes : x.of = kind} :
       \E parts \in IF route.does = "update" THEN (SUBSET route.parts) \ {{}} ELSE {route.parts} :
       \E stated \in CASE route.does # "update" -> {{}}
                       [] route.increments -> {{}, parts}
                       [] OTHER -> {parts} :
          req' = [req EXCEPT ![r] =
                    [pc |-> "read", route |-> route, parts |-> parts,
                     expected |-> [p \in Parts |-> IF p \in stated THEN row.ver[p] ELSE None],
                     known |-> [p \in Parts |-> None], life |-> 0]]
    /\ UNCHANGED <<kind, row, seq, notices, faults, done>>

Differing(q) == {p \in Stated(q) : row.ver[p] # q.expected[p]}

NotFound(r) ==
    /\ At(r, "read") /\ ~Does(r, "create")
    /\ ~row.exists \/ req[r].route \in NeedActive
    /\ Goes(r, IF req[r].route.answers THEN "refused" ELSE "silent")
    /\ UNCHANGED <<kind, row, seq, notices, faults, done>>

AlreadyThere(r) ==
    /\ At(r, "read") /\ Does(r, "create") /\ row.exists
    /\ Goes(r, "found")
    /\ UNCHANGED <<kind, row, seq, notices, faults, done>>

\* Variant: the client is told the version it named.
ReportedAsExpected(r) ==
    req' = [req EXCEPT ![r].pc = "mismatch", ![r].life = row.life,
               ![r].known = [p \in Parts |-> IF p \in Differing(req[r])
                    THEN [version |-> req[r].expected[p], by |-> row.val[p]] ELSE None]]

Reported(r) == Learns(r, "mismatch", Differing(req[r]))

Mismatch(r) ==
    /\ At(r, "read") /\ Does(r, "update") /\ row.exists
    /\ Differing(req[r]) # {}
    /\ Reported(r)
    /\ UNCHANGED <<kind, row, seq, notices, faults, done>>

Proceed(r) ==
    /\ At(r, "read")
    /\ row.exists = ~Does(r, "create")
    /\ Differing(req[r]) = {}
    /\ Learns(r, "write", Stated(req[r]))
    /\ UNCHANGED <<kind, row, seq, notices, faults, done>>

\* Variant: only one of the two versions is in the where clause.
MatchesSome(q) ==
    row.exists /\ (q.route.compares => \E p \in q.parts : row.ver[p] = q.expected[p])

Matches(q) ==
    row.exists /\ (q.route.compares => \A p \in q.parts : row.ver[p] = q.expected[p])

\* The version that the write gives to a part.
NextVersion(q, p) == (IF q.route.increments THEN row.ver[p] ELSE q.expected[p]) + 1

\* The row after the write, and what the handler answers and announces.
Writes(r, life, ver, parts) ==
    /\ row' = [life |-> life, exists |-> TRUE,
               ver |-> [p \in Parts |-> IF p \in parts THEN ver[p] ELSE row.ver[p]],
               val |-> [p \in Parts |-> IF p \in parts THEN r ELSE row.val[p]]]
    /\ done' = done \cup {[life |-> life, part |-> p, version |-> ver[p], by |-> r] : p \in parts}
    /\ req' = [req EXCEPT ![r].pc = IF req[r].route.announces THEN "note" ELSE "ok",
                          ![r].life = life,
                          ![r].known = [p \in Parts |-> IF p \in parts
                               THEN [version |-> ver[p], by |-> r] ELSE None]]

Store(r) ==
    /\ At(r, "write") /\ Does(r, "update") /\ Matches(req[r])
    /\ Writes(r, row.life, [p \in req[r].parts |-> NextVersion(req[r], p)], req[r].parts)
    /\ UNCHANGED <<kind, seq, notices, faults>>

\* Variant: the count is not looked at.
MissUnnoticed(r) ==
    /\ At(r, "write") /\ Does(r, "update") /\ ~Matches(req[r])
    /\ Goes(r, "ok")
    /\ UNCHANGED <<kind, row, seq, notices, faults, done>>

\* updateMany counts no row, or update finds none.
Miss(r) ==
    /\ At(r, "write") /\ Does(r, "update") /\ ~Matches(req[r])
    /\ Goes(r, IF ~req[r].route.compares THEN "error"
               ELSE IF req[r].route.rereads THEN "reread" ELSE "mismatch")
    /\ UNCHANGED <<kind, row, seq, notices, faults, done>>

Reread(r) ==
    /\ At(r, "reread")
    /\ Learns(r, "mismatch", IF row.exists THEN req[r].parts ELSE {})
    /\ UNCHANGED <<kind, row, seq, notices, faults, done>>

\* The primary key refuses a second creation.
Create(r) ==
    /\ At(r, "write") /\ Does(r, "create")
    /\ IF row.exists THEN Goes(r, "error") /\ UNCHANGED <<row, done>>
       ELSE Writes(r, row.life + 1, [p \in Parts |-> 1], req[r].parts)
    /\ UNCHANGED <<kind, seq, notices, faults>>

Delete(r) ==
    /\ At(r, "write") /\ Does(r, "delete")
    /\ Goes(r, IF row.exists THEN "note" ELSE "error")
    /\ row' = [row EXCEPT !.exists = FALSE]
    /\ UNCHANGED <<kind, seq, notices, faults, done>>

\* Variant: one part per event.
AnnouncedOne(q) == {CHOOSE p \in Known(q) : TRUE}

Announced(q) == Known(q)

Announce(r) ==
    /\ At(r, "note")
    /\ seq' = seq + 1
    /\ notices' = notices \cup
          (IF Does(r, "delete") THEN {}
           ELSE {[seq |-> seq + 1, life |-> req[r].life, part |-> p,
                  version |-> req[r].known[p].version, by |-> r] : p \in Announced(req[r])})
    /\ Goes(r, "ok")
    /\ UNCHANGED <<kind, row, faults, done>>

\* A query fails before it does anything.  One that fails afterwards looks
\* like the failure of the next.
Fail(r) ==
    /\ req[r] # None /\ req[r].pc \in UnderWay
    /\ faults < MaxFaults /\ faults' = faults + 1
    /\ Goes(r, "error")
    /\ UNCHANGED <<kind, row, seq, notices, done>>

\* The client takes what it was told, if anything, and tries again.
Retry(r) ==
    /\ At(r, "mismatch")
    /\ LET q == req[r] IN
          /\ Known(q) # {}
          /\ req' = [req EXCEPT ![r].pc = "read",
                ![r].expected = [p \in Parts |->
                    IF p \in Known(q) THEN q.known[p].version ELSE q.expected[p]],
                ![r].known = [p \in Parts |-> None]]
    /\ UNCHANGED <<kind, row, seq, notices, faults, done>>

Progress(r) ==
    \/ NotFound(r) \/ AlreadyThere(r) \/ Mismatch(r) \/ Proceed(r)
    \/ Store(r) \/ Miss(r) \/ Reread(r) \/ Create(r) \/ Delete(r) \/ Announce(r)

Next == \E r \in Requests : Begin(r) \/ Progress(r) \/ Fail(r) \/ Retry(r)

Spec == Init /\ [][Next]_vars

\* Queries are answered; clients that are told of a mismatch try again.
FairSpec == Spec /\ \A r \in Requests : WF_vars(Progress(r)) /\ WF_vars(Retry(r))

-----------------------------------------------------------------------------
(* Properties.                                                              *)

\* Two updates that named the same version of a part do not both succeed,
\* except when the record was deleted and created again in between.
NoLostUpdate ==
    \A d, e \in done :
        /\ d.life = e.life /\ d.part = e.part
        /\ d.by \in Requests /\ e.by \in Requests
        /\ req[d.by].expected[d.part] # None
        /\ req[d.by].expected[d.part] = req[e.by].expected[d.part]
        => d.by = e.by

\* When the handler read again to answer a mismatch, it tells the client of
\* a newer version of some part, so that trying again can help.
MismatchIsNews ==
    \A r \in Requests :
        At(r, "mismatch") /\ req[r].route.rereads /\ Known(req[r]) # {}
        => \/ \E p \in Known(req[r]) : req[r].known[p].version > req[r].expected[p]
           \/ req[r].life > 1

\* At rest, and if nothing failed, the versions and values of a record that
\* exists were announced, and nothing else under the same version: whatever
\* the order of the events, a client that keeps the newest has the record.
NoticesAreTheRecord ==
    (\A r \in Requests : req[r] # None => req[r].pc \in Ended \cup {"mismatch"})
    /\ faults = 0 /\ row.exists
    => \A p \in PartsOf(kind) :
          LET now == {n \in notices : n.life = row.life /\ n.part = p /\ n.version >= row.ver[p]}
          IN row.val[p] # Original /\ req[row.val[p]].route.announces
             => {<<n.version, n.by>> : n \in now} = {<<row.ver[p], row.val[p]>>}

\* A client that lost a race can catch up: by the answer to its request, or by
\* the notices of those who won.
ClientsCanCatchUp == MismatchIsNews /\ NoticesAreTheRecord

\* A client that takes the versions it is told and tries again gets another
\* answer than a mismatch in the end, however updates, deletions and failures
\* interleave, unless the record is gone.
Served(r) ==
    req[r] # None /\ (req[r].pc \in Ended \/ (req[r].pc = "mismatch" /\ Known(req[r]) = {}))
EveryoneIsServed == \A r \in Requests : req[r] # None ~> Served(r)

\* The handlers implement the register: versions without gaps, each by one
\* request, success only for those who wrote.
Told == {r \in Requests : At(r, "ok") /\ ~Does(r, "delete")}
Register == INSTANCE VersionedRegister WITH told <- Told
ImplementsRegister == Register!Spec
=============================================================================
