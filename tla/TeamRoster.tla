----------------------------- MODULE TeamRoster -----------------------------
(***************************************************************************)
(* Teams and standalone agents, the rosters they keep, and the overview of *)
(* an account's teams.                                                     *)
(*                                                                         *)
(* A team is an artifact whose body is read, changed and written back with *)
(* no comparison of versions, by the routes of the teams, by the batches   *)
(* over sessions, and by the routes of the agents, whose artifacts are     *)
(* bodies of type "standalone" until they are promoted.  An account may    *)
(* also make, rewrite and remove such an artifact as it is, with bodies of *)
(* its own making.  A call is a record in the slot of who sent it; each of *)
(* its queries is a step that may fail, so that the calls of two clients   *)
(* interleave between any two of them.                                     *)
(* Of a body we keep the roster, whether it is archived and what it is;    *)
(* tasks are the matter of BoardStore.  Of a broadcast only matters that   *)
(* it may fail, between a write and the drop of the overview after it.     *)
(***************************************************************************)
EXTENDS Naturals, Sequences, FiniteSets, FiniteSetsExt, SequencesExt

CONSTANTS
    Clients, Users, Sessions,
    Ids,          \* the ids of artifacts a client may name
    FreshIds,     \* and those the server draws
    Registrations,\* what a client may say when it adds a member
    SeatPlans,    \* the seats of a corps
    Worlds,       \* the bodies that may be there from earlier calls
    Named,        \* the sets of sessions a client may name
    MaxCalls,     \* bound on the calls of a behaviour
    None

VARIABLES
    artifact,   \* the row of each id: its owner and its body
    session,    \* the row of each session
    call,       \* the call of each client
    cached,     \* the overview kept for each account
    calls       \* the number of calls so far

vars == <<artifact, session, call, cached, calls>>

AllIds == Ids \cup FreshIds
Or(x, y) == IF x # None THEN x ELSE y

\* A planned member is there before its session: its tag stands for it.
PlannedIds(seats) == UNION {{<<Or(seats[i].id, i), n>> : n \in 0 .. seats[i].quantity} : i \in DOMAIN seats}
SeatIds == ({r.id : r \in Registrations} \ {None}) \cup UNION {PlannedIds(seats) : seats \in SeatPlans}
Tags == AllIds \X SeatIds
Whose == Sessions \cup Tags \cup {None}

Member == [id : SeatIds \cup {None}, tag : Tags \cup {None}, session : Whose,
           role : STRING, runtime : STRING \cup {None}, image : STRING \cup {None},
           candidate : STRING \cup {None}, info : STRING \cup {None}]
CorpsSeat == [id : STRING \cup {None}, quantity : Nat, role : STRING,
              runtime : STRING \cup {None}, image : STRING \cup {None}]

\* A body (an agent has one member), its row, and the overviews of the teams.
Content ==
    {b \in [kind : {"team", "standalone"}, archived : BOOLEAN, members : Seq(Member)] :
        b.kind = "standalone" => Len(b.members) = 1}
Row == [owner : Users, body : Content]
Team == [owner : Users, members : Seq(Member)]
Overviews == [AllIds -> Team \cup {None}]

\* A call, and what it has still to write: a body, and who owned the row when it
\* was read.
Update == [id : AllIds, body : Content, owner : Users]
Batches == {"batchArchive", "batchUnarchive", "batchDelete"}
Kinds == Batches \cup {"add", "remove", "rename", "archive", "unarchive", "delete", "create",
                        "patch", "shelve", "promote", "retire", "overview", "rewrite", "erase"}
Stages == {"sessions", "list", "write", "drop", "done", "create", "close", "agent", "retired",
           "erase", "cache"}
Call ==
    [kind : Kinds, by : Users, id : AllIds \cup {None}, some : SUBSET Whose,
     pc : Stages, owner : Users \cup {None}, todo : SUBSET Update,
     seen : BOOLEAN, teams : Overviews, meanwhile : SUBSET {"wrote", "removed"}]

ASSUME RosterAssumption ==
    /\ Registrations \subseteq Member /\ SeatPlans \subseteq Seq(CorpsSeat)
    /\ Named \subseteq SUBSET Sessions
    /\ \A rows \in Worlds : \A id \in DOMAIN rows : rows[id] \in Content
    /\ MaxCalls \in Nat /\ None \notin Call \cup Row

\* The bodies a client may make up.
Bodies == UNION {{rows[id] : id \in DOMAIN rows} : rows \in Worlds}

-----------------------------------------------------------------------------
(* The roster.  info stands for the fields of a member that a registration  *)
(* sets when it has them and leaves alone otherwise.                        *)

SameMember(m, r) ==
    CASE r.id # None /\ m.id # None -> m.id = r.id
      [] r.tag # None /\ m.tag # None /\ ~(r.id # None /\ m.id # None) -> m.tag = r.tag
      [] OTHER -> m.session = r.session

\* A candidate is named, or follows from the image.
Candidate(r) == Or(r.candidate, r.image)

ClearsImage(m, r) ==
    r.runtime # None /\ m.runtime # r.runtime /\ r.image = None /\ r.candidate = None

\* Variant: the comparison forgets that the image may have to go.
ChangedButForImage(m, r) ==
    \/ m.session # r.session \/ m.role # r.role
    \/ \E f \in {"id", "tag", "image", "info"} : r[f] # None /\ m[f] # r[f]
    \/ Candidate(r) # None /\ m.candidate # Candidate(r)

Changed(m, r) ==
    \/ m.session # r.session \/ m.role # r.role
    \/ \E f \in {"id", "tag", "image", "info", "runtime"} : r[f] # None /\ m[f] # r[f]
    \/ Candidate(r) # None /\ m.candidate # Candidate(r)
    \/ ClearsImage(m, r) /\ (m.image # None \/ m.candidate # None)

Updated(m, r) ==
    [id |-> Or(r.id, m.id), tag |-> Or(r.tag, m.tag), session |-> r.session,
     role |-> r.role, runtime |-> Or(r.runtime, m.runtime), info |-> Or(r.info, m.info),
     image |-> IF ClearsImage(m, r) THEN None ELSE Or(r.image, m.image),
     candidate |-> IF ClearsImage(m, r) THEN None ELSE Or(Candidate(r), m.candidate)]

Matching(roster, r) == {i \in DOMAIN roster : SameMember(roster[i], r)}

\* Nothing to write when the member is there as it is registered.
Registers(roster, r) ==
    Matching(roster, r) # {} => Changed(roster[Min(Matching(roster, r))], r)

Registered(roster, r) ==
    IF Matching(roster, r) = {} THEN Append(roster, [r EXCEPT !.candidate = Candidate(r)])
    ELSE LET i == Min(Matching(roster, r))
         IN  [roster EXCEPT ![i] = Updated(@, r)]

Without(roster, gone) ==
    LET kept[n \in 0 .. Len(roster)] ==
          IF n = 0 THEN <<>>
          ELSE IF roster[n].session \in gone THEN kept[n - 1] ELSE Append(kept[n - 1], roster[n])
    IN  kept[Len(roster)]
InRoster(body) == {body.members[i].session : i \in DOMAIN body.members}

\* The members a corps starts with, one for each unit of each seat.
Planned(id, seats) ==
    FlattenSeq([i \in DOMAIN seats |-> [n \in 1 .. seats[i].quantity |->
        LET who == <<Or(seats[i].id, i), IF seats[i].quantity > 1 THEN n ELSE 0>>
        IN  [id |-> who, tag |-> <<id, who>>, session |-> <<id, who>>, role |-> seats[i].role,
             runtime |-> seats[i].runtime, image |-> seats[i].image,
             candidate |-> seats[i].image, info |-> None]]])

-----------------------------------------------------------------------------
(* Who sees a team.                                                         *)

Live(s) == s \in Sessions /\ session[s].owner # None
Owns(u, s) == Live(s) /\ session[s].owner = u

IsTeam(id) == artifact[id] # None /\ artifact[id].body.kind = "team"
Shown(id) == IsTeam(id) /\ ~artifact[id].body.archived

\* getTeamAccessContext: the owner, or one with a session among the members.
Accessible(u, id, archivedToo) ==
    /\ IsTeam(id) /\ (archivedToo \/ Shown(id))
    /\ \/ artifact[id].owner = u
       \/ \E s \in InRoster(artifact[id].body) : Owns(u, s) /\ ~session[s].deleted

\* Variant: deleted sessions give no access here either.
ListedByLive(u) ==
    {id \in AllIds : Shown(id) /\ (artifact[id].owner = u
        \/ \E s \in InRoster(artifact[id].body) : Owns(u, s) /\ ~session[s].deleted)}

\* listAccessibleTeamArtifacts: deleted sessions count too, archived teams do not.
Listed(u) ==
    {id \in AllIds : Shown(id) /\ (artifact[id].owner = u
                                     \/ \E s \in InRoster(artifact[id].body) : Owns(u, s))}

Overview(u) ==
    [id \in AllIds |-> IF id \in Listed(u)
                       THEN [owner |-> artifact[id].owner, members |-> artifact[id].body.members] ELSE None]

-----------------------------------------------------------------------------
(* Calls.  A call goes through its queries: the sessions it closes, opens   *)
(* or removes, the teams it lists, its writes of bodies, each followed by   *)
(* the dropping of the owner's overview.                                    *)

At(c, pc) == call[c] # None /\ call[c].pc = pc
Leaves(c, pc) == At(c, pc) /\ (call'[c] = None \/ call'[c].pc # pc)

\* What is written or removed while a call is under way is noted in it (history).
Disturbed(c, what, next) == [d \in Clients |->
    IF d = c THEN next
    ELSE IF call[d] = None THEN None ELSE [call[d] EXCEPT !.meanwhile = @ \cup {what}]]
Undisturbed(c) == call[c].meanwhile = {}
Moves(c, next) == call' = [call EXCEPT ![c] = next]
Ends(c) == Moves(c, None)

Starts(c, request) ==
    /\ call[c] = None /\ calls < MaxCalls
    /\ calls' = calls + 1
    /\ Moves(c, request)

Request(kind, u, id, some, pc, todo) ==
    [kind |-> kind, by |-> u, id |-> id, some |-> some, pc |-> pc, todo |-> todo,
     owner |-> None, seen |-> FALSE, teams |-> [x \in AllIds |-> None], meanwhile |-> {}]

Body(id) == artifact[id].body
Write(id, body) == {[id |-> id, body |-> body, owner |-> artifact[id].owner]}

AddTeamMember(c, u, id, r) ==
    /\ Accessible(u, id, FALSE)
    /\ Registers(Body(id).members, r)
    /\ Starts(c, Request("add", u, id, {r.session}, "write",
                   Write(id, [Body(id) EXCEPT !.members = Registered(@, r)])))
    /\ UNCHANGED <<artifact, session, cached>>

RemoveTeamMember(c, u, id, s) ==
    /\ Accessible(u, id, FALSE)
    /\ Starts(c, Request("remove", u, id, {s}, "write",
                   Write(id, [Body(id) EXCEPT !.members = Without(@, {s})])))
    /\ UNCHANGED <<artifact, session, cached>>

RenameTeam(c, u, id) ==
    /\ Accessible(u, id, FALSE)
    /\ Starts(c, Request("rename", u, id, {}, "write", Write(id, Body(id))))
    /\ UNCHANGED <<artifact, session, cached>>

ArchiveTeam(c, u, id, named) ==
    /\ Accessible(u, id, FALSE)
    /\ Starts(c, Request("archive", u, id, InRoster(Body(id)) \cup named, "sessions",
                   Write(id, [Body(id) EXCEPT !.archived = TRUE])))
    /\ UNCHANGED <<artifact, session, cached>>

UnarchiveTeam(c, u, id, named) ==
    /\ Accessible(u, id, TRUE)
    /\ Starts(c, Request("unarchive", u, id, InRoster(Body(id)) \cup named, "sessions",
                   Write(id, [Body(id) EXCEPT !.archived = FALSE])))
    /\ UNCHANGED <<artifact, session, cached>>

DeleteTeam(c, u, id, named) ==
    /\ Accessible(u, id, TRUE)
    /\ Starts(c, [Request("delete", u, id, InRoster(Body(id)) \cup named, "sessions", {})
                    EXCEPT !.owner = artifact[id].owner])
    /\ UNCHANGED <<artifact, session, cached>>

\* A batch over sessions is about those the caller owns.
Batch(c, u, kind, named) ==
    /\ \E s \in named : Owns(u, s)
    /\ Starts(c, Request(kind, u, None, {s \in named : Owns(u, s)}, "sessions", {}))
    /\ UNCHANGED <<artifact, session, cached>>

\* updateMany or deleteMany over the caller's own sessions among those named;
\* restoring touches the flag only.
Sets(c, active) ==
    session' = [s \in Sessions |-> IF s \in call[c].some /\ Owns(call[c].by, s)
                                   THEN [session[s] EXCEPT !.active = active] ELSE session[s]]
Drops(c) ==
    session' = [s \in Sessions |-> IF s \in call[c].some /\ Owns(call[c].by, s)
                                   THEN [session[s] EXCEPT !.owner = None] ELSE session[s]]

TouchSessions(c) ==
    /\ At(c, "sessions") /\ call[c].kind \in {"archive", "unarchive", "batchArchive", "batchUnarchive"}
    /\ Sets(c, call[c].kind \in {"unarchive", "batchUnarchive"})
    /\ CASE call[c].kind = "batchArchive" -> Moves(c, [call[c] EXCEPT !.pc = "list"])
         [] call[c].kind = "batchUnarchive" -> Ends(c)
         [] OTHER -> Moves(c, [call[c] EXCEPT !.pc = "write"])
    /\ UNCHANGED <<artifact, cached, calls>>

\* The rows of the sessions go; then the batch looks for the teams.
RemoveSessions(c) ==
    /\ At(c, "sessions") /\ call[c].kind = "batchDelete"
    /\ Drops(c)
    /\ call' = Disturbed(c, "removed", [call[c] EXCEPT !.pc = "list"])
    /\ UNCHANGED <<artifact, cached, calls>>

\* The overviews that show a team we no longer hold to be right (history).
Doubtful(id) ==
    [u \in Users |-> IF cached[u] # None /\ cached[u].teams[id] # None
                     THEN [cached[u] EXCEPT !.clean = FALSE] ELSE cached[u]]

\* A write goes by the id alone, and the overview that is dropped after it is
\* that of the owner who was read: it is the wrong one when the row was removed
\* and made again by another account in between.
Trusted(id, owner) == cached' = IF artifact[id].owner = owner THEN cached ELSE Doubtful(id)

\* One transaction: it fails as a whole when the artifact is gone.
RemoveTeam(c) ==
    /\ At(c, "sessions") /\ call[c].kind = "delete"
    /\ IF artifact[call[c].id] = None
       THEN Ends(c) /\ UNCHANGED <<artifact, session, cached>>
       ELSE /\ Drops(c)
            /\ Trusted(call[c].id, call[c].owner)
            /\ artifact' = [artifact EXCEPT ![call[c].id] = None]
            /\ call' = Disturbed(c, "removed", [call[c] EXCEPT !.pc = "drop"])
    /\ UNCHANGED calls

\* The teams of the caller whose rosters name a session of the batch.
ListTeams(c) ==
    /\ At(c, "list")
    /\ LET named == {id \in Listed(call[c].by) : InRoster(Body(id)) \cap call[c].some # {}}
       IN  Moves(c, [call[c] EXCEPT !.pc = IF named = {} THEN "done" ELSE "write",
             !.todo = UNION {Write(id, [Body(id) EXCEPT !.members = Without(@, call[c].some)]) : id \in named}])
    /\ UNCHANGED <<artifact, session, cached, calls>>

\* artifact.update with the id alone in its where clause.
WriteBody(c) ==
    /\ At(c, "write")
    /\ \E w \in call[c].todo :
          IF artifact[w.id] = None THEN Ends(c) /\ UNCHANGED <<artifact, cached>>
          ELSE /\ artifact' = [artifact EXCEPT ![w.id].body = w.body]
               /\ Trusted(w.id, w.owner)
               /\ call' = Disturbed(c, "wrote", [call[c] EXCEPT !.pc = "drop", !.owner = w.owner,
                                                       !.todo = @ \ {w}])
    /\ UNCHANGED <<session, calls>>

\* Variant: the overview of the caller is dropped, and not that of the owner.
DroppedOfCaller(c) == cached' = [cached EXCEPT ![call[c].by] = None]

Dropped(c) == cached' = [cached EXCEPT ![call[c].owner] = None]

DropOverview(c) ==
    /\ At(c, "drop")
    /\ Dropped(c)
    /\ Moves(c, [call[c] EXCEPT !.pc = IF call[c].todo = {} THEN "done" ELSE "write"])
    /\ UNCHANGED <<artifact, session, calls>>

\* The drop does not take place: the overview stays, and may be wrong (history).
Outdated(c) ==
    cached' = [u \in Users |-> IF u = call[c].owner /\ cached[u] # None
                               THEN [cached[u] EXCEPT !.clean = FALSE] ELSE cached[u]]

\* redis.del fails, which is caught: the call goes on.
DropFails(c) ==
    /\ At(c, "drop")
    /\ Outdated(c)
    /\ Moves(c, [call[c] EXCEPT !.pc = IF call[c].todo = {} THEN "done" ELSE "write"])
    /\ UNCHANGED <<artifact, session, calls>>

\* A query of the call fails, or that of the broadcast before the drop
\* (allocateUserSeq): the call ends there.
Fails(c) ==
    /\ call[c] # None /\ call[c].pc # "done"
    /\ Ends(c)
    /\ IF call[c].pc = "drop" THEN Outdated(c) ELSE UNCHANGED cached
    /\ UNCHANGED <<artifact, session, calls>>

Finish(c) ==
    /\ At(c, "done")
    /\ Ends(c)
    /\ UNCHANGED <<artifact, session, cached, calls>>

-----------------------------------------------------------------------------
(* Creating a team under an id of the client's or of the server's.          *)

TeamBody(members) == [kind |-> "team", archived |-> FALSE, members |-> members]

\* A random id is one that nobody had, or is about to have.
Unused == {f \in FreshIds : artifact[f] = None /\ \A c \in Clients : call[c] = None \/ call[c].id # f}

\* The id it will be written under: not one that it saw another account hold.
Create(c, u, id, seats) ==
    /\ \E target \in IF artifact[id] # None /\ artifact[id].owner # u THEN Unused ELSE {id} :
          Starts(c, [Request("create", u, target, {}, "create",
                       {[id |-> target, body |-> TeamBody(Planned(id, seats)), owner |-> u]})
                       EXCEPT !.seen = artifact[id] # None /\ artifact[id].owner = u])
    /\ UNCHANGED <<artifact, session, cached>>

Saved(c) ==
    call' = Disturbed(c, "wrote", [call[c] EXCEPT !.pc = "drop", !.owner = call[c].by, !.todo = {}])

\* Variant: any conflict is taken for a row of the caller's.
TakenForOwn(c) == TRUE

TakenByOwn(c) == artifact[call[c].id] # None /\ artifact[call[c].id].owner = call[c].by

\* An update when it saw a row of its own, an insert otherwise; the insert of an
\* id that was taken meanwhile (P2002) makes it look again.
CreateArtifact(c) ==
    /\ At(c, "create")
    /\ LET id == call[c].id
       IN  \E w \in call[c].todo :
             CASE call[c].seen /\ artifact[id] = None -> Ends(c) /\ UNCHANGED <<artifact, cached>>
               [] call[c].seen /\ artifact[id] # None ->
                     /\ artifact' = [artifact EXCEPT ![id].body = w.body]
                     /\ Trusted(id, call[c].by)
                     /\ Saved(c)
               [] ~call[c].seen /\ artifact[id] = None ->
                     /\ artifact' = [artifact EXCEPT ![id] = [owner |-> call[c].by, body |-> w.body]]
                     /\ Saved(c)
                     /\ UNCHANGED cached
               [] OTHER -> /\ \E target \in IF TakenByOwn(c) THEN {id} ELSE Unused :
                                 Moves(c, [call[c] EXCEPT !.seen = TakenByOwn(c), !.id = target])
                           /\ UNCHANGED <<artifact, cached>>
    /\ UNCHANGED <<session, calls>>

-----------------------------------------------------------------------------
(* One session is deleted: its row stays.                                   *)

DeleteSession(u, s) ==
    /\ Owns(u, s) /\ ~session[s].deleted
    /\ session' = [session EXCEPT ![s].active = FALSE, ![s].deleted = TRUE]
    /\ calls < MaxCalls /\ calls' = calls + 1
    /\ UNCHANGED <<artifact, call, cached>>

-----------------------------------------------------------------------------
(* Agents: artifacts of one member that are no team until promoted.         *)

Agent(u, id) == artifact[id] # None /\ artifact[id].owner = u /\ artifact[id].body.kind = "standalone"

\* An agent may be there before its session; a session that is named must be the caller's.
CreateAgent(c, u, r) ==
    /\ \E id \in Unused, s \in {None} \cup {t \in {r.session} : Owns(u, t)} :
          artifact' = [artifact EXCEPT ![id] =
            [owner |-> u, body |-> [kind |-> "standalone", archived |-> FALSE,
                                    members |-> <<[r EXCEPT !.session = s]>>]]]
    /\ calls < MaxCalls /\ calls' = calls + 1
    /\ UNCHANGED <<session, call, cached>>

\* The image of an agent goes when its runtime changes and no image is given.
PatchedAgent(m, r) ==
    [m EXCEPT !.id = Or(r.id, @), !.session = r.session, !.tag = Or(r.tag, @),
              !.runtime = Or(r.runtime, @), !.info = Or(r.info, @),
              !.image = IF r.runtime # None /\ m.runtime # r.runtime /\ r.image = None
                        THEN None ELSE Or(r.image, @)]

PatchAgent(c, u, id, r) ==
    /\ Agent(u, id) /\ Owns(u, r.session)
    /\ Starts(c, Request("patch", u, id, {}, "agent",
         Write(id, [Body(id) EXCEPT !.members[1] = PatchedAgent(@, r)])))
    /\ UNCHANGED <<artifact, session, cached>>

\* Its sessions are closed, then the body is written.
ArchiveAgent(c, u, id) ==
    /\ Agent(u, id)
    /\ Starts(c, Request("shelve", u, id, InRoster(Body(id)), "close", Write(id, Body(id))))
    /\ UNCHANGED <<artifact, session, cached>>

CloseSessions(c) ==
    /\ At(c, "close")
    /\ Sets(c, FALSE)
    /\ Moves(c, [call[c] EXCEPT !.pc = "agent"])
    /\ UNCHANGED <<artifact, cached, calls>>

PromoteAgent(c, u, id) ==
    /\ Agent(u, id)
    /\ Starts(c, Request("promote", u, id, {}, "agent", Write(id, [Body(id) EXCEPT !.kind = "team"])))
    /\ UNCHANGED <<artifact, session, cached>>

\* A member on the bypass plane (its info says so) leaves the roster.
RetireBypassAgent(c, u, id, s) ==
    /\ Accessible(u, id, FALSE)
    /\ \E i \in DOMAIN Body(id).members :
          Body(id).members[i].session = s /\ Body(id).members[i].info = "bypass"
    /\ Starts(c, [Request("retire", u, id, {s}, "agent",
                    Write(id, [Body(id) EXCEPT !.members = Without(@, {s})]))
                    EXCEPT !.owner = artifact[id].owner])
    /\ UNCHANGED <<artifact, session, cached>>

\* Its session is closed after, if it is one of the owner's.
CloseRetired(c) ==
    /\ At(c, "retired")
    /\ session' = [s \in Sessions |-> IF s \in call[c].some /\ Owns(call[c].owner, s)
                                      THEN [session[s] EXCEPT !.active = FALSE] ELSE session[s]]
    /\ Ends(c)
    /\ UNCHANGED <<artifact, cached, calls>>

\* These routes, and those of artifacts below, write like the others, and leave
\* the overview as it is.
WriteAgent(c) ==
    /\ At(c, "agent")
    /\ \E w \in call[c].todo :
          IF artifact[w.id] = None THEN Ends(c) /\ UNCHANGED <<artifact, cached>>
          ELSE /\ artifact' = [artifact EXCEPT ![w.id].body = w.body]
               /\ call' = Disturbed(c, "wrote", IF call[c].kind = "retire"
                                                THEN [call[c] EXCEPT !.pc = "retired"] ELSE None)
               /\ cached' = Doubtful(w.id)
    /\ UNCHANGED <<session, calls>>

-----------------------------------------------------------------------------
(* Artifacts as they are: their owner makes, rewrites and removes them, over *)
(* HTTP or a socket, and no overview is dropped.                             *)

HasArtifact(u, id) == artifact[id] # None /\ artifact[id].owner = u

\* The insert that follows a look-up that found nothing; it fails when the id
\* was taken meanwhile.
NewArtifact(c, u, id, body) ==
    /\ artifact[id] = None /\ call[c] = None
    /\ artifact' = [artifact EXCEPT ![id] = [owner |-> u, body |-> body]]
    /\ calls < MaxCalls /\ calls' = calls + 1
    /\ call' = Disturbed(c, "wrote", None)
    /\ UNCHANGED <<session, cached>>

\* The route compares versions and writes by the id alone, with WriteAgent; the
\* socket's update compares again as it writes, and may write nothing (Fails).
RewriteArtifact(c, u, id, body) ==
    /\ HasArtifact(u, id)
    /\ Starts(c, Request("rewrite", u, id, {}, "agent", Write(id, body)))
    /\ UNCHANGED <<artifact, session, cached>>

EraseArtifact(c, u, id) ==
    /\ HasArtifact(u, id)
    /\ Starts(c, Request("erase", u, id, {}, "erase", {}))
    /\ UNCHANGED <<artifact, session, cached>>

\* artifact.delete with the id alone in its where clause.
RemoveArtifact(c) ==
    /\ At(c, "erase")
    /\ LET id == call[c].id
       IN  IF artifact[id] = None THEN Ends(c) /\ UNCHANGED <<artifact, cached>>
           ELSE /\ artifact' = [artifact EXCEPT ![id] = None]
                /\ call' = Disturbed(c, "removed", None)
                /\ cached' = Doubtful(id)
    /\ UNCHANGED <<session, calls>>

-----------------------------------------------------------------------------
(* The overview of an account, kept for ten seconds.                        *)

ComputeOverview(c, u) ==
    /\ cached[u] = None
    /\ Starts(c, [Request("overview", u, None, {}, "cache", {}) EXCEPT !.teams = Overview(u)])
    /\ UNCHANGED <<artifact, session, cached>>

CacheOverview(c) ==
    /\ At(c, "cache")
    /\ cached' = [cached EXCEPT ![call[c].by] = [teams |-> call[c].teams, clean |-> Undisturbed(c)]]
    /\ Ends(c)
    /\ UNCHANGED <<artifact, session, calls>>

ExpireOverview(u) ==
    /\ cached[u] # None
    /\ cached' = [cached EXCEPT ![u] = None]
    /\ UNCHANGED <<artifact, session, call, calls>>

-----------------------------------------------------------------------------

\* A team or an agent of earlier calls may be there, and an overview.
Init ==
    /\ session \in [Sessions -> [owner : Users, active : {TRUE}, deleted : {FALSE}]]
    /\ \E u \in Users, rows \in Worlds :
          artifact = [id \in AllIds |-> IF id \in DOMAIN rows THEN [owner |-> u, body |-> rows[id]] ELSE None]
    /\ \E some \in {{}} \cup {{u} : u \in Users} :
          cached = [u \in Users |-> IF u \in some THEN [teams |-> Overview(u), clean |-> TRUE] ELSE None]
    /\ call = [c \in Clients |-> None]
    /\ calls = 0

Step(c) ==
    \/ TouchSessions(c) \/ RemoveSessions(c) \/ RemoveTeam(c) \/ ListTeams(c)
    \/ WriteBody(c) \/ DropOverview(c) \/ Finish(c) \/ CreateArtifact(c)
    \/ CloseSessions(c) \/ WriteAgent(c) \/ CloseRetired(c) \/ RemoveArtifact(c)
    \/ CacheOverview(c) \/ DropFails(c) \/ Fails(c)

OnTeam(c, u, id) ==
    \/ \E r \in Registrations : AddTeamMember(c, u, id, r) \/ PatchAgent(c, u, id, r)
    \/ \E s \in Sessions : RemoveTeamMember(c, u, id, s) \/ RetireBypassAgent(c, u, id, s)
    \/ RenameTeam(c, u, id)
    \/ \E named \in Named :
          ArchiveTeam(c, u, id, named) \/ UnarchiveTeam(c, u, id, named) \/ DeleteTeam(c, u, id, named)
    \/ ArchiveAgent(c, u, id) \/ PromoteAgent(c, u, id) \/ EraseArtifact(c, u, id)
    \/ \E body \in Bodies : RewriteArtifact(c, u, id, body)

Next ==
    \/ \E c \in Clients :
          \/ Step(c)
          \/ \E u \in Users :
                \/ \E id \in AllIds : OnTeam(c, u, id)
                \/ \E id \in Ids, seats \in SeatPlans : Create(c, u, id, seats)
                \/ \E kind \in Batches, named \in Named : Batch(c, u, kind, named)
                \/ \E id \in Ids, body \in Bodies : NewArtifact(c, u, id, body)
                \/ \E r \in Registrations : CreateAgent(c, u, r)
                \/ ComputeOverview(c, u)
    \/ \E u \in Users : ExpireOverview(u) \/ \E s \in Sessions : DeleteSession(u, s)

Spec == Init /\ [][Next]_vars

-----------------------------------------------------------------------------
(* Properties.                                                              *)

\* The types of the variables; a call that waits to write has something to write,
\* and one that removes or creates a team names it.
TypeOK ==
    /\ artifact \in [AllIds -> Row \cup {None}]
    /\ session \in [Sessions -> [owner : Users \cup {None}, active : BOOLEAN, deleted : BOOLEAN]]
    /\ call \in [Clients -> Call \cup {None}]
    /\ cached \in [Users -> [teams : Overviews, clean : BOOLEAN] \cup {None}]
    /\ calls \in 0 .. MaxCalls
    /\ \A c \in Clients : call[c] # None =>
          /\ \/ call[c].pc \in {"write", "create", "close", "agent"}
             \/ call[c].pc = "sessions" /\ call[c].kind \in {"archive", "unarchive"}
             => call[c].todo # {}
          /\ call[c].pc = "drop" \/ call[c].kind \in {"delete", "retire"} => call[c].owner \in Users
          /\ call[c].kind = "delete" \/ call[c].pc \in {"create", "erase"} => call[c].id \in AllIds

\* A registration that is sent again, because its answer was lost or the agent
\* restarted, finds the member as it left it: nothing is written or announced.
RetriedAddIsSilent ==
    \A id \in AllIds, r \in Registrations : IsTeam(id) =>
        ~Registers(Registered(Body(id).members, r), r)

\* No registration is swallowed: what the comparison calls unchanged is.
NoChangeIsMissed ==
    \A id \in AllIds, r \in Registrations : IsTeam(id) =>
        (Registers(Body(id).members, r) <=> Registered(Body(id).members, r) # Body(id).members)

\* A registration is written and announced if and only if it changes the roster.
RegistrationIsExact == RetriedAddIsSilent /\ NoChangeIsMissed

\* Two accounts that create a team under the same id end up with a team each:
\* the owner of a row stays, and a creation writes over no row of another account,
\* short of one that took the place of a row that was deleted meanwhile.
OwnersAreForever ==
    [][\A id \in AllIds : artifact[id] # None /\ artifact'[id] # artifact[id] =>
          /\ artifact'[id] # None => artifact'[id].owner = artifact[id].owner
          /\ \A c \in Clients : Leaves(c, "create") =>
                artifact[id].owner = call[c].by \/ "removed" \in call[c].meanwhile]_vars

\* When a batch ends that nothing disturbed, no team on display names the
\* sessions it archived, and none of the caller's own those it deleted.
BatchCleansRosters ==
    [][\A c \in Clients :
          (At(c, "done") /\ call'[c] = None /\ Undisturbed(c)) =>
             \A id \in AllIds : Shown(id) =>
                /\ call[c].kind = "batchArchive" => InRoster(Body(id)) \cap call[c].some = {}
                /\ call[c].kind = "batchDelete" /\ artifact[id].owner = call[c].by =>
                      InRoster(Body(id)) \cap call[c].some = {}]_vars

\* An overview that was computed undisturbed is right about the owner's teams,
\* or a call that wrote one of them is about to drop it.  It may stay wrong until
\* it expires only after: a write or removal through the routes of agents and of
\* artifacts, which drop none, of a team that it shows; a drop that did not take
\* place, since the broadcast before it or the drop itself failed; and a write
\* over a row that was removed and made again by another account after it was
\* read.
OverviewIsCurrent ==
    \A u \in Users : cached[u] # None /\ cached[u].clean =>
        \/ \A id \in AllIds : cached[u].teams[id] # None /\ cached[u].teams[id].owner = u =>
              Shown(id) /\ Body(id).members = cached[u].teams[id].members
        \/ \E c \in Clients : At(c, "drop") /\ call[c].owner = u

=============================================================================
