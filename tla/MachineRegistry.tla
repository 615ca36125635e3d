--------------------------- MODULE MachineRegistry ---------------------------
(***************************************************************************)
(* Registration, archiving and removal of machines (machinesRoutes).  Each *)
(* request looks at the machine first and changes it in a later query; in  *)
(* between another request, a daemon that comes online (machine-alive) or  *)
(* one that goes offline may get in.  The account's clients are told of a  *)
(* new or a removed machine after the write: the sequence numbers of those *)
(* updates take queries, which others overtake and which may fail.         *)
(***************************************************************************)
EXTENDS Absent, Naturals, FiniteSets

CONSTANTS
    Owners,         \* accounts
    MachineIds,     \* ids of machines; a daemon keeps its id on disk
    Visits,         \* requests that ever arrive
    MaxData         \* bound of the model: the highest metadataVersion

\* The row of a machine, and a request under way.
Machine == [accountId : Owners, active : BOOLEAN, archived : BOOLEAN, metadataVersion : Nat]
Visit == [kind : {"register", "archive", "delete"}, account : Owners, id : MachineIds, at : {"write", "announce", "done"}]

ASSUME MachinesAssumption == MaxData \in Nat /\ None \notin Machine \cup Visit

VARIABLES
    machine,        \* the row of each machine id
    accessKeys,     \* the machines that sessions hold access keys for
    visit,          \* each request: what it wants, and what it saw
    announced,      \* the machines each account's clients were told of, and not told were removed
    amiss,          \* history: machines whose last update failed, or was sent after the opposite write
    woken           \* history: machines that came online after a request looked at them

machineVars == <<machine, accessKeys, visit, announced, amiss, woken>>

Mine(a, m) == machine[m] # None /\ machine[m].accountId = a

MayRegister(a, m) == machine[m] = None \/ Mine(a, m)

\* A machine of another account is refused (409).
LookAtOwner(v, a, m) ==
    /\ visit[v] = None
    /\ visit' = [visit EXCEPT ![v] =
          [kind |-> "register", account |-> a, id |-> m, at |-> IF MayRegister(a, m) THEN "write" ELSE "done"]]
    /\ UNCHANGED <<machine, accessKeys, announced, amiss, woken>>

\* Variant: the row is found by its id alone.
FoundById(a, m) == machine[m] # None

FoundByOwner(a, m) == Mine(a, m)

\* upsert on (account, id): an update takes the machine out of the archive.
\* An id that another account took in the meantime fails on the primary key.
\* A machine that is new (version 1) is announced later.
RegisterMachine(v) ==
    /\ visit[v] # None /\ visit[v].kind = "register" /\ visit[v].at = "write"
    /\ LET a == visit[v].account  m == visit[v].id
       IN  \/ /\ FoundByOwner(a, m) /\ machine[m].metadataVersion < MaxData
              /\ machine' = [machine EXCEPT ![m].accountId = a, ![m].archived = FALSE, ![m].metadataVersion = @ + 1]
              /\ visit' = [visit EXCEPT ![v].at = "done"]
           \/ /\ ~FoundByOwner(a, m) /\ machine[m] = None
              /\ machine' = [machine EXCEPT ![m] =
                    [accountId |-> a, active |-> FALSE, archived |-> FALSE, metadataVersion |-> 1]]
              /\ visit' = [visit EXCEPT ![v].at = "announce"]
           \/ /\ ~FoundByOwner(a, m) /\ machine[m] # None
              /\ visit' = [visit EXCEPT ![v].at = "done"]
              /\ UNCHANGED machine
    /\ UNCHANGED <<accessKeys, announced, amiss, woken>>

\* A machine that is online is neither archived nor removed (409).
MayLeave(a, m) == Mine(a, m) /\ ~machine[m].active

LookAtMachine(v, a, m, kind) ==
    /\ visit[v] = None
    /\ visit' = [visit EXCEPT ![v] =
          [kind |-> kind, account |-> a, id |-> m,
           at |-> IF MayLeave(a, m) THEN IF kind = "archive" /\ machine[m].archived THEN "done" ELSE "write" ELSE "done"]]
    /\ woken' = IF kind = "register" THEN woken ELSE woken \ {v}
    /\ UNCHANGED <<machine, accessKeys, announced, amiss>>

Acts(v, kind) == visit[v] # None /\ visit[v].kind = kind /\ visit[v].at = "write"

\* The updates look for the machine again, but not whether it is online.
ArchiveMachine(v) ==
    /\ Acts(v, "archive")
    /\ LET a == visit[v].account  m == visit[v].id
       IN  machine' = [machine EXCEPT ![m] = IF Mine(a, m) THEN [@ EXCEPT !.archived = TRUE] ELSE @]
    /\ visit' = [visit EXCEPT ![v].at = "done"]
    /\ UNCHANGED <<accessKeys, announced, amiss, woken>>

UnarchiveMachine(a, m) ==
    /\ Mine(a, m) /\ machine[m].archived
    /\ machine' = [machine EXCEPT ![m].archived = FALSE]
    /\ UNCHANGED <<accessKeys, visit, announced, amiss, woken>>

KeysWithout(m) == accessKeys \ {m}

\* The access keys and the machine go in one transaction; the removal is
\* announced later, also when another request removed the machine first.
RemoveMachine(v) ==
    /\ Acts(v, "delete")
    /\ LET a == visit[v].account  m == visit[v].id
       IN  IF Mine(a, m)
           THEN machine' = [machine EXCEPT ![m] = None] /\ accessKeys' = KeysWithout(m)
           ELSE UNCHANGED <<machine, accessKeys>>
    /\ visit' = [visit EXCEPT ![v].at = "announce"]
    /\ UNCHANGED <<announced, amiss, woken>>

Announces(v) == visit[v] # None /\ visit[v].at = "announce"

Subject(v) == <<visit[v].account, visit[v].id>>

\* The update of v says what the row says now.
SaysSo(v) == Mine(visit[v].account, visit[v].id) = (visit[v].kind = "register")

\* The sequence numbers are there: new-machine or delete-machine is sent.
Announce(v) ==
    /\ Announces(v)
    /\ announced' = IF visit[v].kind = "register" THEN announced \cup {Subject(v)} ELSE announced \ {Subject(v)}
    /\ amiss' = IF SaysSo(v) THEN amiss \ {Subject(v)} ELSE amiss \cup {Subject(v)}
    /\ visit' = [visit EXCEPT ![v].at = "done"]
    /\ UNCHANGED <<machine, accessKeys, woken>>

\* A sequence number cannot be had: the request fails and nobody is told.
AnnounceFails(v) ==
    /\ Announces(v)
    /\ amiss' = amiss \cup {Subject(v)}
    /\ visit' = [visit EXCEPT ![v].at = "done"]
    /\ UNCHANGED <<machine, accessKeys, announced, woken>>

\* The daemon's signs of life and the timeouts (see Presence).
ComeOnline(m) ==
    /\ machine[m] # None /\ ~machine[m].active
    /\ machine' = [machine EXCEPT ![m].active = TRUE]
    /\ woken' = woken \cup {v \in Visits : visit[v] # None /\ visit[v].at = "write" /\ visit[v].id = m}
    /\ UNCHANGED <<accessKeys, visit, announced, amiss>>

GoOffline(m) ==
    /\ machine[m] # None /\ machine[m].active
    /\ machine' = [machine EXCEPT ![m].active = FALSE]
    /\ UNCHANGED <<accessKeys, visit, announced, amiss, woken>>

\* A session gets an access key for a machine that exists (accessKeysRoutes).
GrantKey(m) ==
    /\ machine[m] # None /\ accessKeys' = accessKeys \cup {m}
    /\ UNCHANGED <<machine, visit, announced, amiss, woken>>

MachinesInit ==
    /\ machine = [m \in MachineIds |-> None]
    /\ accessKeys = {} /\ announced = {} /\ amiss = {} /\ woken = {}
    /\ visit = [v \in Visits |-> None]

MachinesNext ==
    \/ \E v \in Visits, a \in Owners, m \in MachineIds :
        LookAtOwner(v, a, m) \/ \E kind \in {"archive", "delete"} : LookAtMachine(v, a, m, kind)
    \/ \E v \in Visits :
        RegisterMachine(v) \/ ArchiveMachine(v) \/ RemoveMachine(v) \/ Announce(v) \/ AnnounceFails(v)
    \/ \E a \in Owners, m \in MachineIds : UnarchiveMachine(a, m)
    \/ \E m \in MachineIds : ComeOnline(m) \/ GoOffline(m) \/ GrantKey(m)

MachinesSpec == MachinesInit /\ [][MachinesNext]_machineVars

-----------------------------------------------------------------------------
(* Properties.                                                              *)

\* A machine never passes from one account to another, however registrations
\* and removals of two accounts interleave; only a removed id is taken anew.
MachineKeepsItsOwner ==
    \A m \in MachineIds : machine[m] # None /\ machine'[m] # None => machine'[m].accountId = machine[m].accountId

\* A machine that is online is archived or removed only by a request that
\* looked at it while it was offline, before it came online.
OnlyOfflineMachinesLeave ==
    \A m \in MachineIds :
        /\ machine[m] # None /\ machine[m].active
        /\ machine'[m] = None \/ (machine'[m].archived /\ ~machine[m].archived)
        => \E v \in woken : visit[v].id = m /\ visit[v].at = "write" /\ visit'[v].at # "write"

ToldOf(a, m) ==
    \/ (<<a, m>> \in announced) = Mine(a, m)
    \/ <<a, m>> \in amiss
    \/ \E v \in Visits : Announces(v) /\ Subject(v) = <<a, m>> /\ SaysSo(v)

\* An access key belongs to a machine that exists, and what the clients of an
\* account were told of a machine is so, once no update of it is under way that
\* says so: unless the last one failed, or was overtaken by the opposite write.
MachinesAreKnown ==
    /\ \A m \in accessKeys : machine[m] # None
    /\ \A a \in Owners, m \in MachineIds : ToldOf(a, m)

\* However registrations, signs of life and removals interleave, a machine stays
\* with its account, stays while it is online, and its account knows of it.
MachinesStay == [][MachineKeepsItsOwner /\ OnlyOfflineMachinesLeave /\ MachinesAreKnown']_machineVars

=============================================================================
