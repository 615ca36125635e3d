----------------------------- MODULE BoardStore -----------------------------
(***************************************************************************)
(* How one team's board is stored: the cached object and the version that  *)
(* TaskOrchestrator keeps in memory (boardCache, artifactMeta), and the    *)
(* artifact row in the database with its body and bodyVersion.             *)
(*                                                                         *)
(* A request gets the board (from the cache, or from the database), mutates*)
(* the object in place and saves it with a compare-and-swap on             *)
(* bodyVersion.  The server is one event loop: what runs between two       *)
(* awaits on the database is one action, the database applies a query at a *)
(* moment of its own, and everything else interleaves.  The board object   *)
(* in the cache is shared by all the requests that found it there.         *)
(*                                                                         *)
(* A board is the set of the mutations it contains.  An attempt of a       *)
(* request is a pair <<r, n>>; it names the mutation the attempt makes and *)
(* the object it creates when it has to load the board.  Only task         *)
(* creation is retried, by its route.  Team writers are the operations of  *)
(* the other routes that rewrite the same body (members, roles, archiving):*)
(* they read it and write it back, all of it, without comparing versions.  *)
(* The board object is not the whole body: loading keeps the columns, the  *)
(* tasks, the version, the time and the member list, and saving writes     *)
(* these alone.  What a team writer keeps elsewhere in the body (the name, *)
(* the description, the agreements, the roles, the corps) is Outside, and  *)
(* the next save of the orchestrator drops it.                             *)
(***************************************************************************)
EXTENDS Naturals, FiniteSets

CONSTANTS
    Creates,       \* requests whose route retries on a conflict
    Updates,       \* the other task mutations
    Reads,         \* requests that only list or get tasks
    TeamWriters,   \* requests that rewrite the body without the orchestrator
    Outside,       \* those that change keys of the body a board object has not
    MaxRetries,    \* MAX_RETRIES, 3 in the code
    MaxRestarts,   \* bound on the restarts of the server
    NoBoard        \* nothing cached

Requests == Creates \cup Updates \cup Reads
Tries == 1 .. MaxRetries
Attempts == Requests \X Tries
Mutations == Attempts \cup (TeamWriters \X {0})

ASSUME StoreAssumption ==
    /\ MaxRetries \in Nat \ {0} /\ MaxRestarts \in Nat
    /\ Creates \cap Updates = {} /\ (Creates \cup Updates) \cap Reads = {}
    /\ TeamWriters \cap Requests = {} /\ Outside \subseteq TeamWriters
    /\ NoBoard \notin Attempts

PCs == {"idle", "reading", "read", "saving", "saved", "conflict", "error",
        "ok", "failed", "refused", "lost"}
Answered == {"ok", "failed", "refused", "lost"}

Request ==
    [pc : PCs,
     try : Tries,
     began : Nat,                    \* the bodyVersion when it began (history)
     obj : Attempts \cup {NoBoard},  \* the board object it works on
     ref : Nat,                      \* the bodyVersion its save compares with
     body : SUBSET Mutations]        \* the snapshot it read, or sent to be saved

VARIABLES
    version,   \* the artifact row: bodyVersion
    body,      \*               and the body
    cache,     \* boardCache: the object, or NoBoard
    meta,      \* artifactMeta: the bodyVersion the server believes in
    heap,      \* the contents of the board objects
    req,       \* the requests to the orchestrator
    team,      \* the team writers: their pc and the body they read
    restarts

vars == <<version, body, cache, meta, heap, req, team, restarts>>
row == <<version, body>>
memory == <<cache, meta, heap>>

Init ==
    /\ version = 0 /\ body = {}
    /\ cache = NoBoard /\ meta = 0
    /\ heap = [a \in Attempts |-> {}]
    /\ req = [r \in Requests |->
                [pc |-> "idle", try |-> 1, began |-> 0, obj |-> NoBoard, ref |-> 0, body |-> {}]]
    /\ team = [e \in TeamWriters |-> [pc |-> "idle", body |-> {}]]
    /\ restarts = 0

-----------------------------------------------------------------------------
(* The round trip of a body through a board object.                         *)

\* What getBoardFromArtifact keeps of a body, and a save therefore writes.
Kept(b) == b \ (Outside \X {0})

-----------------------------------------------------------------------------
(* A request.                                                               *)

Self(r) == <<r, req[r].try>>
Goto(r, pc) == req' = [req EXCEPT ![r].pc = pc]

\* Mutate object o, serialise it and send the save: no await in between.
MutateAndSave(r, o, contents, ref) ==
    LET after == contents \cup {Self(r)}
    IN /\ heap' = [heap EXCEPT ![o] = after]
       /\ req' = [req EXCEPT ![r].pc = "saving", ![r].obj = o,
                             ![r].ref = ref, ![r].body = after,
                             ![r].began = IF req[r].pc = "idle" THEN version ELSE @]

\* getBoard finds the board in the cache.
UseCache(r) ==
    /\ req[r].pc = "idle" /\ cache # NoBoard
    /\ \/ r \notin Reads /\ MutateAndSave(r, cache, heap[cache], meta)
       \/ r \in Reads /\ Goto(r, "ok") /\ UNCHANGED heap
       \/ r \notin Reads /\ Goto(r, "failed") /\ UNCHANGED heap  \* validation fails
    /\ UNCHANGED <<row, cache, meta, team, restarts>>

\* getBoard misses, and asks the database for the artifact.
MissCache(r) ==
    /\ req[r].pc = "idle" /\ cache = NoBoard
    /\ req' = [req EXCEPT ![r].pc = "reading", ![r].began = version]
    /\ UNCHANGED <<row, memory, team, restarts>>

DbRead(r) ==
    /\ req[r].pc = "reading"
    /\ req' = [req EXCEPT ![r].pc = "read", ![r].ref = version, ![r].body = body]
    /\ UNCHANGED <<row, memory, team, restarts>>

\* The artifact arrives: a new object with what is kept of its body takes the
\* place of whatever is cached by now, and the request goes on with it.
LoadBoard(r) ==
    /\ req[r].pc = "read"
    /\ cache' = Self(r) /\ meta' = req[r].ref
    /\ \/ r \notin Reads /\ MutateAndSave(r, Self(r), Kept(req[r].body), req[r].ref)
       \/ /\ Goto(r, IF r \in Reads THEN "ok" ELSE "failed")
          /\ heap' = [heap EXCEPT ![Self(r)] = Kept(req[r].body)]
    /\ UNCHANGED <<row, team, restarts>>

\* Variant: no version in the where clause.
DbSaveUnchecked(r) ==
    /\ req[r].pc = "saving"
    /\ version' = version + 1 /\ body' = req[r].body
    /\ Goto(r, "saved")
    /\ UNCHANGED <<memory, team, restarts>>

\* updateMany with bodyVersion in its where clause, in the database.
DbSave(r) ==
    /\ req[r].pc = "saving"
    /\ IF version = req[r].ref
       THEN /\ version' = version + 1 /\ body' = req[r].body
            /\ Goto(r, "saved")
       ELSE Goto(r, "conflict") /\ UNCHANGED row
    /\ UNCHANGED <<memory, team, restarts>>

\* The query fails (a lost connection, a timeout of the pool).
DbFails(r) ==
    /\ req[r].pc \in {"reading", "saving"}
    /\ Goto(r, IF req[r].pc = "saving" THEN "error" ELSE "failed")
    /\ UNCHANGED <<row, memory, team, restarts>>

\* Variant: the object is not put back beside its version.
FinishSaveVersionOnly(r) ==
    /\ req[r].pc = "saved"
    /\ meta' = req[r].ref + 1
    /\ Goto(r, "ok")
    /\ UNCHANGED <<row, cache, heap, team, restarts>>

\* The save is answered and the event is broadcast, which awaits the database
\* twice more; then the version and the object are cached.
FinishSave(r) ==
    /\ req[r].pc = "saved"
    /\ meta' = req[r].ref + 1 /\ cache' = req[r].obj
    /\ Goto(r, "ok")
    /\ UNCHANGED <<row, heap, team, restarts>>

\* The broadcast throws: the cache is dropped and the caller gets an error.
BroadcastFails(r) ==
    /\ req[r].pc = "saved"
    /\ cache' = NoBoard
    /\ Goto(r, "failed")
    /\ UNCHANGED <<row, meta, heap, team, restarts>>

SaveFails(r) ==
    /\ req[r].pc = "error"
    /\ cache' = NoBoard
    /\ Goto(r, "failed")
    /\ UNCHANGED <<row, meta, heap, team, restarts>>

MayRetry(r) == r \in Creates /\ req[r].try < MaxRetries

\* Variants: the cache survives a conflict; the last conflict is not reported.
ConflictKeepsCache(r) ==
    /\ req[r].pc = "conflict"
    /\ IF MayRetry(r)
       THEN req' = [req EXCEPT ![r].pc = "idle", ![r].try = @ + 1]
       ELSE Goto(r, "refused")
    /\ UNCHANGED <<row, memory, team, restarts>>

ConflictOnlyRetried(r) ==
    /\ req[r].pc = "conflict" /\ MayRetry(r)
    /\ cache' = NoBoard
    /\ req' = [req EXCEPT ![r].pc = "reading", ![r].try = @ + 1]
    /\ UNCHANGED <<row, meta, heap, team, restarts>>

\* The version did not match: the cache is dropped; the route of createTask
\* tries again at once, up to MaxRetries attempts, and so misses the cache.
Conflict(r) ==
    /\ req[r].pc = "conflict"
    /\ cache' = NoBoard
    /\ IF MayRetry(r)
       THEN req' = [req EXCEPT ![r].pc = "reading", ![r].try = @ + 1]
       ELSE Goto(r, "refused")
    /\ UNCHANGED <<row, meta, heap, team, restarts>>

-----------------------------------------------------------------------------
(* The rest of the system.                                                  *)

TeamRead(e) ==
    /\ team[e].pc = "idle"
    /\ team' = [team EXCEPT ![e] = [pc |-> "read", body |-> body]]
    /\ UNCHANGED <<row, memory, req, restarts>>

\* update with only the id in its where clause.
TeamWrite(e) ==
    /\ team[e].pc = "read"
    /\ version' = version + 1
    /\ body' = team[e].body \cup {<<e, 0>>}
    /\ team' = [team EXCEPT ![e].pc = "ok"]
    /\ UNCHANGED <<memory, req, restarts>>

\* The process restarts: the memory is gone, and so are the requests in flight.
Restart ==
    /\ restarts < MaxRestarts /\ restarts' = restarts + 1
    /\ cache' = NoBoard /\ meta' = 0
    /\ req' = [r \in Requests |->
                IF req[r].pc \in Answered \cup {"idle"} THEN req[r]
                ELSE [req[r] EXCEPT !.pc = "lost"]]
    /\ team' = [e \in TeamWriters |->
                IF team[e].pc = "read" THEN [team[e] EXCEPT !.pc = "lost"] ELSE team[e]]
    /\ UNCHANGED <<row, heap>>

\* What the loop and the database do for a request once it has begun.
Progress(r) ==
    \/ DbRead(r) \/ LoadBoard(r) \/ DbSave(r) \/ FinishSave(r)
    \/ BroadcastFails(r) \/ SaveFails(r) \/ Conflict(r)

Next ==
    \/ \E r \in Requests : UseCache(r) \/ MissCache(r) \/ DbFails(r) \/ Progress(r)
    \/ \E e \in TeamWriters : TeamRead(e) \/ TeamWrite(e)
    \/ Restart

Spec == Init /\ [][Next]_vars

\* Every query is answered and every continuation runs.  Nothing obliges a
\* client to send a request, or a query to fail.
FairSpec == Spec /\ \A r \in Requests : WF_vars(Progress(r))

-----------------------------------------------------------------------------
(* Properties.                                                              *)

TypeOK ==
    /\ version \in Nat /\ body \subseteq Mutations
    /\ cache \in Attempts \cup {NoBoard} /\ meta \in Nat
    /\ heap \in [Attempts -> SUBSET Mutations]
    /\ req \in [Requests -> Request]
    /\ team \in [TeamWriters ->
                    [pc : {"idle", "read", "ok", "lost"}, body : SUBSET Mutations]]
    /\ restarts \in Nat

\* A save of the orchestrator drops the keys of the body that a board object
\* has not, and nothing else, whoever wrote it: although the cached object is
\* shared, mutated in place, replaced by late loads and put back by late saves,
\* what is sent under a version contains every change to the columns, the tasks
\* and the member list that was stored at that version.
SavesOnlyAdd == [][(\E r \in Requests : DbSave(r)) => Kept(body) \subseteq body']_vars

\* createTask gives up ("Concurrent write conflict") only under contention: the
\* board was written at least MaxRetries - 1 times while the route was trying. A
\* board left stale in the cache costs the first attempt, never all of them.
GivesUpOnlyUnderContention ==
    \A r \in Creates :
        req[r].pc = "refused" => version + 1 >= req[r].began + MaxRetries

\* Every request that has begun is answered, also with retries, failed queries
\* and restarts.
EveryRequestIsAnswered ==
    \A r \in Requests : req[r].pc # "idle" ~> req[r].pc \in Answered

\* The requests that were told their mutation is saved.
Told == {r \in Requests \ Reads : req[r].pc = "ok"}

\* Without team writers the store is a ledger: it only grows, and it holds what
\* the callers were told it holds.
Ledger == INSTANCE BoardLedger WITH stored <- body, told <- Told
ImplementsLedger == Ledger!Spec

\* A task route says that going through the server means "Single source of
\* truth (no sync conflicts)": what a caller was told is stored stays stored.
ToldIsStored ==
    \A r \in Told : \E n \in Tries : <<r, n>> \in body
=============================================================================
