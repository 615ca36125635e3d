------------------------------- MODULE Genomes -------------------------------
(***************************************************************************)
(* Genomes: versioned agent specifications, their editing by their owners   *)
(* and others, their publication on the hub, and the route that serves a    *)
(* version to be cached for ever.  A row carries a title (its namespace and *)
(* name, not null) and a version, unique together; each edit reads its row, *)
(* or the latest version of the title, in a query before the one that       *)
(* writes.  Rows are deleted by a mark.  The hub is another service, to     *)
(* which several routes write; the server writes official rows as it starts. *)
(***************************************************************************)
EXTENDS Absent, Naturals, Sequences, FiniteSets

CONSTANTS
    Authors,        \* accounts
    Editors,        \* slots for requests under way
    GenomeIds,
    Titles,
    Official,       \* the titles of @official that the server seeds
    Specs,
    HubNumbers,     \* bound: the versions that come to the hub by other routes
    MaxEdits,       \* bound: requests that write, and starts
    MaxServed       \* bound: copies in caches

\* The row of a genome.
Genome == [owner : Authors, title : Titles, version : Nat, spec : Specs,
           hub : Nat \cup {None}, deleted : BOOLEAN]

\* An entry of the hub; one that publication did not make, or that was changed, is foreign.
HubEntry == [title : Titles, version : Nat, spec : Specs, foreign : BOOLEAN]

ASSUME GenomesAssumption == None \notin Genome /\ Official \subseteq Titles /\ HubNumbers \subseteq Nat

VARIABLES
    genome,         \* the rows
    edit,           \* the request in each slot
    hub,            \* what the hub holds, by hub id
    served,         \* the versions that caches hold, and whose they were
    rewritten,      \* history: the versions whose row was posted anew, renamed or seeded again
    edits

genomeVars == <<genome, edit, hub, served, rewritten, edits>>

There == {id \in GenomeIds : genome[id] # None}
KeyOf(row) == <<row.title, row.version>>

\* Variant: without the unique index.
IsFreeAlways(id, title, number) == TRUE

\* The unique index: no other row, deleted or not, has the title and version.
IsFree(id, title, number) == \A o \in There \ {id} : KeyOf(genome[o]) # <<title, number>>

StartEdit(e, request) ==
    /\ edit[e] = None /\ edits < MaxEdits
    /\ edit' = [edit EXCEPT ![e] = request]
    /\ edits' = edits + 1
    /\ UNCHANGED <<genome, hub, served, rewritten>>

\* A query fails, or the answer of the hub does.
GiveUpEdit(e) ==
    /\ edit[e] # None
    /\ edit' = [edit EXCEPT ![e] = None]
    /\ UNCHANGED <<genome, hub, served, rewritten, edits>>

\* One row is written, which rewrites some versions; the request is over, with
\* or without success.
Write(e, id, row, versions) ==
    /\ IF IsFree(id, row.title, row.version)
       THEN genome' = [genome EXCEPT ![id] = row] /\ rewritten' = rewritten \cup versions
       ELSE UNCHANGED <<genome, rewritten>>
    /\ edit' = [edit EXCEPT ![e] = None]
    /\ UNCHANGED <<hub, served, edits>>

Own(u, id) == genome[id] # None /\ genome[id].owner = u /\ ~genome[id].deleted

New(u, title, number, spec) ==
    [owner |-> u, title |-> title, version |-> number, spec |-> spec, hub |-> None, deleted |-> FALSE]

\* POST with an id: the row of another account is refused.
LookToPost(e, u, id, title, spec) ==
    /\ genome[id] # None => genome[id].owner = u
    /\ StartEdit(e, [does |-> "post", by |-> u, id |-> id, title |-> title, spec |-> spec,
                 free |-> genome[id] = None])

\* The upsert: the version, the owner and the hub id of a row that is there stay.
PostGenome(e) ==
    /\ edit[e] # None /\ edit[e].does = "post"
    /\ LET r == edit[e]  id == r.id  old == genome[id]
       IN  IF old = None
           THEN Write(e, id, New(r.by, r.title, 1, r.spec), {})
           ELSE Write(e, id, [old EXCEPT !.title = r.title, !.spec = r.spec, !.deleted = FALSE],
                      {KeyOf(old), <<r.title, old.version>>})

\* PATCH: the same spec is an edit in place, another one a new version.
LookToPatch(e, u, id, title, spec) ==
    /\ Own(u, id)
    /\ StartEdit(e, IF spec = genome[id].spec
                THEN [does |-> "patch", by |-> u, id |-> id, title |-> title]
                ELSE [does |-> "number", by |-> u, title |-> title, spec |-> spec])

Patch(e) ==
    /\ edit[e] # None /\ edit[e].does = "patch"
    /\ LET r == edit[e]  old == genome[r.id]
       IN  Write(e, r.id, [old EXCEPT !.title = r.title],
                 IF r.title = old.title THEN {} ELSE {KeyOf(old), <<r.title, old.version>>})

\* The latest version of the title, whoever owns it, deleted or not, and the next one.
Latest(title) ==
    LET numbers == {0} \cup {genome[id].version : id \in {i \in There : genome[i].title = title}}
    IN  CHOOSE n \in numbers : \A k \in numbers : k <= n

LookUpLatest(e) ==
    /\ edit[e] # None /\ edit[e].does = "number"
    /\ edit' = [edit EXCEPT ![e] = [does |-> "insert", by |-> @.by, title |-> @.title, spec |-> @.spec,
                                    version |-> Latest(@.title) + 1]]
    /\ UNCHANGED <<genome, hub, served, rewritten, edits>>

InsertVersion(e, id) ==
    /\ edit[e] # None /\ edit[e].does = "insert"
    /\ genome[id] = None
    /\ Write(e, id, New(edit[e].by, edit[e].title, edit[e].version, edit[e].spec), {})

LookToDelete(e, u, id) == Own(u, id) /\ StartEdit(e, [does |-> "delete", by |-> u, id |-> id])

Delete(e) ==
    /\ edit[e] # None /\ edit[e].does = "delete"
    /\ Write(e, edit[e].id, [genome[edit[e].id] EXCEPT !.deleted = TRUE], {})

\* Publication: the row is read, posted to the hub, and given the hub's id.
LookToPublish(e, u, id) ==
    /\ Own(u, id) /\ genome[id].title \notin Official
    /\ StartEdit(e, [does |-> "publish", by |-> u, id |-> id, row |-> genome[id]])

PostToHub(e) ==
    /\ edit[e] # None /\ edit[e].does = "publish"
    /\ LET row == edit[e].row
       IN  hub' = Append(hub, [title |-> row.title, version |-> row.version, spec |-> row.spec, foreign |-> FALSE])
    /\ edit' = [edit EXCEPT ![e] = [does |-> "mark", by |-> @.by, id |-> @.id, hub |-> Len(hub')]]
    /\ UNCHANGED <<genome, served, rewritten, edits>>

MarkPublished(e) ==
    /\ edit[e] # None /\ edit[e].does = "mark"
    /\ Write(e, edit[e].id, [genome[edit[e].id] EXCEPT !.hub = edit[e].hub], {})

\* hub-create: an entry under any other title and number.  What promotion, diffs by
\* name and forks make the hub put there is such an entry, too, and so is what is
\* published of a row without a namespace.
HubCreate(title, number, spec) ==
    /\ edits < MaxEdits /\ edits' = edits + 1
    /\ title \notin Official
    /\ hub' = Append(hub, [title |-> title, version |-> number, spec |-> spec, foreign |-> TRUE])
    /\ UNCHANGED <<genome, edit, served, rewritten>>

\* A package diff of the entry that one's row names: the hub may change it in place.
LookToDiff(e, u, id) ==
    /\ Own(u, id) /\ genome[id].hub # None
    /\ StartEdit(e, [does |-> "diff", by |-> u, id |-> id, hub |-> genome[id].hub])

DiffOnHub(e, spec) ==
    /\ edit[e] # None /\ edit[e].does = "diff"
    /\ hub' = [hub EXCEPT ![edit[e].hub].spec = spec, ![edit[e].hub].foreign = TRUE]
    /\ edit' = [edit EXCEPT ![e] = None]
    /\ UNCHANGED <<genome, served, rewritten, edits>>

\* The server starts, with nothing under way, and seeds an official title: version 1 is
\* made for some account, or rewritten in place, deleted or not, if it is the latest.
ServerStarts ==
    /\ edits < MaxEdits /\ edits' = edits + 1
    /\ edit' = [e \in Editors |-> None]
    /\ UNCHANGED <<hub, served>>

SeedGenome(title, u, id, spec) ==
    /\ ServerStarts
    /\ Latest(title) = 0 /\ genome[id] = None
    /\ genome' = [genome EXCEPT ![id] = New(u, title, 1, spec)]
    /\ UNCHANGED rewritten

SeedAgain(title, id, spec) ==
    /\ ServerStarts
    /\ Latest(title) = 1 /\ KeyOf(genome[id]) = <<title, 1>>
    /\ genome' = [genome EXCEPT ![id].spec = spec]
    /\ rewritten' = rewritten \cup (IF spec = genome[id].spec THEN {} ELSE {<<title, 1>>})

CachesMore(copy) ==
    /\ copy \in served \/ Cardinality(served) < MaxServed
    /\ served' = served \cup {copy}

\* A version is read by someone who sees it, its owner or, of a public one, anybody,
\* and kept by every cache on the way.
Serve(id) ==
    /\ genome[id] # None /\ ~genome[id].deleted
    /\ CachesMore([key |-> KeyOf(genome[id]), spec |-> genome[id].spec, of |-> "row"])
    /\ UNCHANGED <<genome, edit, hub, rewritten, edits>>

\* Someone whose look-up found no such version, which may have been made since, is
\* given that of the hub.
ServeOfHub(n) ==
    /\ CachesMore([key |-> KeyOf(hub[n]), spec |-> hub[n].spec, of |-> "hub"])
    /\ UNCHANGED <<genome, edit, hub, rewritten, edits>>

GenomesInit ==
    /\ genome = [id \in GenomeIds |-> None]
    /\ edit = [e \in Editors |-> None]
    /\ hub = <<>> /\ served = {} /\ rewritten = {} /\ edits = 0

GenomesNext ==
    \/ \E e \in Editors :
          \/ \E u \in Authors, id \in GenomeIds :
                \/ \E title \in Titles, spec \in Specs :
                      LookToPost(e, u, id, title, spec) \/ LookToPatch(e, u, id, title, spec)
                \/ LookToDelete(e, u, id) \/ LookToPublish(e, u, id) \/ LookToDiff(e, u, id)
          \/ \E id \in GenomeIds : InsertVersion(e, id)
          \/ PostGenome(e) \/ Patch(e) \/ LookUpLatest(e) \/ Delete(e) \/ PostToHub(e) \/ MarkPublished(e)
          \/ GiveUpEdit(e)
          \/ \E spec \in Specs : DiffOnHub(e, spec)
    \/ \E title \in Titles, number \in HubNumbers, spec \in Specs : HubCreate(title, number, spec)
    \/ \E title \in Official, id \in GenomeIds, spec \in Specs :
          (\E u \in Authors : SeedGenome(title, u, id, spec)) \/ (id \in There /\ SeedAgain(title, id, spec))
    \/ \E id \in GenomeIds : Serve(id)
    \/ \E n \in DOMAIN hub : ServeOfHub(n)

GenomesSpec == GenomesInit /\ [][GenomesNext]_genomeVars

-----------------------------------------------------------------------------
(* Properties.                                                              *)

Foreign == {KeyOf(hub[n]) : n \in {m \in DOMAIN hub : hub[m].foreign}}

\* A version that a cache was told to keep for ever is never served with
\* another spec, also when two edits number their versions at once: the copies
\* of rows agree unless the row was posted anew, renamed or seeded again, and
\* those of the hub agree with them unless the hub got the version otherwise.
ServedForEver ==
    \A s \in served, t \in served :
        s.key = t.key /\ s.key \notin rewritten /\ (s.key \in Foreign => s.of = "row" /\ t.of = "row") =>
            s.spec = t.spec

\* The hub id of a row is that of its own version and spec, unless the row was
\* rewritten or the entry changed on the hub.
HubIdIsOfThisSpec ==
    \A id \in There : genome[id].hub # None /\ KeyOf(genome[id]) \notin rewritten =>
        /\ KeyOf(hub[genome[id].hub]) = KeyOf(genome[id])
        /\ hub[genome[id].hub].spec = genome[id].spec \/ hub[genome[id].hub].foreign

\* A row keeps its owner and is written by him, by a POST that found its id free, or
\* by a start of the server, which writes first versions of official titles only.
OnlyOwnersWrite ==
    \A id \in There : genome'[id] # genome[id] =>
        /\ genome'[id].owner = genome[id].owner
        /\ \/ \E e \in Editors : /\ edit[e] # None /\ edit'[e] = None
                                 /\ edit[e].by = genome[id].owner \/ (edit[e].does = "post" /\ edit[e].free)
           \/ /\ edit' = [e \in Editors |-> None]
              /\ genome[id].title \in Official /\ genome[id].version = 1

\* What authors, caches and the hub hold of a version stays right.
VersionsAreImmutable ==
    [][ServedForEver' /\ HubIdIsOfThisSpec' /\ OnlyOwnersWrite]_genomeVars

=============================================================================
