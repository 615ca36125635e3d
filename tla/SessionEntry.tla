---------------------------- MODULE SessionEntry ----------------------------
(***************************************************************************)
(* Opening a session (POST /v1/sessions): a client names the session's tag *)
(* and, when it resumes one, its id.  The lookups, the creation and the    *)
(* link to the team are separate queries, so that clients that open the    *)
(* session of one tag, or sessions of one team, get in between.            *)
(***************************************************************************)
EXTENDS Absent, Naturals, FiniteSets

CONSTANTS
    Tags,           \* tags the clients choose
    SessionRows,    \* ids the database gives to new sessions
    Entries         \* requests that ever arrive

\* The row of a session, and a request under way.
SessionRow == [tag : Tags, deleted : BOOLEAN]
Stages == {"exact", "conflict", "migrate", "tag", "create", "team", "header", "answered", "failed"}
Opening == [tag : Tags, id : SessionRows \cup {None}, team : BOOLEAN, answer : SessionRows \cup {None},
            header : SUBSET (SessionRows \cup {None}), at : Stages]

ASSUME EntryAssumption == None \notin SessionRows \cup SessionRow \cup Opening /\ SessionRows # {} /\ Tags # {}

VARIABLES
    row,            \* the session of each id: its tag, deleted
    entry,          \* each request: what it asks for and how far it is
    header,         \* the sessions in the header of the team's artifact
    overtaken,      \* history: sessions whose link a later write of the header lost
    moved           \* history: tags a session was moved away from

entryVars == <<row, entry, header, overtaken, moved>>

Tagged(t) == {i \in SessionRows : row[i] # None /\ row[i].tag = t}
Held(i) == row[i] # None

Goes(e, to) == entry' = [entry EXCEPT ![e].at = to]
Answers(e, i) == entry' = [entry EXCEPT ![e].at = "answered", ![e].answer = i]
Is(e, at) == entry[e] # None /\ entry[e].at = at

Enter(e, t, i, team) ==
    /\ entry[e] = None
    /\ entry' = [entry EXCEPT ![e] =
          [tag |-> t, id |-> i, team |-> team, answer |-> None, header |-> {},
           at |-> IF i = None THEN "tag" ELSE "exact"]]
    /\ UNCHANGED <<row, header, overtaken, moved>>

\* The session of the id, a deleted one too; its tag is moved if it differs.
FindExact(e) ==
    /\ Is(e, "exact")
    /\ IF ~Held(entry[e].id) THEN Goes(e, "tag")
       ELSE IF row[entry[e].id].tag # entry[e].tag THEN Goes(e, "conflict") ELSE Answers(e, entry[e].id)
    /\ UNCHANGED <<row, header, overtaken, moved>>

\* The tag is not moved when another session has it.
FindConflict(e) ==
    /\ Is(e, "conflict")
    /\ IF Tagged(entry[e].tag) \subseteq {entry[e].id} THEN Goes(e, "migrate") ELSE Answers(e, entry[e].id)
    /\ UNCHANGED <<row, header, overtaken, moved>>

\* Variant: nothing keeps two sessions of an account from having one tag.
TagIsFreeAlways(t, i) == TRUE

\* The unique constraint on (account, tag).
TagIsFree(t, i) == Tagged(t) \subseteq {i}

Migrate(e) ==
    /\ Is(e, "migrate")
    /\ LET i == entry[e].id  t == entry[e].tag
       IN  IF TagIsFree(t, i)
           THEN /\ row' = [row EXCEPT ![i].tag = t]
                /\ moved' = moved \cup ({row[i].tag} \ {t}) /\ Answers(e, i)
           ELSE Goes(e, "failed") /\ UNCHANGED <<row, moved>>
    /\ UNCHANGED <<header, overtaken>>

FindTag(e) ==
    /\ Is(e, "tag")
    /\ IF Tagged(entry[e].tag) # {}
       THEN \E i \in Tagged(entry[e].tag) : Answers(e, i)
       ELSE Goes(e, "create")
    /\ UNCHANGED <<row, header, overtaken, moved>>

\* The request that loses the race for a tag fails; it does not look again.
CreateSession(e) ==
    /\ Is(e, "create")
    /\ IF TagIsFree(entry[e].tag, None)
       THEN \E i \in SessionRows :
                /\ ~Held(i) /\ row' = [row EXCEPT ![i] = [tag |-> entry[e].tag, deleted |-> FALSE]]
                /\ entry' = [entry EXCEPT ![e].answer = i, ![e].at = IF entry[e].team THEN "team" ELSE "answered"]
       ELSE Goes(e, "failed") /\ UNCHANGED row
    /\ UNCHANGED <<header, overtaken, moved>>

\* The header of the team is read, and written back with the session in it.
ReadHeader(e) ==
    /\ Is(e, "team")
    /\ entry' = [entry EXCEPT ![e].header = header, ![e].at = "header"]
    /\ UNCHANGED <<row, header, overtaken, moved>>

HeaderWith(e) == entry[e].header \cup {entry[e].answer}

WriteHeader(e) ==
    /\ Is(e, "header")
    /\ header' = HeaderWith(e)
    /\ overtaken' = overtaken \cup (header \ entry[e].header)
    /\ Goes(e, "answered")
    /\ UNCHANGED <<row, moved>>

\* sessionDelete: the row, its tag and its links stay.
RemoveSession(i) ==
    /\ Held(i) /\ ~row[i].deleted
    /\ row' = [row EXCEPT ![i].deleted = TRUE]
    /\ UNCHANGED <<entry, header, overtaken, moved>>

\* No session yet, or one, under some tag; any will do.
EntryInit ==
    /\ LET none == [i \in SessionRows |-> None]
           one == [none EXCEPT ![CHOOSE i \in SessionRows : TRUE] =
                      [tag |-> CHOOSE t \in Tags : TRUE, deleted |-> FALSE]]
       IN  row \in {none, one}
    /\ entry = [e \in Entries |-> None]
    /\ header = {} /\ overtaken = {} /\ moved = {}

EntryNext ==
    \/ \E e \in Entries :
        \/ \E t \in Tags, i \in SessionRows \cup {None}, team \in BOOLEAN : Enter(e, t, i, team)
        \/ FindExact(e) \/ FindConflict(e) \/ Migrate(e) \/ FindTag(e)
        \/ CreateSession(e) \/ ReadHeader(e) \/ WriteHeader(e)
    \/ \E i \in SessionRows : RemoveSession(i)

EntrySpec == EntryInit /\ [][EntryNext]_entryVars

-----------------------------------------------------------------------------
(* Properties.                                                              *)

\* Clients that open the session of one tag get the same session, whoever
\* creates it and whether or not it was deleted since, or an error; unless a
\* session was moved away from that tag.
OneSessionForATag ==
    \A e, f \in Entries :
        Is(e, "answered") /\ Is(f, "answered") /\ entry[e].id = None /\ entry[f].id = None
        /\ entry[e].tag = entry[f].tag /\ entry[e].tag \notin moved
        => entry[e].answer = entry[f].answer

\* Linking a session drops none from the team's header but those that were
\* linked by another request after the header was read.
LinksStay == header \subseteq header' \cup overtaken'

\* Clients that enter by the same tag work on one session and in one team.
EntriesMeet == [][OneSessionForATag' /\ LinksStay]_entryVars

=============================================================================
