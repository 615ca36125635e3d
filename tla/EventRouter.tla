----------------------------- MODULE EventRouter -----------------------------
(***************************************************************************)
(* Which connections of a user get an event.  A connection is a record     *)
(* [scope, subject]: a client of the whole user ("user"), of one session   *)
(* ("session") or of one machine ("machine"), whose id is the subject.     *)
(***************************************************************************)

\* shouldSendToConnection.  A client of the whole user gets every event.
ShouldSend(connection, filter) ==
    \/ connection.scope = "user"
    \/ filter.type = "all-user-authenticated-connections"
    \/ /\ filter.type = "all-interested-in-session" /\ connection.scope = "session"
       /\ connection.subject \in filter.subjects
    \/ /\ filter.type = "specific-sessions" /\ connection.scope = "session"
       /\ connection.subject \in filter.subjects
    \/ /\ filter.type = "machine-scoped-only" /\ connection.scope = "machine"
       /\ connection.subject \in filter.subjects

\* emit: the connections that get an event, the sender's own left out.
\* A connection is in the set from its connection to its disconnection.
Recipients(connections, scopeOf, filter, sender) ==
    {c \in connections \ {sender} : ShouldSend(scopeOf[c], filter)}

=============================================================================
