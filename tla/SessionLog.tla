----------------------------- MODULE SessionLog -----------------------------
(***************************************************************************)
(* The messages of one session.  Every socket has a lock (AsyncLock) that  *)
(* lets one 'message' handler of the socket run at a time; handlers of     *)
(* different sockets interleave at each query.  A client that reconnects   *)
(* may send a message again, under the same local id, on its new socket    *)
(* while the old socket's handler still runs: a disconnection stops no     *)
(* handler, and is left out.                                               *)
(***************************************************************************)
EXTENDS Absent, Naturals, Sequences, FiniteSets, EventRouter

CONSTANTS
    Conns,          \* sockets of the user
    Senders,        \* those that send messages to the session
    ScopeOf,        \* what each socket is a connection of
    Session,        \* the session
    LocalIds,       \* ids the clients give to their messages; None: no id
    Sends           \* messages that ever arrive, numbered in their order

\* The handler of one arrival.
Handler == [conn : Senders, localId : LocalIds \cup {None}, nth : Nat,
            at : {"wait", "look", "number", "check", "create", "done"}, seq : Nat, sawDeleted : BOOLEAN]

ASSUME LogAssumption == None \notin Handler

VARIABLES
    permits,        \* of the lock of each socket: 1 when nobody holds it
    waiting,        \* handlers that wait for the lock of each socket
    send,           \* the handler of each message that arrived
    log,            \* the stored messages
    nextSeq,        \* the counter of messages of the session
    session,        \* the session's row: active, deleted
    revived,        \* history: a sign of life came after the deletion
    heard           \* history: the messages each connection was sent

logVars == <<permits, waiting, send, log, nextSeq, session, revived, heard>>

\* Variant: the handlers of a socket do not wait for each other.
TakesNoLock(c) == TRUE

TakesLock(c) == permits[c] > 0

\* A message arrives, the nth of its socket: its handler runs or waits.
Arrive(d, c, l) ==
    /\ send[d] = None /\ \A e \in Sends : e < d => send[e] # None
    /\ send' = [send EXCEPT ![d] =
          [conn |-> c, localId |-> l, nth |-> Cardinality({e \in Sends : send[e] # None /\ send[e].conn = c}),
           at |-> IF TakesLock(c) THEN "look" ELSE "wait", seq |-> 0, sawDeleted |-> FALSE]]
    /\ IF TakesLock(c)
       THEN permits' = [permits EXCEPT ![c] = 0] /\ UNCHANGED waiting
       ELSE waiting' = [waiting EXCEPT ![c] = Append(@, d)] /\ UNCHANGED permits
    /\ UNCHANGED <<log, nextSeq, session, revived, heard>>

\* The handler ends: the first that waits gets the lock.
Done(d) ==
    LET c == send[d].conn
    IN  IF waiting[c] = <<>>
        THEN /\ send' = [send EXCEPT ![d].at = "done"]
             /\ permits' = [permits EXCEPT ![c] = 1] /\ UNCHANGED waiting
        ELSE /\ send' = [send EXCEPT ![d].at = "done", ![Head(waiting[c])].at = "look"]
             /\ waiting' = [waiting EXCEPT ![c] = Tail(@)] /\ UNCHANGED permits

Step(d, from, to) == send[d] # None /\ send[d].at = from /\ send' = [send EXCEPT ![d].at = to]

TakesMessages == session.active

\* The session is looked up; a message for an inactive one is dropped.
ResolveSession(d) ==
    /\ send[d] # None /\ send[d].at = "look"
    /\ IF TakesMessages
       THEN /\ send' = [send EXCEPT ![d].at = "number", ![d].sawDeleted = session.deleted]
            /\ UNCHANGED <<permits, waiting>>
       ELSE Done(d)
    /\ UNCHANGED <<log, nextSeq, session, revived, heard>>

\* A number is taken whether or not the message is stored in the end.
TakeSeq(d) ==
    /\ send[d] # None /\ send[d].at = "number"
    /\ send' = [send EXCEPT ![d].at = "check", ![d].seq = nextSeq + 1]
    /\ nextSeq' = nextSeq + 1
    /\ UNCHANGED <<permits, waiting, log, session, revived, heard>>

Stored(l) == l # None /\ \E m \in log : m.localId = l

CheckLocalId(d) ==
    /\ send[d] # None /\ send[d].at = "check"
    /\ IF Stored(send[d].localId)
       THEN Done(d)
       ELSE Step(d, "check", "create") /\ UNCHANGED <<permits, waiting>>
    /\ UNCHANGED <<log, nextSeq, session, revived, heard>>

\* The unique constraint on (session, local id).
Inserts(l) == ~Stored(l)

\* The message is stored and sent to whom it concerns.  The handler whose
\* insertion fails logs the error and tells nobody.
CreateMessage(d) ==
    /\ send[d] # None /\ send[d].at = "create"
    /\ IF Inserts(send[d].localId)
       THEN /\ log' = log \cup {[send |-> d, localId |-> send[d].localId, seq |-> send[d].seq]}
            /\ heard' = [c \in Conns |->
                 heard[c] \o IF c \in Recipients(Conns, ScopeOf,
                                    [type |-> "all-interested-in-session", subjects |-> {Session}], send[d].conn)
                             THEN <<send[d].localId>> ELSE <<>>]
       ELSE UNCHANGED <<log, heard>>
    /\ Done(d)
    /\ UNCHANGED <<nextSeq, session, revived>>

\* sessionDelete keeps the messages; an ended session is only inactive.
DeleteSession ==
    /\ ~session.deleted /\ session' = [active |-> FALSE, deleted |-> TRUE]
    /\ UNCHANGED <<permits, waiting, send, log, nextSeq, revived, heard>>

EndSession ==
    /\ session.active /\ session' = [session EXCEPT !.active = FALSE]
    /\ UNCHANGED <<permits, waiting, send, log, nextSeq, revived, heard>>

\* A sign of life makes any session of the account active, a deleted one too.
SignOfLife ==
    /\ ~session.active /\ session' = [session EXCEPT !.active = TRUE]
    /\ revived' = session.deleted
    /\ UNCHANGED <<permits, waiting, send, log, nextSeq, heard>>

LogInit ==
    /\ permits = [c \in Senders |-> 1] /\ waiting = [c \in Senders |-> <<>>]
    /\ send = [d \in Sends |-> None]
    /\ log = {} /\ nextSeq = 0
    /\ session = [active |-> TRUE, deleted |-> FALSE] /\ revived = FALSE
    /\ heard = [c \in Conns |-> <<>>]

LogNext ==
    \/ \E d \in Sends :
        \/ \E c \in Senders, l \in LocalIds \cup {None} : Arrive(d, c, l)
        \/ ResolveSession(d) \/ TakeSeq(d) \/ CheckLocalId(d) \/ CreateMessage(d)
    \/ DeleteSession \/ EndSession \/ SignOfLife

LogSpec == LogInit /\ [][LogNext]_logVars

-----------------------------------------------------------------------------
(* Properties.                                                              *)

\* A message that is sent again is stored once, on whatever sockets and
\* however their handlers interleave, and no connection is told of it twice.
StoredOnce ==
    /\ \A m, n \in log : m.localId = n.localId /\ m.localId # None => m = n
    /\ \A c \in Conns : \A i, j \in DOMAIN heard[c] :
           i # j /\ heard[c][i] # None => heard[c][i] # heard[c][j]

\* The messages of one socket are numbered in the order they were sent.
SentOrderIsKept ==
    \A m, n \in log :
        /\ m.seq = n.seq => m = n
        /\ send[m.send].conn = send[n.send].conn /\ send[m.send].nth < send[n.send].nth => m.seq < n.seq

\* A deleted session takes no message, but for the handlers that looked before
\* the deletion, until a sign of life makes it active again.
DeletedTakesNoMessage ==
    \A d \in Sends : send[d] # None /\ send[d].sawDeleted => revived

\* A connection of one session hears nothing of another one, and a machine
\* hears of no messages.
OnlyTheConcernedHear ==
    \A c \in Conns : heard[c] # <<>> => ScopeOf[c].scope = "user" \/ ScopeOf[c].subject = Session

\* The log of a session and what its connections hear: each message once, in
\* order, of a living session, to those concerned.
LogIsFaithful == StoredOnce /\ SentOrderIsKept /\ DeletedTakesNoMessage /\ OnlyTheConcernedHear

=============================================================================
