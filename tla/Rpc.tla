-------------------------------- MODULE Rpc --------------------------------
(***************************************************************************)
(* Remote calls between the sockets of one user.  The server keeps one     *)
(* table of methods per user; every socket takes the table that is there   *)
(* when it connects and keeps it (socket.ts), and the table is dropped     *)
(* once it is empty after a disconnection (rpcHandler).  A call waits for  *)
(* the target's answer, its timeout or the target's disconnection.         *)
(***************************************************************************)
EXTENDS Absent, Naturals, FiniteSets

CONSTANTS
    Sockets,        \* connections of the user; each connects once
    Methods,        \* names of methods
    Tables,         \* identities of the tables the server creates
    Calls           \* calls that are ever made

ASSUME RpcAssumption == None \notin Sockets \cup Tables

VARIABLES
    connected,      \* the sockets that are connected
    userTable,      \* the user's table for new sockets; None: no table
    tableOf,        \* the table each socket took when it connected
    listener,       \* the socket behind each method of each table
    call,           \* each call: its state, caller, method and target
    pruned          \* history: sockets that were connected when their table was dropped

rpcVars == <<connected, userTable, tableOf, listener, call, pruned>>

\* A table is used again only when the server creates it.
Unused == {t \in Tables : t # userTable /\ \A s \in Sockets : tableOf[s] # t}

TakesTable == IF userTable # None THEN UNCHANGED userTable ELSE userTable' \in Unused

ConnectSocket(s) ==
    /\ tableOf[s] = None /\ TakesTable
    /\ tableOf' = [tableOf EXCEPT ![s] = userTable']
    /\ connected' = connected \cup {s}
    /\ UNCHANGED <<listener, call, pruned>>

\* The last socket to register a method serves it.
Register(s, m) ==
    /\ s \in connected
    /\ listener' = [listener EXCEPT ![tableOf[s]][m] = s]
    /\ UNCHANGED <<connected, userTable, tableOf, call, pruned>>

\* A socket unregisters only what it serves itself; the table stays.
Unregister(s, m) ==
    /\ s \in connected /\ listener[tableOf[s]][m] = s
    /\ listener' = [listener EXCEPT ![tableOf[s]][m] = None]
    /\ UNCHANGED <<connected, userTable, tableOf, call, pruned>>

\* Variant: the methods stay until another socket registers them.
WithoutNothing(s, table) == table

Without(s, table) == [m \in Methods |-> IF table[m] = s THEN None ELSE table[m]]

\* An answer, an error or the timeout ends the wait; the caller that is gone
\* hears nothing of it.
Ends(c) == call[c].state = "waiting"

\* The methods of the socket go, then the user's table if nothing is left in it.
DisconnectSocket(s) ==
    /\ s \in connected
    /\ connected' = connected \ {s}
    /\ listener' = [listener EXCEPT ![tableOf[s]] = Without(s, @)]
    /\ IF userTable # None /\ \A m \in Methods : listener'[userTable][m] = None
       THEN /\ userTable' = None
            /\ pruned' = pruned \cup {x \in connected' : tableOf[x] = userTable}
       ELSE UNCHANGED <<userTable, pruned>>
    /\ UNCHANGED <<tableOf, call>>

Available(s, m) ==
    LET target == listener[tableOf[s]][m] IN target # None /\ target \in connected

\* rpc-call: refused at once, or sent to the socket behind the method.
CallMethod(c, s, m) ==
    /\ call[c] = None /\ s \in connected
    /\ LET target == listener[tableOf[s]][m]
           state == IF ~Available(s, m) THEN "unavailable"
                    ELSE IF target = s THEN "refused" ELSE "waiting"
       IN  call' = [call EXCEPT ![c] = [state |-> state, caller |-> s, method |-> m, target |-> target]]
    /\ UNCHANGED <<connected, userTable, tableOf, listener, pruned>>

\* The target answers; an answer after the timeout is dropped.
AnswerCall(c) ==
    /\ call[c] # None /\ Ends(c) /\ call[c].target \in connected
    /\ call' = [call EXCEPT ![c].state = "answered"]
    /\ UNCHANGED <<connected, userTable, tableOf, listener, pruned>>

\* The timeout of 30 seconds, or the target's disconnection.
FailCall(c) ==
    /\ call[c] # None /\ Ends(c)
    /\ call' = [call EXCEPT ![c].state = "failed"]
    /\ UNCHANGED <<connected, userTable, tableOf, listener, pruned>>

RpcInit ==
    /\ connected = {} /\ userTable = None /\ pruned = {}
    /\ tableOf = [s \in Sockets |-> None]
    /\ listener = [t \in Tables |-> [m \in Methods |-> None]]
    /\ call = [c \in Calls |-> None]

RpcNext ==
    \/ \E s \in Sockets : \/ ConnectSocket(s) \/ DisconnectSocket(s)
                          \/ \E m \in Methods : Register(s, m) \/ Unregister(s, m)
                          \/ \E m \in Methods, c \in Calls : CallMethod(c, s, m)
    \/ \E c \in Calls : AnswerCall(c) \/ FailCall(c)

RpcSpec == RpcInit /\ [][RpcNext]_rpcVars

-----------------------------------------------------------------------------
(* Properties.                                                              *)

\* No table offers a method of a socket that is gone, and none a method of a
\* socket that uses another table.
NothingIsOfferedInVain ==
    \A t \in Tables, m \in Methods :
        listener[t][m] # None => listener[t][m] \in connected /\ tableOf[listener[t][m]] = t

\* The socket that serves a method for one connected socket serves it for
\* every other, except for the sockets that were connected when the table
\* was dropped.
OneServerForAll ==
    \A s \in connected \ pruned, r \in connected \ pruned : listener[tableOf[s]] = listener[tableOf[r]]

\* A call reaches the one socket that serves the method, or fails at once.
CallsFindTheServer == NothingIsOfferedInVain /\ OneServerForAll

=============================================================================
