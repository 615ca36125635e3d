--------------------------- MODULE SessionProofs ----------------------------
(***************************************************************************)
(* Sessions and machines: calls between sockets, the messages of a         *)
(* session, the opening of sessions and the register of machines are       *)
(* sound for any number of sockets, messages, sessions and requests.       *)
(* Each section proves an inductive invariant of one component and what    *)
(* it implies.                                                             *)
(***************************************************************************)
EXTENDS Rpc, SessionLog, SessionEntry, MachineRegistry, FiniteSetTheorems, TLAPS

-----------------------------------------------------------------------------
(* Calls between the sockets of a user.                                     *)

RpcTypeOK ==
    /\ connected \subseteq Sockets
    /\ userTable \in Tables \cup {None}
    /\ tableOf \in [Sockets -> Tables \cup {None}]
    /\ listener \in [Tables -> [Methods -> Sockets \cup {None}]]

\* A connected socket has a table, and it is the user's unless the user's was
\* dropped while the socket was connected.
SharedTable ==
    \A s \in connected : tableOf[s] # None /\ (s \notin pruned => tableOf[s] = userTable)

RpcInv == RpcTypeOK /\ SharedTable /\ NothingIsOfferedInVain

-----------------------------------------------------------------------------
(* Nothing but the three steps of sockets below touches more than calls.    *)

LEMMA RpcInitInv == RpcInit => RpcInv
  BY DEF RpcInit, RpcInv, RpcTypeOK, SharedTable, NothingIsOfferedInVain

\* A connection takes the table that is there, or a new one if there is none.
LEMMA ConnectKeeps ==
    ASSUME RpcInv, NEW s \in Sockets, ConnectSocket(s)
    PROVE  RpcInv'
  <1>1. /\ tableOf[s] = None /\ tableOf' = [tableOf EXCEPT ![s] = userTable']
        /\ connected' = connected \cup {s} /\ UNCHANGED <<listener, pruned>>
    BY DEF ConnectSocket
  <1>2. userTable' \in Tables /\ (userTable # None => userTable' = userTable)
    BY DEF ConnectSocket, TakesTable, Unused, RpcInv, RpcTypeOK
  <1>3. s \notin connected
    BY <1>1 DEF RpcInv, SharedTable
  <1>4. userTable' # None
    BY <1>2, RpcAssumption
  <1>5. RpcTypeOK'
    BY <1>1, <1>2 DEF RpcInv, RpcTypeOK
  <1>6. tableOf'[s] = userTable' /\ \A x \in Sockets \ {s} : tableOf'[x] = tableOf[x]
    BY <1>1 DEF RpcInv, RpcTypeOK
  <1>7. SharedTable'
    <2>1. ASSUME NEW x \in connected, x \notin pruned PROVE tableOf[x] = userTable /\ userTable # None
      BY <2>1 DEF RpcInv, SharedTable
    <2> QED BY <1>1, <1>2, <1>3, <1>4, <1>6, <2>1 DEF RpcInv, RpcTypeOK, SharedTable
  <1>8. NothingIsOfferedInVain'
    BY <1>1, <1>3, <1>6 DEF RpcInv, RpcTypeOK, NothingIsOfferedInVain
  <1> QED BY <1>5, <1>7, <1>8 DEF RpcInv

\* A registration puts the socket in its own table.
LEMMA RegisterKeeps ==
    ASSUME RpcInv, NEW s \in connected, NEW m \in Methods, NEW x \in {s, None},
           listener' = [listener EXCEPT ![tableOf[s]][m] = x],
           UNCHANGED <<connected, userTable, tableOf, pruned>>
    PROVE  RpcInv'
  <1>1. s \in Sockets /\ tableOf[s] \in Tables
    BY DEF RpcInv, RpcTypeOK, SharedTable
  <1>2. RpcTypeOK'
    BY <1>1 DEF RpcInv, RpcTypeOK
  <1>3. SharedTable'
    BY DEF RpcInv, SharedTable
  <1>4. ASSUME NEW t \in Tables, NEW n \in Methods
        PROVE  listener'[t][n] = listener[t][n] \/ (t = tableOf[s] /\ listener'[t][n] = x)
    BY <1>1 DEF RpcInv, RpcTypeOK
  <1>5. NothingIsOfferedInVain'
    BY <1>1, <1>4, RpcAssumption DEF RpcInv, NothingIsOfferedInVain
  <1> QED BY <1>2, <1>3, <1>5 DEF RpcInv

\* A socket that leaves takes what it offers out of the one table that offers it.
LEMMA DisconnectKeeps ==
    ASSUME RpcInv, NEW s \in Sockets, DisconnectSocket(s)
    PROVE  RpcInv'
  <1>1. /\ s \in connected /\ connected' = connected \ {s} /\ UNCHANGED tableOf
        /\ listener' = [listener EXCEPT ![tableOf[s]] = Without(s, @)]
    BY DEF DisconnectSocket
  <1>2. tableOf[s] \in Tables
    BY <1>1 DEF RpcInv, RpcTypeOK, SharedTable
  <1>3. \/ UNCHANGED <<userTable, pruned>>
        \/ /\ userTable' = None
           /\ pruned' = pruned \cup {x \in connected' : tableOf[x] = userTable}
    BY DEF DisconnectSocket
  <1>4. Without(s, listener[tableOf[s]]) \in [Methods -> Sockets \cup {None}]
    BY <1>2 DEF RpcInv, RpcTypeOK, Without
  <1>5. RpcTypeOK'
    BY <1>1, <1>2, <1>3, <1>4 DEF RpcInv, RpcTypeOK
  <1>6. SharedTable'
    BY <1>1, <1>3 DEF RpcInv, SharedTable
  <1>7. ASSUME NEW t \in Tables, NEW m \in Methods
        PROVE  \/ listener'[t][m] = None
               \/ listener'[t][m] = listener[t][m] /\ (t = tableOf[s] => listener[t][m] # s)
    BY <1>1, <1>2 DEF RpcInv, RpcTypeOK, Without
  <1>8. NothingIsOfferedInVain'
    BY <1>1, <1>7 DEF RpcInv, NothingIsOfferedInVain
  <1> QED BY <1>5, <1>6, <1>8 DEF RpcInv

LEMMA RpcNextInv == RpcInv /\ [RpcNext]_rpcVars => RpcInv'
  <1> SUFFICES ASSUME RpcInv, [RpcNext]_rpcVars PROVE RpcInv'
    OBVIOUS
  <1>1. ASSUME NEW s \in Sockets, ConnectSocket(s) PROVE RpcInv'
    BY <1>1, ConnectKeeps
  <1>2. ASSUME NEW s \in Sockets, DisconnectSocket(s) PROVE RpcInv'
    BY <1>2, DisconnectKeeps
  <1>3. ASSUME NEW s \in Sockets, NEW m \in Methods, Register(s, m) PROVE RpcInv'
    BY <1>3, RegisterKeeps DEF Register
  <1>4. ASSUME NEW s \in Sockets, NEW m \in Methods, Unregister(s, m) PROVE RpcInv'
    BY <1>4, RegisterKeeps DEF Unregister
  <1>5. ASSUME UNCHANGED <<connected, userTable, tableOf, listener, pruned>> PROVE RpcInv'
    BY <1>5 DEF RpcInv, RpcTypeOK, SharedTable, NothingIsOfferedInVain
  <1>6. ASSUME NEW s \in Sockets, NEW m \in Methods, NEW c \in Calls, CallMethod(c, s, m) PROVE RpcInv'
    BY <1>5, <1>6 DEF CallMethod
  <1>7. ASSUME NEW c \in Calls, AnswerCall(c) \/ FailCall(c) PROVE RpcInv'
    BY <1>5, <1>7 DEF AnswerCall, FailCall
  <1>8. CASE UNCHANGED rpcVars
    BY <1>5, <1>8 DEF rpcVars
  <1> QED BY <1>1, <1>2, <1>3, <1>4, <1>6, <1>7, <1>8 DEF RpcNext

-----------------------------------------------------------------------------

\* No table offers a method of a socket that is gone, and every socket that was
\* not connected when a table was dropped sees the same methods (rpcHandler and the
\* table of socket.ts), for any number of sockets, methods, tables and calls.
THEOREM CallsAlwaysFindTheServer == RpcSpec => []CallsFindTheServer
  <1>1. RpcInv => CallsFindTheServer
    BY DEF RpcInv, SharedTable, CallsFindTheServer, OneServerForAll
  <1> QED BY <1>1, RpcInitInv, RpcNextInv, PTL DEF RpcSpec

-----------------------------------------------------------------------------
(* The messages of a session.                                               *)

LogStages == {"wait", "look", "number", "check", "create", "done"}
Runs(d) == send[d].at \in {"look", "number", "check", "create"}
Arrived == {d \in Sends : send[d] # None}
Of(c) == {d \in Sends : send[d] # None /\ send[d].conn = c}

LogTypeOK ==
    /\ permits \in [Senders -> {0, 1}] /\ waiting \in [Senders -> Seq(Sends)]
    /\ send \in [Sends -> Handler \cup {None}]
    /\ nextSeq \in Nat

\* The handlers that wait for the lock of a socket are in its queue in the order
\* of their messages, one handler of the socket runs, and none when the lock is free.
LockOK(c) ==
    /\ \A i \in 1 .. Len(waiting[c]) : waiting[c][i] \in Of(c) /\ send[waiting[c][i]].at = "wait"
    /\ \A d \in Of(c) : send[d].at = "wait" => \E i \in 1 .. Len(waiting[c]) : waiting[c][i] = d
    /\ \A i, j \in 1 .. Len(waiting[c]) : i < j => send[waiting[c][i]].nth < send[waiting[c][j]].nth
    /\ permits[c] = 1 => waiting[c] = <<>> /\ \A d \in Of(c) : ~Runs(d)
    /\ \A d, e \in Of(c) : Runs(d) /\ Runs(e) => d = e

\* The messages of a socket are told apart by their place, and handled in order.
TurnsOK(c) ==
    /\ IsFiniteSet(Of(c)) /\ \A d \in Of(c) : send[d].nth < Cardinality(Of(c))
    /\ \A d, e \in Of(c) :
          /\ d # e => send[d].nth # send[e].nth
          /\ send[d].at = "wait" /\ send[e].at # "wait" => send[e].nth < send[d].nth
          /\ send[d].at = "done" /\ Runs(e) => send[d].nth < send[e].nth

\* Numbers are taken once, and in the order of the socket.
NumbersOK ==
    /\ \A d \in Arrived : /\ send[d].seq <= nextSeq
                          /\ send[d].at \in {"wait", "look", "number"} => send[d].seq = 0
                          /\ send[d].at \in {"check", "create"} => send[d].seq > 0
    /\ \A d, e \in Arrived : send[d].seq > 0 /\ send[d].seq = send[e].seq => d = e
    /\ \A c \in Senders : \A d, e \in Of(c) :
          send[d].seq > 0 /\ send[e].seq > 0 /\ send[d].nth < send[e].nth => send[d].seq < send[e].seq

\* What is stored was sent by a handler that is over, and each local id once.
StoreOK ==
    /\ \A m \in log : /\ m.send \in Arrived /\ send[m.send].at = "done" /\ send[m.send].seq > 0
                      /\ m = [send |-> m.send, localId |-> send[m.send].localId, seq |-> send[m.send].seq]
    /\ \A m, n \in log : m.localId = n.localId /\ m.localId # None => m = n

\* What is heard is stored, and heard by those concerned.
HeardOK(c) ==
    /\ heard[c] \in Seq(LocalIds \cup {None})
    /\ \A i \in 1 .. Len(heard[c]) : heard[c][i] # None => \E m \in log : m.localId = heard[c][i]
    /\ \A i, j \in 1 .. Len(heard[c]) : i # j /\ heard[c][i] # None => heard[c][i] # heard[c][j]
    /\ heard[c] # <<>> => ScopeOf[c].scope = "user" \/ ScopeOf[c].subject = Session

SessionOK ==
    /\ session \in [active : BOOLEAN, deleted : BOOLEAN]
    /\ session.active /\ session.deleted => revived
    /\ revived => session.deleted
    /\ \A d \in Arrived : send[d].sawDeleted => revived

LogInv ==
    /\ LogTypeOK /\ \A c \in Senders : LockOK(c) /\ TurnsOK(c)
    /\ NumbersOK /\ StoreOK /\ heard = [c \in Conns |-> heard[c]] /\ (\A c \in Conns : HeardOK(c)) /\ SessionOK

LEMMA LogInitInv == LogInit => LogInv
  <1> SUFFICES ASSUME LogInit PROVE LogInv
    OBVIOUS
  <1>1. Arrived = {} /\ \A c \in Senders : Of(c) = {}
    BY DEF LogInit, Arrived, Of
  <1>2. LogTypeOK
    BY DEF LogInit, LogTypeOK
  <1>3. ASSUME NEW c \in Senders PROVE LockOK(c) /\ TurnsOK(c)
    <2>1. waiting[c] = <<>> /\ Len(waiting[c]) = 0 /\ Of(c) = {}
      BY <1>1 DEF LogInit
    <2> QED BY <2>1, FS_EmptySet DEF LockOK, TurnsOK
  <1>4. NumbersOK /\ StoreOK
    BY <1>1 DEF LogInit, NumbersOK, StoreOK
  <1>5. SessionOK
    BY <1>1 DEF LogInit, SessionOK
  <1>6. ASSUME NEW c \in Conns PROVE HeardOK(c)
    BY DEF LogInit, HeardOK
  <1> QED BY <1>2, <1>3, <1>4, <1>5, <1>6 DEF LogInit, LogInv

-----------------------------------------------------------------------------
(* Only a few things about a handler ever change.                           *)

SameMessage(d) ==
    /\ send'[d] # None <=> send[d] # None
    /\ send[d] # None => /\ send'[d].conn = send[d].conn /\ send'[d].localId = send[d].localId
                         /\ send'[d].nth = send[d].nth

\* The handler of d ends; the first that waits for the lock goes on.
LEMMA DoneEffect ==
  ASSUME LogInv, NEW d \in Arrived, Runs(d), Done(d)
  PROVE  /\ LogTypeOK' \/ nextSeq' # nextSeq
         /\ \A e \in Sends : SameMessage(e)
         /\ \A e \in Arrived : send'[e].seq = send[e].seq /\ send'[e].sawDeleted = send[e].sawDeleted
         /\ send'[d].at = "done"
         /\ \A e \in Arrived : send'[e].at = send[e].at \/ send'[e].at = "done"
                                \/ (send[e].at = "wait" /\ send'[e].at = "look")
         /\ \A c \in Senders : LockOK(c)' /\ TurnsOK(c)'
  <1> USE LogAssumption
  <1>0. PICK c \in Senders : c = send[d].conn
    BY DEF LogInv, LogTypeOK, Arrived, Handler
  <1>1. /\ d \in Of(c) /\ c \in Senders /\ LockOK(c) /\ TurnsOK(c) /\ send[d] \in Handler
        /\ \A e \in Arrived : send[e] \in Handler /\ send[e].conn \in Senders
    BY <1>0 DEF LogInv, LogTypeOK, Arrived, Of, Handler
  <1>2. permits[c] = 0
    BY <1>1 DEF LockOK, LogInv, LogTypeOK
  <1> DEFINE over == [send[d] EXCEPT !.at = "done"]
  <1>3. over \in Handler /\ over # None /\ over.at = "done" /\ over.conn = c /\ over.localId = send[d].localId
        /\ over.nth = send[d].nth /\ over.seq = send[d].seq /\ over.sawDeleted = send[d].sawDeleted
    BY <1>0, <1>1 DEF Handler
  <1>4. CASE waiting[c] = <<>>
    <2>1. send' = [send EXCEPT ![d] = over] /\ permits' = [permits EXCEPT ![c] = 1] /\ UNCHANGED waiting
      BY <1>0, <1>4 DEF Done
    <2> HIDE DEF over
    <2>2. \A e \in Sends : SameMessage(e) /\ (e # d => send'[e] = send[e]) /\ send'[d] = over
      BY <1>0, <1>3, <2>1 DEF SameMessage, LogInv, LogTypeOK, Arrived
    <2>3. \A b \in Senders : Of(b)' = Of(b)
      BY <2>2 DEF Of, SameMessage
    <2>4. send' \in [Sends -> Handler \cup {None}] /\ permits' \in [Senders -> {0, 1}]
      BY <1>3, <2>1 DEF LogInv, LogTypeOK
    <2>5. ASSUME NEW b \in Senders PROVE LockOK(b)' /\ TurnsOK(b)'
      <3>1. LockOK(b) /\ TurnsOK(b) /\ \A e \in Of(b) : e \in Sends
        BY DEF LogInv, Of
      <3>2. b # c => permits'[b] = permits[b]
        BY <2>1 DEF LogInv, LogTypeOK
      <3>3. TurnsOK(b)'
        <4>1. \A e \in Of(b) : send'[e].nth = send[e].nth /\ (send'[e].at = "wait" <=> send[e].at = "wait")
                               /\ (e # d => send'[e] = send[e]) /\ (e = d => ~Runs(e)')
          BY <1>3, <2>2, <3>1 DEF Runs
        <4>2. ASSUME NEW e \in Of(b), NEW f \in Of(b), send'[e].at = "done", Runs(f)' PROVE send'[e].nth < send'[f].nth
          <5>1. f # d /\ Runs(f)
            BY <4>1, <4>2 DEF Runs
          <5>2. b # c
            BY <1>1, <5>1 DEF LockOK
          <5>3. e # d
            BY <1>0, <5>2 DEF Of
          <5> QED BY <3>1, <4>1, <4>2, <5>1, <5>3 DEF TurnsOK
        <4>3. ASSUME NEW e \in Of(b), NEW f \in Of(b)
              PROVE  /\ e # f => send'[e].nth # send'[f].nth
                     /\ send'[e].at = "wait" /\ send'[f].at # "wait" => send'[f].nth < send'[e].nth
          BY <3>1, <4>1 DEF TurnsOK
        <4> QED BY <2>3, <3>1, <4>1, <4>2, <4>3 DEF TurnsOK
      <3>4. LockOK(b)'
        <4>1. /\ \A i \in 1 .. Len(waiting[b]) : waiting[b][i] \in Of(b) /\ send'[waiting[b][i]].at = "wait"
              /\ \A e \in Of(b) : send'[e].at = "wait" => \E i \in 1 .. Len(waiting[b]) : waiting[b][i] = e
              /\ \A i, j \in 1 .. Len(waiting[b]) : i < j => send'[waiting[b][i]].nth < send'[waiting[b][j]].nth
          <5>1. \A e \in Of(b) : send'[e].nth = send[e].nth /\ (send'[e].at = "wait" <=> send[e].at = "wait")
            BY <1>3, <2>2, <3>1 DEF Runs
          <5>2. /\ \A i \in 1 .. Len(waiting[b]) : waiting[b][i] \in Of(b) /\ send[waiting[b][i]].at = "wait"
                /\ \A e \in Of(b) : send[e].at = "wait" => \E i \in 1 .. Len(waiting[b]) : waiting[b][i] = e
                /\ \A i, j \in 1 .. Len(waiting[b]) : i < j => send[waiting[b][i]].nth < send[waiting[b][j]].nth
            BY <3>1 DEF LockOK
          <5> QED BY <5>1, <5>2
        <4>2. \A e, f \in Of(b) : Runs(e)' /\ Runs(f)' => e = f
          BY <1>3, <2>2, <3>1 DEF LockOK, Runs
        <4>3. permits'[b] = 1 => waiting[b] = <<>> /\ \A e \in Of(b) : ~Runs(e)'
          BY <1>1, <1>3, <1>4, <2>2, <3>1, <3>2 DEF LockOK, Runs
        <4> QED BY <2>1, <2>3, <4>1, <4>2, <4>3 DEF LockOK
      <3> QED BY <3>3, <3>4
    <2>6. \A e \in Arrived : send'[e].seq = send[e].seq /\ send'[e].sawDeleted = send[e].sawDeleted
                             /\ (\/ send'[e].at = send[e].at \/ send'[e].at = "done"
                                 \/ (send[e].at = "wait" /\ send'[e].at = "look"))
      BY <1>3, <2>2 DEF Arrived
    <2>7. LogTypeOK' \/ nextSeq' # nextSeq
      BY <2>1, <2>4 DEF LogTypeOK, LogInv
    <2>8. send'[d].at = "done"
      BY <1>3, <2>2 DEF Arrived
    <2> QED BY <2>2, <2>5, <2>6, <2>7, <2>8
  <1>5. CASE waiting[c] # <<>>
    <2> DEFINE h == Head(waiting[c])
               next == [send[h] EXCEPT !.at = "look"]
    <2>1. waiting[c] \in Seq(Sends) /\ Len(waiting[c]) >= 1 /\ h = waiting[c][1]
      BY <1>1, <1>5 DEF LogInv, LogTypeOK
    <2>2. h \in Of(c) /\ send[h].at = "wait" /\ h # d /\ h \in Sends /\ send[h] \in Handler
      BY <1>1, <2>1 DEF LockOK, Runs, Of, Arrived
    <2>3. next \in Handler /\ next # None /\ next.at = "look" /\ next.conn = send[h].conn /\ next.localId = send[h].localId
          /\ next.nth = send[h].nth /\ next.seq = send[h].seq /\ next.sawDeleted = send[h].sawDeleted
      BY <2>2 DEF Handler
    <2>4. /\ send' = [send EXCEPT ![d].at = "done", ![h].at = "look"]
          /\ waiting' = [waiting EXCEPT ![c] = Tail(@)] /\ UNCHANGED permits
      BY <1>0, <1>5 DEF Done
    <2>5. send' = [send EXCEPT ![d] = over, ![h] = next]
      BY <2>2, <2>4
    <2> HIDE DEF over, next, h
    <2>6. /\ \A e \in Sends : SameMessage(e) /\ (e # d /\ e # h => send'[e] = send[e])
          /\ send'[d] = over /\ send'[h] = next
      BY <1>0, <1>3, <2>2, <2>3, <2>5 DEF SameMessage, LogInv, LogTypeOK, Arrived, Of
    <2>7. \A b \in Senders : Of(b)' = Of(b)
      BY <2>6 DEF Of, SameMessage
    <2>8. send' \in [Sends -> Handler \cup {None}] /\ waiting' \in [Senders -> Seq(Sends)]
      <3>1. Tail(waiting[c]) \in Seq(Sends)
        BY <2>1, <1>5
      <3> QED BY <1>3, <2>3, <2>4, <2>5, <3>1 DEF LogInv, LogTypeOK
    <2>9. ASSUME NEW b \in Senders PROVE LockOK(b)' /\ TurnsOK(b)'
      <3>1. LockOK(b) /\ TurnsOK(b) /\ \A e \in Of(b) : e \in Sends
        BY DEF LogInv, Of
      <3>2. CASE b # c
        <4>1. waiting'[b] = waiting[b]
          BY <2>4, <3>2 DEF LogInv, LogTypeOK
        <4>2. \A e \in Of(b) : e # d /\ e # h
          BY <1>1, <2>2, <3>2 DEF Of
        <4>3. \A e \in Of(b) : send'[e] = send[e]
          BY <2>6, <3>1, <4>2
        <4>4. Of(b)' = Of(b) /\ permits' = permits
          BY <2>4, <2>7
        <4>5. LockOK(b)'
          <5>1. /\ \A i \in 1 .. Len(waiting'[b]) : waiting'[b][i] \in Of(b) /\ send'[waiting'[b][i]].at = "wait"
                /\ \A e \in Of(b) : send'[e].at = "wait" => \E i \in 1 .. Len(waiting'[b]) : waiting'[b][i] = e
                /\ \A i, j \in 1 .. Len(waiting'[b]) : i < j => send'[waiting'[b][i]].nth < send'[waiting'[b][j]].nth
            <6>1. /\ \A i \in 1 .. Len(waiting[b]) : waiting[b][i] \in Of(b) /\ send[waiting[b][i]].at = "wait"
                  /\ \A e \in Of(b) : send[e].at = "wait" => \E i \in 1 .. Len(waiting[b]) : waiting[b][i] = e
                  /\ \A i, j \in 1 .. Len(waiting[b]) : i < j => send[waiting[b][i]].nth < send[waiting[b][j]].nth
              BY <3>1 DEF LockOK
            <6> QED BY <4>1, <4>3, <6>1
          <5>2. /\ permits'[b] = 1 => waiting'[b] = <<>> /\ \A e \in Of(b) : ~Runs(e)'
                /\ \A e, f \in Of(b) : Runs(e)' /\ Runs(f)' => e = f
            BY <3>1, <4>1, <4>3, <4>4 DEF LockOK, Runs
          <5> QED BY <4>4, <5>1, <5>2 DEF LockOK
        <4>6. TurnsOK(b)'
          BY <3>1, <4>3, <4>4 DEF TurnsOK, Runs
        <4> QED BY <4>5, <4>6
      <3>3. CASE b = c
        <4>1. /\ waiting'[c] = Tail(waiting[c]) /\ Len(waiting'[c]) = Len(waiting[c]) - 1
              /\ \A i \in 1 .. Len(waiting'[c]) : waiting'[c][i] = waiting[c][i + 1]
              /\ Len(waiting[c]) \in Nat
          BY <1>1, <2>1, <2>4 DEF LogInv, LogTypeOK
        <4>2. \A i \in 2 .. Len(waiting[c]) : waiting[c][i] \in Of(c) /\ waiting[c][i] # h /\ waiting[c][i] # d
                                               /\ send[h].nth < send[waiting[c][i]].nth /\ send[waiting[c][i]].at = "wait"
          <5> SUFFICES ASSUME NEW i \in 2 .. Len(waiting[c])
                       PROVE  waiting[c][i] \in Of(c) /\ waiting[c][i] # h /\ waiting[c][i] # d
                              /\ send[h].nth < send[waiting[c][i]].nth /\ send[waiting[c][i]].at = "wait"
            OBVIOUS
          <5>1. i \in 1 .. Len(waiting[c]) /\ 1 \in 1 .. Len(waiting[c]) /\ 1 < i
            BY <4>1
          <5>2. waiting[c][i] \in Of(c) /\ send[waiting[c][i]].at = "wait" /\ send[h].nth < send[waiting[c][i]].nth
            BY <1>1, <2>1, <5>1 DEF LockOK
          <5>3. send[h].nth \in Nat
            BY <2>2 DEF Handler
          <5> QED BY <5>2, <5>3 DEF Runs
        <4>3. \A i \in 1 .. Len(waiting'[c]) : waiting'[c][i] \in Of(c) /\ send'[waiting'[c][i]].at = "wait"
                                                /\ send'[waiting'[c][i]] = send[waiting'[c][i]]
          BY <2>6, <3>1, <3>3, <4>1, <4>2
        <4>4. \A e \in Of(c) : send'[e].at = "wait" => \E i \in 1 .. Len(waiting'[c]) : waiting'[c][i] = e
          <5> SUFFICES ASSUME NEW e \in Of(c), send'[e].at = "wait"
                       PROVE  \E i \in 1 .. Len(waiting'[c]) : waiting'[c][i] = e
            OBVIOUS
          <5>1. e # d /\ e # h /\ send[e].at = "wait"
            BY <1>3, <2>3, <2>6, <3>1, <3>3
          <5>2. PICK i \in 1 .. Len(waiting[c]) : waiting[c][i] = e
            BY <1>1, <5>1 DEF LockOK
          <5>3. i # 1
            BY <2>1, <5>1, <5>2
          <5>4. i - 1 \in 1 .. Len(waiting'[c]) /\ (i - 1) + 1 = i
            BY <4>1, <5>2, <5>3
          <5>5. waiting'[c][i - 1] = e
            BY <4>1, <5>2, <5>4
          <5> QED BY <5>4, <5>5
        <4>5. \A i, j \in 1 .. Len(waiting'[c]) : i < j => send'[waiting'[c][i]].nth < send'[waiting'[c][j]].nth
          <5> SUFFICES ASSUME NEW i \in 1 .. Len(waiting'[c]), NEW j \in 1 .. Len(waiting'[c]), i < j
                       PROVE  send[waiting[c][i + 1]].nth < send[waiting[c][j + 1]].nth
            BY <4>1, <4>3
          <5>1. i + 1 \in 1 .. Len(waiting[c]) /\ j + 1 \in 1 .. Len(waiting[c]) /\ i + 1 < j + 1
            BY <4>1
          <5> QED BY <1>1, <5>1 DEF LockOK
        <4>6. \A e, f \in Of(c) : Runs(e)' /\ Runs(f)' => e = f
          <5>1. \A e \in Of(c) : Runs(e)' => e = h
            BY <1>1, <1>3, <2>6, <3>1, <3>3 DEF LockOK, Runs
          <5> QED BY <5>1
        <4>7. LockOK(c)'
          <5>1. permits'[c] # 1 /\ Of(c)' = Of(c)
            BY <1>2, <2>4, <2>7
          <5>2. \A i \in 1 .. Len(waiting'[c]) : waiting'[c][i] \in Of(c)' /\ send'[waiting'[c][i]].at = "wait"
            BY <4>3, <5>1
          <5> QED BY <4>4, <4>5, <4>6, <5>1, <5>2 DEF LockOK
        <4>8. TurnsOK(c)'
          <5>1. /\ \A e \in Of(c) : e # h /\ send[e].at = "wait" => send[h].nth < send[e].nth
            <6> SUFFICES ASSUME NEW e \in Of(c), e # h, send[e].at = "wait" PROVE send[h].nth < send[e].nth
              OBVIOUS
            <6>1. PICK i \in 1 .. Len(waiting[c]) : waiting[c][i] = e
              BY <1>1 DEF LockOK
            <6>2. i \in 2 .. Len(waiting[c])
              BY <2>1, <4>1, <6>1
            <6> QED BY <4>2, <6>1, <6>2
          <5>2. \A e \in Of(c) : send'[e].nth = send[e].nth
            BY <2>6, <3>1, <3>3 DEF SameMessage, Of
          <5>3. ASSUME NEW e \in Of(c), NEW f \in Of(c)
                PROVE  /\ e # f => send'[e].nth # send'[f].nth
                       /\ send'[e].at = "wait" /\ send'[f].at # "wait" => send'[f].nth < send'[e].nth
                       /\ send'[e].at = "done" /\ Runs(f)' => send'[e].nth < send'[f].nth
            <6>1. Runs(f)' => f = h
              BY <1>1, <1>3, <2>6, <3>1, <3>3 DEF LockOK, Runs
            <6>2. e # f => send'[e].nth # send'[f].nth
              BY <1>1, <5>2 DEF TurnsOK
            <6>3. send'[e].at = "wait" => e # h /\ e # d /\ send[e].at = "wait"
              BY <1>3, <2>3, <2>6, <3>1, <3>3
            <6>4. send'[f].at # "wait" => f = h \/ send[f].at # "wait"
              BY <2>6, <3>1, <3>3, <1>1 DEF Runs
            <6>5. send'[e].at = "done" => send[e].at # "wait"
              BY <1>1, <2>2, <2>3, <2>6, <3>1, <3>3 DEF Runs
            <6>6. send'[e].at = "wait" /\ send'[f].at # "wait" => send'[f].nth < send'[e].nth
              BY <1>1, <5>1, <5>2, <6>3, <6>4 DEF TurnsOK
            <6>7. send'[e].at = "done" /\ Runs(f)' => send'[e].nth < send'[f].nth
              BY <1>1, <2>2, <5>2, <6>1, <6>5 DEF TurnsOK
            <6> QED BY <6>2, <6>6, <6>7
          <5> QED BY <1>1, <2>7, <5>2, <5>3 DEF TurnsOK
        <4> QED BY <3>3, <4>7, <4>8
      <3> QED BY <3>2, <3>3
    <2>10. \A e \in Arrived : send'[e].seq = send[e].seq /\ send'[e].sawDeleted = send[e].sawDeleted
                             /\ (\/ send'[e].at = send[e].at \/ send'[e].at = "done"
                                 \/ (send[e].at = "wait" /\ send'[e].at = "look"))
      BY <1>3, <2>2, <2>3, <2>6 DEF Arrived
    <2>11. LogTypeOK' \/ nextSeq' # nextSeq
      BY <2>4, <2>8 DEF LogTypeOK, LogInv
    <2>12. send'[d].at = "done"
      BY <1>3, <2>6
    <2> QED BY <2>6, <2>9, <2>10, <2>11, <2>12
  <1> QED BY <1>4, <1>5

\* The handler of d goes on under its lock.
LEMMA StageEffect ==
  ASSUME LogInv, NEW d \in Arrived, Runs(d), NEW rec \in Handler,
         rec.conn = send[d].conn, rec.localId = send[d].localId, rec.nth = send[d].nth,
         rec.at \in {"look", "number", "check", "create"},
         send' = [send EXCEPT ![d] = rec], UNCHANGED <<permits, waiting>>
  PROVE  /\ LogTypeOK' \/ nextSeq' \notin Nat
         /\ \A e \in Sends : SameMessage(e)
         /\ \A e \in Sends : e # d => send'[e] = send[e]
         /\ send'[d] = rec
         /\ \A c \in Senders : LockOK(c)' /\ TurnsOK(c)'
  <1> USE LogAssumption
  <1>1. /\ \A e \in Sends : SameMessage(e)
        /\ \A e \in Sends : e # d => send'[e] = send[e]
        /\ send'[d] = rec
        /\ send' \in [Sends -> Handler \cup {None}]
    BY DEF SameMessage, LogInv, LogTypeOK, Arrived
  <1>2. ASSUME NEW c \in Senders PROVE LockOK(c)' /\ TurnsOK(c)'
    <2>1. LockOK(c) /\ TurnsOK(c) /\ \A e \in Of(c) : e \in Sends
      BY DEF LogInv, Of
    <2>2. Of(c)' = Of(c)
      BY <1>1 DEF Of, SameMessage
    <2>3. \A e \in Of(c) : /\ send'[e].nth = send[e].nth /\ (send'[e].at = "wait" <=> send[e].at = "wait")
                           /\ (send'[e].at = "done" <=> send[e].at = "done")
                           /\ (Runs(e)' <=> Runs(e))
      BY <1>1, <2>1 DEF Runs
    <2>4. LockOK(c)'
      <3>1. /\ \A i \in 1 .. Len(waiting[c]) : waiting[c][i] \in Of(c) /\ send[waiting[c][i]].at = "wait"
            /\ \A e \in Of(c) : send[e].at = "wait" => \E i \in 1 .. Len(waiting[c]) : waiting[c][i] = e
            /\ \A i, j \in 1 .. Len(waiting[c]) : i < j => send[waiting[c][i]].nth < send[waiting[c][j]].nth
            /\ permits[c] = 1 => waiting[c] = <<>> /\ \A e \in Of(c) : ~Runs(e)
            /\ \A e, f \in Of(c) : Runs(e) /\ Runs(f) => e = f
        BY <2>1 DEF LockOK
      <3>2. /\ \A i \in 1 .. Len(waiting[c]) : waiting[c][i] \in Of(c) /\ send'[waiting[c][i]].at = "wait"
            /\ \A e \in Of(c) : send'[e].at = "wait" => \E i \in 1 .. Len(waiting[c]) : waiting[c][i] = e
            /\ \A i, j \in 1 .. Len(waiting[c]) : i < j => send'[waiting[c][i]].nth < send'[waiting[c][j]].nth
        BY <2>3, <3>1
      <3>3. /\ permits[c] = 1 => waiting[c] = <<>> /\ \A e \in Of(c) : ~Runs(e)'
            /\ \A e, f \in Of(c) : Runs(e)' /\ Runs(f)' => e = f
        BY <2>3, <3>1
      <3> QED BY <2>2, <3>2, <3>3 DEF LockOK
    <2>5. TurnsOK(c)'
      BY <2>1, <2>2, <2>3 DEF TurnsOK
    <2> QED BY <2>4, <2>5
  <1> QED BY <1>1, <1>2 DEF LogTypeOK, LogInv

\* Where no number is taken and nothing is stored.
LEMMA NumbersStay ==
  ASSUME LogInv, UNCHANGED nextSeq, \A e \in Sends : SameMessage(e),
         \A e \in Arrived :
            /\ send'[e].seq = send[e].seq
            /\ send'[e].at \in {"wait", "look", "number"} => send[e].at \in {"wait", "look", "number"}
            /\ send'[e].at \in {"check", "create"} => send[e].at \in {"check", "create"}
  PROVE  NumbersOK'
  <1>1. Arrived' = Arrived /\ \A c \in Senders : Of(c)' = Of(c)
    BY DEF SameMessage, Arrived, Of
  <1>2. \A e \in Arrived : send'[e].nth = send[e].nth
    BY DEF SameMessage, Arrived
  <1>3. \A c \in Senders : Of(c) \subseteq Arrived
    BY DEF Of, Arrived
  <1>4. /\ \A d \in Arrived : /\ send'[d].seq <= nextSeq'
                              /\ send'[d].at \in {"wait", "look", "number"} => send'[d].seq = 0
                              /\ send'[d].at \in {"check", "create"} => send'[d].seq > 0
        /\ \A d, e \in Arrived : send'[d].seq > 0 /\ send'[d].seq = send'[e].seq => d = e
    BY DEF LogInv, NumbersOK
  <1>5. \A c \in Senders : \A d, e \in Of(c) :
          send'[d].seq > 0 /\ send'[e].seq > 0 /\ send'[d].nth < send'[e].nth => send'[d].seq < send'[e].seq
    BY <1>2, <1>3 DEF LogInv, NumbersOK
  <1> QED BY <1>1, <1>4, <1>5 DEF NumbersOK

LEMMA StoreStays ==
  ASSUME LogInv, UNCHANGED log, \A e \in Sends : SameMessage(e),
         \A e \in Arrived : send[e].at = "done" => send'[e].at = "done" /\ send'[e].seq = send[e].seq
  PROVE  StoreOK'
  <1>1. Arrived' = Arrived
    BY DEF SameMessage, Arrived
  <1>2. ASSUME NEW m \in log
        PROVE  /\ m.send \in Arrived /\ send'[m.send].at = "done" /\ send'[m.send].seq > 0
               /\ m = [send |-> m.send, localId |-> send'[m.send].localId, seq |-> send'[m.send].seq]
    <2>1. /\ m.send \in Arrived /\ send[m.send].at = "done" /\ send[m.send].seq > 0
          /\ m = [send |-> m.send, localId |-> send[m.send].localId, seq |-> send[m.send].seq]
      BY DEF LogInv, StoreOK
    <2>2. send'[m.send].localId = send[m.send].localId
      BY <2>1 DEF SameMessage, Arrived
    <2> QED BY <2>1, <2>2
  <1> QED BY <1>1, <1>2 DEF LogInv, StoreOK

LEMMA HeardStays ==
  ASSUME LogInv, UNCHANGED <<log, heard>>
  PROVE  (heard = [c \in Conns |-> heard[c]])' /\ \A c \in Conns : HeardOK(c)'
  BY DEF LogInv, HeardOK

LEMMA SessionStays ==
  ASSUME LogInv, UNCHANGED <<session, revived>>, \A e \in Sends : SameMessage(e),
         \A e \in Arrived : send'[e].sawDeleted => send[e].sawDeleted \/ (session.active /\ session.deleted)
  PROVE  SessionOK'
  <1>1. Arrived' = Arrived
    BY DEF SameMessage, Arrived
  <1> QED BY <1>1 DEF LogInv, SessionOK

-----------------------------------------------------------------------------
LEMMA ArrivePreserves ==
  ASSUME LogInv, NEW d \in Sends, NEW c \in Senders, NEW l \in LocalIds \cup {None}, Arrive(d, c, l)
  PROVE  LogInv'
  <1> USE LogAssumption
  <1>1. LockOK(c) /\ TurnsOK(c) /\ IsFiniteSet(Of(c)) /\ d \notin Of(c) /\ d \notin Arrived
    BY DEF LogInv, TurnsOK, Arrive, Of, Arrived
  <1>2. PICK n \in Nat : n = Cardinality(Of(c))
    BY <1>1, FS_CardinalityType
  <1>a. PICK a \in {"look", "wait"} : a = IF TakesLock(c) THEN "look" ELSE "wait"
    OBVIOUS
  <1>3. PICK rec : rec = [conn |-> c, localId |-> l, nth |-> n,
                          at |-> a, seq |-> 0, sawDeleted |-> FALSE]
    OBVIOUS
  <1>4. /\ rec \in Handler /\ rec # None /\ rec.conn = c /\ rec.localId = l /\ rec.nth = n /\ rec.seq = 0 /\ ~rec.sawDeleted
        /\ rec.at = a
    <2>1. rec \in Handler
      BY <1>2, <1>a, <1>3 DEF Handler
    <2>2. rec.conn = c /\ rec.localId = l /\ rec.nth = n /\ rec.seq = 0 /\ rec.at = a
      BY <1>3
    <2>3. ~rec.sawDeleted
      BY <1>3
    <2> QED BY <2>1, <2>2, <2>3
  <1>5. send' = [send EXCEPT ![d] = rec]
    BY <1>2, <1>a, <1>3 DEF Arrive, Of
  <1>6. /\ send'[d] = rec /\ \A e \in Sends : e # d => send'[e] = send[e]
        /\ send' \in [Sends -> Handler \cup {None}]
    BY <1>4, <1>5 DEF LogInv, LogTypeOK
  <1>7. Arrived' = Arrived \cup {d} /\ \A e \in Arrived : e # d /\ send'[e] = send[e]
    BY <1>1, <1>4, <1>6 DEF Arrived
  <1>8. Of(c)' = Of(c) \cup {d} /\ \A e \in Of(c) : e # d /\ e \in Arrived /\ send'[e] = send[e]
    BY <1>1, <1>4, <1>6 DEF Of, Arrived
  <1>9. \A b \in Senders : b # c => Of(b)' = Of(b)
    BY <1>4, <1>6, <1>1 DEF Of, Arrived
  <1>10. \A b \in Senders : \A e \in Of(b) : e \in Arrived
    BY DEF Of, Arrived
  <1>11. LogTypeOK'
    <2>1. waiting' \in [Senders -> Seq(Sends)]
      <3>1. Append(waiting[c], d) \in Seq(Sends)
        BY DEF LogInv, LogTypeOK
      <3> QED BY <3>1 DEF LogInv, LogTypeOK, Arrive
    <2>2. permits' \in [Senders -> {0, 1}] /\ nextSeq' \in Nat
      BY DEF LogInv, LogTypeOK, Arrive
    <2> QED BY <1>6, <2>1, <2>2 DEF LogTypeOK
  <1>12. ASSUME NEW b \in Senders, b # c PROVE LockOK(b)' /\ TurnsOK(b)'
    <2>1. LockOK(b) /\ TurnsOK(b) /\ Of(b)' = Of(b) /\ \A e \in Of(b) : send'[e] = send[e]
      BY <1>7, <1>9, <1>10, <1>12 DEF LogInv
    <2>2. permits'[b] = permits[b] /\ waiting'[b] = waiting[b]
      BY <1>12 DEF Arrive, LogInv, LogTypeOK
    <2>3. /\ \A i \in 1 .. Len(waiting[b]) : waiting[b][i] \in Of(b) /\ send[waiting[b][i]].at = "wait"
          /\ \A e \in Of(b) : send[e].at = "wait" => \E i \in 1 .. Len(waiting[b]) : waiting[b][i] = e
          /\ \A i, j \in 1 .. Len(waiting[b]) : i < j => send[waiting[b][i]].nth < send[waiting[b][j]].nth
          /\ permits[b] = 1 => waiting[b] = <<>> /\ \A e \in Of(b) : ~Runs(e)
          /\ \A e, f \in Of(b) : Runs(e) /\ Runs(f) => e = f
      BY <2>1 DEF LockOK
    <2>4. /\ \A i \in 1 .. Len(waiting'[b]) : waiting'[b][i] \in Of(b) /\ send'[waiting'[b][i]].at = "wait"
          /\ \A e \in Of(b) : send'[e].at = "wait" => \E i \in 1 .. Len(waiting'[b]) : waiting'[b][i] = e
          /\ \A i, j \in 1 .. Len(waiting'[b]) : i < j => send'[waiting'[b][i]].nth < send'[waiting'[b][j]].nth
      BY <2>1, <2>2, <2>3
    <2>5. /\ permits'[b] = 1 => waiting'[b] = <<>> /\ \A e \in Of(b) : ~Runs(e)'
          /\ \A e, f \in Of(b) : Runs(e)' /\ Runs(f)' => e = f
      BY <2>1, <2>2, <2>3 DEF Runs
    <2>6. LockOK(b)'
      BY <2>1, <2>4, <2>5 DEF LockOK
    <2>7. TurnsOK(b)'
      BY <2>1 DEF TurnsOK, Runs
    <2> QED BY <2>6, <2>7
  <1>13. TurnsOK(c)'
    <2>1. IsFiniteSet(Of(c)') /\ Cardinality(Of(c)') = n + 1
      BY <1>1, <1>2, <1>8, FS_AddElement
    <2>2. \A e \in Of(c) : send[e].nth < n /\ send[e].nth \in Nat /\ send[e] \in Handler
      BY <1>1, <1>2, <1>10 DEF TurnsOK, LogInv, LogTypeOK, Arrived, Handler
    <2>3. ASSUME NEW e \in Of(c)'
          PROVE  /\ send'[e].nth < n + 1
                 /\ e # d => e \in Of(c) /\ send'[e] = send[e] /\ send'[e].nth < n
      BY <1>4, <1>6, <1>8, <2>2
    <2>4. ASSUME NEW e \in Of(c)', NEW f \in Of(c)'
          PROVE  /\ e # f => send'[e].nth # send'[f].nth
                 /\ send'[e].at = "wait" /\ send'[f].at # "wait" => send'[f].nth < send'[e].nth
                 /\ send'[e].at = "done" /\ Runs(f)' => send'[e].nth < send'[f].nth
      <3>1. CASE e # d /\ f # d
        BY <1>1, <2>3, <3>1 DEF TurnsOK, Runs
      <3>2. CASE e = d /\ f # d
        BY <1>4, <1>6, <2>3, <3>2
      <3>3. CASE e # d /\ f = d
        <4>1. send'[f].nth = n /\ send'[e].nth < n /\ n \in Nat /\ send'[e].nth \in Nat
          BY <1>4, <1>6, <2>2, <2>3, <3>3
        <4>2. send'[f].at # "wait" => waiting[c] = <<>> /\ send'[e].at # "wait"
          BY <1>1, <1>a, <1>4, <1>6, <2>3, <3>3 DEF TakesLock, LockOK, LogInv, LogTypeOK
        <4> QED BY <3>3, <4>1, <4>2
      <3>4. CASE e = d /\ f = d
        BY <1>4, <1>6, <3>4
      <3> QED BY <3>1, <3>2, <3>3, <3>4
    <2> QED BY <2>1, <2>3, <2>4 DEF TurnsOK
  <1>14. LockOK(c)'
    <2> DEFINE q == waiting[c]
    <2>0. q \in Seq(Sends) /\ permits[c] \in {0, 1} /\ Len(q) \in Nat
      BY DEF LogInv, LogTypeOK
    <2>1. /\ \A i \in 1 .. Len(q) : q[i] \in Of(c) /\ send[q[i]].at = "wait"
          /\ \A e \in Of(c) : send[e].at = "wait" => \E i \in 1 .. Len(q) : q[i] = e
          /\ \A i, j \in 1 .. Len(q) : i < j => send[q[i]].nth < send[q[j]].nth
          /\ permits[c] = 1 => q = <<>> /\ \A e \in Of(c) : ~Runs(e)
          /\ \A e, f \in Of(c) : Runs(e) /\ Runs(f) => e = f
      BY <1>1 DEF LockOK
    <2>2. CASE TakesLock(c)
      <3>1. permits[c] = 1 /\ permits'[c] = 0 /\ waiting' = waiting /\ q = <<>> /\ Len(q) = 0 /\ rec.at = "look"
        BY <1>a, <1>4, <2>0, <2>1, <2>2 DEF Arrive, TakesLock, LogInv, LogTypeOK
      <3>2. \A e \in Of(c)' : send'[e].at # "wait" /\ (Runs(e)' => e = d)
        BY <1>6, <1>8, <2>1, <3>1 DEF Runs
      <3> QED BY <3>1, <3>2 DEF LockOK
    <2>3. CASE ~TakesLock(c)
      <3>1. permits' = permits /\ permits[c] = 0 /\ waiting'[c] = Append(q, d) /\ rec.at = "wait"
        BY <1>a, <1>4, <2>0, <2>3 DEF Arrive, TakesLock, LogInv, LogTypeOK
      <3>2. /\ Len(waiting'[c]) = Len(q) + 1 /\ waiting'[c][Len(q) + 1] = d
            /\ \A i \in 1 .. Len(q) : waiting'[c][i] = q[i]
        BY <2>0, <3>1
      <3> HIDE DEF q
      <3>3. \A i \in 1 .. Len(waiting'[c]) : waiting'[c][i] \in Of(c)' /\ send'[waiting'[c][i]].at = "wait"
        <4> SUFFICES ASSUME NEW i \in 1 .. Len(waiting'[c]) PROVE waiting'[c][i] \in Of(c)' /\ send'[waiting'[c][i]].at = "wait"
          OBVIOUS
        <4>1. CASE i = Len(q) + 1
          BY <1>6, <1>8, <3>1, <3>2, <4>1
        <4>2. CASE i # Len(q) + 1
          <5>1. i \in 1 .. Len(q)
            BY <2>0, <3>2, <4>2
          <5> QED BY <1>8, <2>1, <3>2, <5>1
        <4> QED BY <4>1, <4>2
      <3>4. \A e \in Of(c)' : send'[e].at = "wait" => \E i \in 1 .. Len(waiting'[c]) : waiting'[c][i] = e
        <4> SUFFICES ASSUME NEW e \in Of(c)', send'[e].at = "wait" PROVE \E i \in 1 .. Len(waiting'[c]) : waiting'[c][i] = e
          OBVIOUS
        <4>1. CASE e = d
          <5>1. Len(q) + 1 \in 1 .. Len(waiting'[c])
            BY <2>0, <3>2
          <5> QED BY <3>2, <4>1, <5>1
        <4>2. CASE e # d
          <5>1. PICK i \in 1 .. Len(q) : q[i] = e
            BY <1>8, <2>1, <4>2
          <5>2. i \in 1 .. Len(waiting'[c])
            BY <2>0, <3>2
          <5> QED BY <3>2, <5>1, <5>2
        <4> QED BY <4>1, <4>2
      <3>5. \A i, j \in 1 .. Len(waiting'[c]) : i < j => send'[waiting'[c][i]].nth < send'[waiting'[c][j]].nth
        <4> SUFFICES ASSUME NEW i \in 1 .. Len(waiting'[c]), NEW j \in 1 .. Len(waiting'[c]), i < j
                     PROVE  send'[waiting'[c][i]].nth < send'[waiting'[c][j]].nth
          OBVIOUS
        <4>1. i \in 1 .. Len(q) /\ waiting'[c][i] = q[i] /\ q[i] \in Of(c) /\ send'[q[i]] = send[q[i]]
          BY <1>8, <2>0, <2>1, <3>2
        <4>2. CASE j = Len(q) + 1
          BY <1>1, <1>2, <1>4, <1>6, <3>2, <4>1, <4>2 DEF TurnsOK
        <4>3. CASE j # Len(q) + 1
          <5>1. j \in 1 .. Len(q)
            BY <2>0, <3>2, <4>3
          <5> QED BY <1>8, <2>1, <3>2, <4>1, <5>1
        <4> QED BY <4>2, <4>3
      <3>6. \A e, f \in Of(c)' : Runs(e)' /\ Runs(f)' => e = f
        BY <1>6, <1>8, <2>1, <3>1 DEF Runs
      <3>7. permits'[c] # 1
        BY <3>1
      <3> QED BY <3>3, <3>4, <3>5, <3>6, <3>7 DEF LockOK
    <2> QED BY <2>2, <2>3
  <1>15. NumbersOK'
    <2>1. nextSeq' = nextSeq /\ nextSeq \in Nat
      BY DEF Arrive, LogInv, LogTypeOK
    <2>0. \A e \in Arrived' : (e = d /\ send'[e] = rec) \/ (e \in Arrived /\ send'[e] = send[e])
      BY <1>6, <1>7
    <2>2. \A e \in Arrived' : /\ send'[e].seq <= nextSeq
                              /\ send'[e].at \in {"wait", "look", "number"} => send'[e].seq = 0
                              /\ send'[e].at \in {"check", "create"} => send'[e].seq > 0
      BY <1>a, <1>4, <2>0, <2>1 DEF LogInv, NumbersOK
    <2>3. \A e, f \in Arrived' : send'[e].seq > 0 /\ send'[e].seq = send'[f].seq => e = f
      BY <1>a, <1>4, <2>0 DEF LogInv, NumbersOK
    <2>4. ASSUME NEW b \in Senders, NEW e \in Of(b)', NEW f \in Of(b)', send'[e].seq > 0, send'[f].seq > 0,
                 send'[e].nth < send'[f].nth
          PROVE  send'[e].seq < send'[f].seq
      <3>1. e \in Of(b) /\ f \in Of(b) /\ send'[e] = send[e] /\ send'[f] = send[f]
        BY <1>4, <1>6, <2>4 DEF Of
      <3> QED BY <2>4, <3>1 DEF LogInv, NumbersOK
    <2> QED BY <2>1, <2>2, <2>3, <2>4 DEF NumbersOK
  <1>16. StoreOK'
    BY <1>7 DEF LogInv, StoreOK, Arrive
  <1>17. SessionOK'
    BY <1>4, <1>6, <1>7 DEF LogInv, SessionOK, Arrive
  <1>18. (heard = [b \in Conns |-> heard[b]])' /\ \A b \in Conns : HeardOK(b)'
    BY HeardStays DEF Arrive
  <1> QED BY <1>11, <1>12, <1>13, <1>14, <1>15, <1>16, <1>17, <1>18 DEF LogInv

LEMMA ResolvePreserves ==
  ASSUME LogInv, NEW d \in Sends, ResolveSession(d)
  PROVE  LogInv'
  <1> USE LogAssumption
  <1>1. d \in Arrived /\ Runs(d) /\ send[d] \in Handler /\ nextSeq' = nextSeq /\ nextSeq \in Nat
    BY DEF ResolveSession, Arrived, Runs, LogInv, LogTypeOK
  <1>2. (heard = [b \in Conns |-> heard[b]])' /\ \A b \in Conns : HeardOK(b)'
    BY HeardStays DEF ResolveSession
  <1>3. CASE ~TakesMessages
    <2>1. Done(d) /\ UNCHANGED <<log, session, revived>>
      BY <1>3 DEF ResolveSession
    <2>2. NumbersOK'
      BY <1>1, <2>1, DoneEffect, NumbersStay
    <2>3. StoreOK' /\ SessionOK' /\ LogTypeOK' /\ \A c \in Senders : LockOK(c)' /\ TurnsOK(c)'
      BY <1>1, <2>1, DoneEffect, StoreStays, SessionStays
    <2> QED BY <1>2, <2>2, <2>3 DEF LogInv
  <1>4. CASE TakesMessages
    <2>1. PICK rec : rec = [send[d] EXCEPT !.at = "number", !.sawDeleted = session.deleted]
      OBVIOUS
    <2>2. /\ rec \in Handler /\ rec.conn = send[d].conn /\ rec.localId = send[d].localId /\ rec.nth = send[d].nth
          /\ rec.seq = send[d].seq /\ rec.at = "number" /\ rec.sawDeleted = session.deleted
      BY <1>1, <2>1 DEF Handler, LogInv, SessionOK
    <2>3. send' = [send EXCEPT ![d] = rec] /\ UNCHANGED <<permits, waiting, log, session, revived>>
      BY <1>4, <2>1 DEF ResolveSession
    <2>4. /\ LogTypeOK' /\ \A c \in Senders : LockOK(c)' /\ TurnsOK(c)'
          /\ \A e \in Sends : SameMessage(e) /\ (e # d => send'[e] = send[e])
          /\ send'[d] = rec
      BY <1>1, <2>2, <2>3, StageEffect
    <2>5. send[d].at = "look" /\ session.active
      BY <1>4 DEF ResolveSession, TakesMessages
    <2>6. NumbersOK'
      BY <1>1, <2>2, <2>4, <2>5, NumbersStay DEF Arrived
    <2>7. StoreOK'
      BY <1>1, <2>2, <2>3, <2>4, StoreStays DEF Arrived, Runs
    <2>8. SessionOK'
      <3>1. \A e \in Arrived : send'[e].sawDeleted => send[e].sawDeleted \/ (session.active /\ session.deleted)
        BY <2>2, <2>4, <2>5 DEF Arrived
      <3> QED BY <2>3, <2>4, <3>1, SessionStays
    <2> QED BY <1>2, <2>4, <2>6, <2>7, <2>8 DEF LogInv
  <1> QED BY <1>3, <1>4

LEMMA TakeSeqPreserves ==
  ASSUME LogInv, NEW d \in Sends, TakeSeq(d)
  PROVE  LogInv'
  <1> USE LogAssumption
  <1>1. d \in Arrived /\ Runs(d) /\ send[d] \in Handler /\ nextSeq' = nextSeq + 1 /\ nextSeq \in Nat /\ send[d].at = "number"
    BY DEF TakeSeq, Arrived, Runs, LogInv, LogTypeOK
  <1>s. PICK s \in Nat : s = nextSeq + 1
    BY <1>1
  <1>2. PICK rec : rec = [send[d] EXCEPT !.at = "check", !.seq = s]
    OBVIOUS
  <1>3. /\ rec \in Handler /\ rec.conn = send[d].conn /\ rec.localId = send[d].localId /\ rec.nth = send[d].nth
        /\ rec.seq = s /\ rec.at = "check" /\ rec.sawDeleted = send[d].sawDeleted
    BY <1>1, <1>s, <1>2 DEF Handler
  <1>4. send' = [send EXCEPT ![d] = rec] /\ UNCHANGED <<permits, waiting, log, session, revived, heard>>
    BY <1>s, <1>2 DEF TakeSeq
  <1>5. /\ LogTypeOK' /\ \A c \in Senders : LockOK(c)' /\ TurnsOK(c)'
        /\ \A e \in Sends : SameMessage(e) /\ (e # d => send'[e] = send[e])
        /\ send'[d] = rec
    <2>1. nextSeq' \in Nat
      BY <1>1, <1>s
    <2> QED BY <1>1, <1>3, <1>4, <2>1, StageEffect
  <1>6. Arrived' = Arrived /\ \A c \in Senders : Of(c)' = Of(c) /\ Of(c) \subseteq Arrived
    BY <1>5 DEF Arrived, Of, SameMessage
  <1>7. \A e \in Arrived : e # d => send'[e] = send[e] /\ send[e].seq <= nextSeq
    BY <1>5 DEF LogInv, NumbersOK, Arrived
  <1>8. \A e \in Arrived : send[e].seq \in Nat
    BY DEF LogInv, LogTypeOK, Arrived, Handler
  <1>9. NumbersOK'
    <2>1. ASSUME NEW e \in Arrived
          PROVE  /\ send'[e].seq <= nextSeq + 1
                 /\ send'[e].at \in {"wait", "look", "number"} => send'[e].seq = 0
                 /\ send'[e].at \in {"check", "create"} => send'[e].seq > 0
      <3>1. CASE e = d
        BY <1>1, <1>s, <1>3, <1>5, <3>1
      <3>2. CASE e # d
        BY <1>1, <1>7, <1>8, <3>2 DEF LogInv, NumbersOK
      <3> QED BY <3>1, <3>2
    <2>2. ASSUME NEW e \in Arrived, NEW f \in Arrived, send'[e].seq > 0, send'[e].seq = send'[f].seq
          PROVE  e = f
      <3>1. CASE e = d /\ f # d
        BY <1>1, <1>s, <1>3, <1>5, <1>7, <1>8, <2>2, <3>1
      <3>2. CASE e # d /\ f = d
        BY <1>1, <1>s, <1>3, <1>5, <1>7, <1>8, <2>2, <3>2
      <3>3. CASE e # d /\ f # d
        BY <1>7, <2>2, <3>3 DEF LogInv, NumbersOK
      <3> QED BY <3>1, <3>2, <3>3
    <2>3. ASSUME NEW c \in Senders, NEW e \in Of(c), NEW f \in Of(c),
                 send'[e].seq > 0, send'[f].seq > 0, send'[e].nth < send'[f].nth
          PROVE  send'[e].seq < send'[f].seq
      <3>0. e \in Arrived /\ f \in Arrived /\ send'[e].nth = send[e].nth /\ send'[f].nth = send[f].nth
            /\ e \in Sends /\ f \in Sends
        BY <1>5, <1>6 DEF SameMessage, Arrived
      <3>1. CASE e # d /\ f # d
        BY <1>7, <2>3, <3>0, <3>1 DEF LogInv, NumbersOK
      <3>2. CASE f = d /\ e # d
        BY <1>1, <1>s, <1>3, <1>5, <1>7, <1>8, <3>0, <3>2
      <3>3. CASE e = d /\ f # d
        <4>1. send[f].at \in {"check", "create", "done"} /\ send[f] \in Handler
          BY <1>7, <2>3, <3>0, <3>3 DEF LogInv, NumbersOK, LogTypeOK, Arrived, Handler
        <4>2. ~Runs(f)
          BY <1>1, <3>3 DEF LogInv, LockOK
        <4>3. send[f].at = "done"
          BY <4>1, <4>2 DEF Runs
        <4>4. send[f].nth < send[e].nth
          BY <1>1, <3>3, <4>3 DEF LogInv, TurnsOK
        <4>5. send[e].nth \in Nat /\ send[f].nth \in Nat
          BY <1>1, <3>3, <4>1 DEF Handler
        <4> QED BY <2>3, <3>0, <4>4, <4>5
      <3>4. CASE e = d /\ f = d
        BY <1>1, <1>s, <2>3, <3>0, <3>4 DEF Handler
      <3> QED BY <3>1, <3>2, <3>3, <3>4
    <2> QED BY <1>1, <1>6, <2>1, <2>2, <2>3 DEF NumbersOK
  <1>10. StoreOK'
    BY <1>1, <1>4, <1>5, StoreStays DEF Arrived
  <1>11. SessionOK'
    <2>1. \A e \in Arrived : send'[e].sawDeleted = send[e].sawDeleted
      BY <1>3, <1>5 DEF Arrived
    <2> QED BY <1>4, <1>5, <2>1, SessionStays
  <1>12. (heard = [b \in Conns |-> heard[b]])' /\ \A b \in Conns : HeardOK(b)'
    BY <1>4, HeardStays
  <1> QED BY <1>5, <1>9, <1>10, <1>11, <1>12 DEF LogInv

LEMMA CheckPreserves ==
  ASSUME LogInv, NEW d \in Sends, CheckLocalId(d)
  PROVE  LogInv'
  <1> USE LogAssumption
  <1>1. d \in Arrived /\ Runs(d) /\ send[d] \in Handler /\ nextSeq' = nextSeq /\ nextSeq \in Nat /\ send[d].at = "check"
    BY DEF CheckLocalId, Arrived, Runs, LogInv, LogTypeOK
  <1>2. (heard = [b \in Conns |-> heard[b]])' /\ \A b \in Conns : HeardOK(b)'
    BY HeardStays DEF CheckLocalId
  <1>3. CASE Stored(send[d].localId)
    <2>1. Done(d) /\ UNCHANGED <<log, session, revived>>
      BY <1>3 DEF CheckLocalId
    <2>2. NumbersOK'
      BY <1>1, <2>1, DoneEffect, NumbersStay
    <2>3. StoreOK' /\ SessionOK' /\ LogTypeOK' /\ \A c \in Senders : LockOK(c)' /\ TurnsOK(c)'
      BY <1>1, <2>1, DoneEffect, StoreStays, SessionStays
    <2> QED BY <1>2, <2>2, <2>3 DEF LogInv
  <1>4. CASE ~Stored(send[d].localId)
    <2>1. PICK rec : rec = [send[d] EXCEPT !.at = "create"]
      OBVIOUS
    <2>2. /\ rec \in Handler /\ rec.conn = send[d].conn /\ rec.localId = send[d].localId /\ rec.nth = send[d].nth
          /\ rec.seq = send[d].seq /\ rec.at = "create" /\ rec.sawDeleted = send[d].sawDeleted
      BY <1>1, <2>1 DEF Handler
    <2>3. send' = [send EXCEPT ![d] = rec] /\ UNCHANGED <<permits, waiting, log, session, revived>>
      BY <1>4, <2>1 DEF CheckLocalId, Step
    <2>4. /\ LogTypeOK' /\ \A c \in Senders : LockOK(c)' /\ TurnsOK(c)'
          /\ \A e \in Sends : SameMessage(e) /\ (e # d => send'[e] = send[e])
          /\ send'[d] = rec
      BY <1>1, <2>2, <2>3, StageEffect
    <2>6. NumbersOK'
      BY <1>1, <2>2, <2>4, NumbersStay DEF Arrived
    <2>7. StoreOK'
      BY <1>1, <2>2, <2>3, <2>4, StoreStays DEF Arrived
    <2>8. SessionOK'
      <3>1. \A e \in Arrived : send'[e].sawDeleted = send[e].sawDeleted
        BY <2>2, <2>4 DEF Arrived
      <3> QED BY <2>3, <2>4, <3>1, SessionStays
    <2> QED BY <1>2, <2>4, <2>6, <2>7, <2>8 DEF LogInv
  <1> QED BY <1>3, <1>4

LEMMA CreatePreserves ==
  ASSUME LogInv, NEW d \in Sends, CreateMessage(d)
  PROVE  LogInv'
  <1> USE LogAssumption
  <1>1. /\ d \in Arrived /\ Runs(d) /\ send[d] \in Handler /\ nextSeq' = nextSeq /\ nextSeq \in Nat /\ send[d].at = "create"
        /\ Done(d) /\ UNCHANGED <<session, revived>>
    BY DEF CreateMessage, Arrived, Runs, LogInv, LogTypeOK
  <1>2. /\ LogTypeOK' /\ \A c \in Senders : LockOK(c)' /\ TurnsOK(c)'
        /\ \A e \in Sends : SameMessage(e)
        /\ \A e \in Arrived : send'[e].seq = send[e].seq /\ send'[e].sawDeleted = send[e].sawDeleted
        /\ send'[d].at = "done"
        /\ \A e \in Arrived : send'[e].at = send[e].at \/ send'[e].at = "done"
                                \/ (send[e].at = "wait" /\ send'[e].at = "look")
    BY <1>1, DoneEffect
  <1>3. NumbersOK' /\ SessionOK'
    BY <1>1, <1>2, NumbersStay, SessionStays
  <1>4. CASE ~Inserts(send[d].localId)
    <2>1. UNCHANGED <<log, heard>>
      BY <1>4 DEF CreateMessage
    <2> QED BY <1>2, <1>3, <2>1, StoreStays, HeardStays DEF LogInv
  <1>5. CASE Inserts(send[d].localId)
    <2>1. PICK l : l = send[d].localId
      OBVIOUS
    <2>2. PICK new : new = [send |-> d, localId |-> l, seq |-> send[d].seq]
      OBVIOUS
    <2>3. l \in LocalIds \cup {None} /\ new.send = d /\ new.localId = l /\ send[d].seq > 0 /\ log' = log \cup {new}
      BY <1>1, <1>5, <2>1, <2>2 DEF Handler, LogInv, NumbersOK, CreateMessage
    <2>4. l # None => \A m \in log : m.localId # l
      BY <1>5, <2>1 DEF Inserts, Stored
    <2>5. StoreOK'
      <3>1. Arrived' = Arrived
        BY <1>2 DEF SameMessage, Arrived
      <3>2. ASSUME NEW m \in log'
            PROVE  /\ m.send \in Arrived /\ send'[m.send].at = "done" /\ send'[m.send].seq > 0
                   /\ m = [send |-> m.send, localId |-> send'[m.send].localId, seq |-> send'[m.send].seq]
        <4>1. CASE m = new
          <5>1. send'[d].localId = l /\ send'[d].seq = send[d].seq
            BY <1>1, <1>2, <2>1 DEF SameMessage, Arrived
          <5> QED BY <1>1, <1>2, <2>2, <2>3, <4>1, <5>1
        <4>2. CASE m \in log
          <5>1. /\ m.send \in Arrived /\ send[m.send].at = "done" /\ send[m.send].seq > 0
                /\ m = [send |-> m.send, localId |-> send[m.send].localId, seq |-> send[m.send].seq]
            BY <4>2 DEF LogInv, StoreOK
          <5>2. send'[m.send].localId = send[m.send].localId
            BY <1>2, <5>1 DEF SameMessage, Arrived
          <5>3. send'[m.send].at = "done" /\ send'[m.send].seq = send[m.send].seq
            BY <1>2, <5>1
          <5> QED BY <5>1, <5>2, <5>3
        <4> QED BY <2>3, <4>1, <4>2
      <3>3. ASSUME NEW m \in log', NEW n \in log', m.localId = n.localId, m.localId # None PROVE m = n
        BY <2>3, <2>4, <3>3 DEF LogInv, StoreOK
      <3> QED BY <3>1, <3>2, <3>3 DEF StoreOK
    <2>6. PICK R : R = Recipients(Conns, ScopeOf, [type |-> "all-interested-in-session", subjects |-> {Session}], send[d].conn)
      OBVIOUS
    <2>7. \A c \in R : ScopeOf[c].scope = "user" \/ ScopeOf[c].subject = Session
      BY <2>6 DEF Recipients, ShouldSend
    <2>8. heard' = [c \in Conns |-> heard[c] \o IF c \in R THEN <<l>> ELSE <<>>]
      BY <1>5, <2>1, <2>6 DEF CreateMessage
    <2>9. ASSUME NEW c \in Conns PROVE HeardOK(c)'
      <3>1. HeardOK(c) /\ heard[c] \in Seq(LocalIds \cup {None}) /\ Len(heard[c]) \in Nat
        BY DEF LogInv, HeardOK
      <3>2. CASE c \notin R
        <4>1. heard'[c] = heard[c]
          BY <2>8, <3>1, <3>2
        <4> QED BY <2>3, <3>1, <4>1 DEF HeardOK
      <3>3. CASE c \in R
        <4>1. heard'[c] = Append(heard[c], l)
          BY <2>3, <2>8, <3>1, <3>3
        <4>2. /\ Len(heard'[c]) = Len(heard[c]) + 1 /\ heard'[c][Len(heard[c]) + 1] = l
              /\ \A i \in 1 .. Len(heard[c]) : heard'[c][i] = heard[c][i]
              /\ heard'[c] \in Seq(LocalIds \cup {None})
          BY <2>3, <3>1, <4>1
        <4>3. ASSUME NEW i \in 1 .. Len(heard'[c])
              PROVE  (i = Len(heard[c]) + 1 /\ heard'[c][i] = l) \/ (i \in 1 .. Len(heard[c]) /\ heard'[c][i] = heard[c][i])
          <5>1. i = Len(heard[c]) + 1 \/ i \in 1 .. Len(heard[c])
            BY <3>1, <4>2
          <5> QED BY <4>2, <5>1
        <4>4. \A i \in 1 .. Len(heard[c]) : heard[c][i] # None => \E m \in log : m.localId = heard[c][i]
          BY <3>1 DEF HeardOK
        <4>5. ASSUME NEW i \in 1 .. Len(heard'[c]), heard'[c][i] # None PROVE \E m \in log' : m.localId = heard'[c][i]
          BY <2>3, <4>3, <4>4, <4>5
        <4>6. ASSUME NEW i \in 1 .. Len(heard'[c]), NEW j \in 1 .. Len(heard'[c]), i # j, heard'[c][i] # None
              PROVE  heard'[c][i] # heard'[c][j]
          <5>1. CASE i \in 1 .. Len(heard[c]) /\ j \in 1 .. Len(heard[c])
            BY <3>1, <4>2, <4>6, <5>1 DEF HeardOK
          <5>2. CASE i = Len(heard[c]) + 1 \/ j = Len(heard[c]) + 1
            BY <2>4, <3>1, <4>3, <4>4, <4>6, <5>2
          <5> QED BY <4>3, <5>1, <5>2
        <4> QED BY <2>7, <3>3, <4>2, <4>5, <4>6 DEF HeardOK
      <3> QED BY <3>2, <3>3
    <2>10. (heard = [c \in Conns |-> heard[c]])'
      BY <2>8
    <2> QED BY <1>2, <1>3, <2>5, <2>9, <2>10 DEF LogInv
  <1> QED BY <1>4, <1>5

LEMMA LogNextInv == LogInv /\ [LogNext]_logVars => LogInv'
  <1> SUFFICES ASSUME LogInv, [LogNext]_logVars PROVE LogInv'
    OBVIOUS
  <1>1. ASSUME UNCHANGED <<permits, waiting, send, log, nextSeq, heard>>, SessionOK' PROVE LogInv'
    <2>1. LogTypeOK' /\ StoreOK' /\ NumbersOK' /\ \A c \in Senders : LockOK(c)' /\ TurnsOK(c)'
      <3>1. LogTypeOK' /\ StoreOK' /\ NumbersOK'
        BY <1>1 DEF LogInv, LogTypeOK, StoreOK, NumbersOK, Arrived, Of
      <3>2. ASSUME NEW c \in Senders PROVE LockOK(c)' /\ TurnsOK(c)'
        <4>1. LockOK(c) /\ TurnsOK(c)
          BY DEF LogInv
        <4>2. LockOK(c)'
          BY <1>1, <4>1 DEF LockOK, Of, Runs
        <4>3. TurnsOK(c)'
          BY <1>1, <4>1 DEF TurnsOK, Of, Runs
        <4> QED BY <4>2, <4>3
      <3> QED BY <3>1, <3>2
    <2>2. (heard = [c \in Conns |-> heard[c]])' /\ \A c \in Conns : HeardOK(c)'
      BY <1>1, HeardStays
    <2> QED BY <1>1, <2>1, <2>2 DEF LogInv
  <1>2. CASE DeleteSession
    BY <1>1, <1>2 DEF DeleteSession, SessionOK, LogInv, Arrived
  <1>3. CASE EndSession
    BY <1>1, <1>3 DEF EndSession, SessionOK, LogInv, Arrived
  <1>4. CASE SignOfLife
    BY <1>1, <1>4 DEF SignOfLife, SessionOK, LogInv, Arrived
  <1>5. CASE UNCHANGED logVars
    BY <1>1, <1>5 DEF logVars, SessionOK, LogInv, Arrived
  <1> QED BY <1>2, <1>3, <1>4, <1>5, ArrivePreserves, ResolvePreserves, TakeSeqPreserves, CheckPreserves, CreatePreserves
          DEF LogNext

LEMMA LogInvImplies == LogInv => LogIsFaithful
  <1> SUFFICES ASSUME LogInv PROVE LogIsFaithful
    OBVIOUS
  <1>1. StoredOnce
    BY DEF LogInv, StoreOK, HeardOK, StoredOnce
  <1>2. SentOrderIsKept
    <2> SUFFICES ASSUME NEW m \in log, NEW n \in log
                 PROVE  /\ m.seq = n.seq => m = n
                        /\ send[m.send].conn = send[n.send].conn /\ send[m.send].nth < send[n.send].nth => m.seq < n.seq
      BY DEF SentOrderIsKept
    <2>1. /\ m.send \in Arrived /\ send[m.send].seq > 0 /\ m.seq = send[m.send].seq
          /\ m = [send |-> m.send, localId |-> send[m.send].localId, seq |-> send[m.send].seq]
      BY DEF LogInv, StoreOK
    <2>2. /\ n.send \in Arrived /\ send[n.send].seq > 0 /\ n.seq = send[n.send].seq
          /\ n = [send |-> n.send, localId |-> send[n.send].localId, seq |-> send[n.send].seq]
      BY DEF LogInv, StoreOK
    <2>3. m.seq = n.seq => m.send = n.send
      BY <2>1, <2>2 DEF LogInv, NumbersOK
    <2>4. ASSUME send[m.send].conn = send[n.send].conn, send[m.send].nth < send[n.send].nth PROVE m.seq < n.seq
      <3>1. PICK c \in Senders : c = send[m.send].conn
        BY <2>1 DEF LogInv, LogTypeOK, Arrived, Handler
      <3>2. m.send \in Of(c) /\ n.send \in Of(c)
        BY <2>1, <2>2, <2>4, <3>1 DEF Of, Arrived
      <3> QED BY <2>1, <2>2, <2>4, <3>2 DEF LogInv, NumbersOK
    <2> QED BY <2>1, <2>2, <2>3, <2>4
  <1>3. DeletedTakesNoMessage
    BY DEF LogInv, SessionOK, DeletedTakesNoMessage, Arrived
  <1>4. OnlyTheConcernedHear
    BY DEF LogInv, HeardOK, OnlyTheConcernedHear
  <1> QED BY <1>1, <1>2, <1>3, <1>4 DEF LogIsFaithful

\* However the handlers of a session's messages interleave on several sockets
\* (sessionUpdateHandler), each message is stored once, in the order it was sent,
\* never after the session's deletion, and told only to those concerned, for any
\* sockets, senders, ids and sends.
THEOREM LogIsAlwaysFaithful == LogSpec => []LogIsFaithful
  <1>1. LogInit => LogInv
    BY LogInitInv
  <1>2. LogInv /\ [LogNext]_logVars => LogInv'
    BY LogNextInv
  <1>3. LogInv => LogIsFaithful
    BY LogInvImplies
  <1> QED BY <1>1, <1>2, <1>3, PTL DEF LogSpec

-----------------------------------------------------------------------------
(* Opening a session.                                                       *)

EntryTypeOK ==
    /\ row \in [SessionRows -> SessionRow \cup {None}]
    /\ entry \in [Entries -> Opening \cup {None}]
    /\ header \subseteq SessionRows \cup {None}

TagsAreUnique == \A i, j \in SessionRows : Held(i) /\ Held(j) /\ row[i].tag = row[j].tag => i = j

\* A request without an id goes by its tag alone; the session it came to has
\* that tag until it is moved away from it.
GoesByTag(e) ==
    /\ entry[e].at \in {"exact", "conflict", "migrate"} => entry[e].id # None
    /\ entry[e].at \in {"conflict", "migrate"} => Held(entry[e].id)
    /\ entry[e].at \in {"team", "header", "answered"} /\ entry[e].id = None /\ entry[e].tag \notin moved =>
          /\ entry[e].answer \in SessionRows /\ Held(entry[e].answer)
          /\ row[entry[e].answer].tag = entry[e].tag

EntryInv == EntryTypeOK /\ TagsAreUnique /\ \A e \in Entries : entry[e] # None => GoesByTag(e)

LEMMA EntryInitInv == EntryInit => EntryInv
  <1> SUFFICES ASSUME EntryInit PROVE EntryInv
    OBVIOUS
  <1> DEFINE first == CHOOSE i \in SessionRows : TRUE
             named == [tag |-> CHOOSE t \in Tags : TRUE, deleted |-> FALSE]
  <1>1. first \in SessionRows /\ named \in SessionRow
    BY EntryAssumption DEF SessionRow
  <1>2. \A i \in SessionRows : row[i] = None \/ (i = first /\ row[i] = named)
    BY DEF EntryInit
  <1>3. row \in [SessionRows -> SessionRow \cup {None}]
    BY <1>1 DEF EntryInit
  <1> HIDE DEF first, named
  <1> QED BY <1>1, <1>2, <1>3 DEF EntryInit, EntryInv, EntryTypeOK, TagsAreUnique, Held

\* A request goes a step and the sessions stay.
LEMMA EntryTurns ==
  ASSUME EntryInv, NEW e \in Entries, NEW q \in Opening, entry' = [entry EXCEPT ![e] = q],
         UNCHANGED <<row, moved>>, header' \subseteq SessionRows \cup {None},
         q.at \in {"exact", "conflict", "migrate"} => q.id # None,
         q.at \in {"conflict", "migrate"} => Held(q.id),
         q.at \in {"team", "header", "answered"} /\ q.id = None /\ q.tag \notin moved =>
             q.answer \in SessionRows /\ Held(q.answer) /\ row[q.answer].tag = q.tag
  PROVE  EntryInv'
  <1> USE EntryAssumption
  <1>1. EntryTypeOK' /\ TagsAreUnique'
    BY DEF EntryInv, EntryTypeOK, TagsAreUnique, Held
  <1>2. ASSUME NEW f \in Entries, entry'[f] # None PROVE GoesByTag(f)'
    <2>1. CASE f = e
      <3>1. entry'[f] = q
        BY <2>1 DEF EntryInv, EntryTypeOK
      <3> QED BY <3>1 DEF GoesByTag, Held
    <2>2. CASE f # e
      <3>1. entry'[f] = entry[f] /\ GoesByTag(f)
        BY <1>2, <2>2 DEF EntryInv, EntryTypeOK
      <3> QED BY <3>1 DEF GoesByTag, Held
    <2> QED BY <2>1, <2>2
  <1> QED BY <1>1, <1>2 DEF EntryInv

LEMMA EntryNextInv == EntryInv /\ [EntryNext]_entryVars => EntryInv' /\ LinksStay
  <1> SUFFICES ASSUME EntryInv, [EntryNext]_entryVars PROVE EntryInv' /\ LinksStay
    OBVIOUS
  <1> USE EntryAssumption
  <1>1. ASSUME NEW e \in Entries, entry[e] # None, NEW to \in Stages, Goes(e, to)
        PROVE  \E q \in Opening : /\ entry' = [entry EXCEPT ![e] = q] /\ q.at = to /\ q.id = entry[e].id
                                 /\ q.tag = entry[e].tag /\ q.answer = entry[e].answer
    <2> DEFINE n == [entry[e] EXCEPT !.at = to]
    <2>1. /\ n \in Opening /\ entry' = [entry EXCEPT ![e] = n] /\ n.at = to /\ n.id = entry[e].id
          /\ n.tag = entry[e].tag /\ n.answer = entry[e].answer
      BY <1>1 DEF Goes, EntryInv, EntryTypeOK, Opening, Stages
    <2> HIDE DEF n
    <2> QED BY <2>1
  <1>2. ASSUME NEW e \in Entries, entry[e] # None, NEW i \in SessionRows, Answers(e, i)
        PROVE  \E q \in Opening : /\ entry' = [entry EXCEPT ![e] = q] /\ q.at = "answered" /\ q.id = entry[e].id
                                 /\ q.tag = entry[e].tag /\ q.answer = i
    <2> DEFINE n == [entry[e] EXCEPT !.at = "answered", !.answer = i]
    <2>1. /\ n \in Opening /\ entry' = [entry EXCEPT ![e] = n] /\ n.at = "answered" /\ n.id = entry[e].id
          /\ n.tag = entry[e].tag /\ n.answer = i
      BY <1>2 DEF Answers, EntryInv, EntryTypeOK, Opening, Stages
    <2> HIDE DEF n
    <2> QED BY <2>1
  <1>3. ASSUME NEW e \in Entries, entry[e] # None
        PROVE  /\ entry[e] \in Opening /\ GoesByTag(e)
               /\ entry[e].tag \in Tags /\ entry[e].id \in SessionRows \cup {None}
               /\ entry[e].answer \in SessionRows \cup {None} /\ entry[e].header \subseteq SessionRows \cup {None}
    BY <1>3 DEF EntryInv, EntryTypeOK, Opening, Stages
  <1>4. header \subseteq SessionRows \cup {None}
    BY DEF EntryInv, EntryTypeOK
  <1>5. ASSUME NEW e \in Entries, NEW t \in Tags, NEW i \in SessionRows \cup {None}, NEW team \in BOOLEAN,
               Enter(e, t, i, team)
        PROVE  EntryInv' /\ LinksStay
    <2> DEFINE q == [tag |-> t, id |-> i, team |-> team, answer |-> None, header |-> {},
                     at |-> IF i = None THEN "tag" ELSE "exact"]
    <2>1. q \in Opening /\ q.id = i /\ (q.at = "tag" \/ (q.at = "exact" /\ i # None))
      BY DEF Opening, Stages
    <2>2. entry' = [entry EXCEPT ![e] = q] /\ UNCHANGED <<row, header, overtaken, moved>>
      BY <1>5 DEF Enter
    <2> HIDE DEF q
    <2>3. EntryInv'
      BY <1>4, <2>1, <2>2, EntryTurns
    <2> QED BY <2>2, <2>3 DEF LinksStay
  <1>6. ASSUME NEW e \in Entries, FindExact(e) PROVE EntryInv' /\ LinksStay
    <2>1. /\ entry[e] # None /\ entry[e].at = "exact" /\ UNCHANGED <<row, header, overtaken, moved>>
          /\ Goes(e, "tag") \/ (Goes(e, "conflict") /\ Held(entry[e].id)) \/ Answers(e, entry[e].id)
      BY <1>6 DEF FindExact, Is
    <2>2. entry[e].id # None /\ entry[e].id \in SessionRows
      BY <1>3, <2>1 DEF GoesByTag
    <2>3. PICK q \in Opening : /\ entry' = [entry EXCEPT ![e] = q] /\ q.id = entry[e].id
                               /\ q.at = "conflict" => Held(entry[e].id)
                               /\ q.at \in {"tag", "conflict", "answered"}
      BY <1>1, <1>2, <2>1, <2>2 DEF Stages
    <2>4. EntryInv'
      BY <1>4, <2>1, <2>2, <2>3, EntryTurns
    <2> QED BY <2>1, <2>4 DEF LinksStay
  <1>7. ASSUME NEW e \in Entries, FindConflict(e) PROVE EntryInv' /\ LinksStay
    <2>1. /\ entry[e] # None /\ entry[e].at = "conflict" /\ UNCHANGED <<row, header, overtaken, moved>>
          /\ Goes(e, "migrate") \/ Answers(e, entry[e].id)
      BY <1>7 DEF FindConflict, Is
    <2>2. entry[e].id # None /\ entry[e].id \in SessionRows /\ Held(entry[e].id)
      BY <1>3, <2>1 DEF GoesByTag
    <2>3. PICK q \in Opening : /\ entry' = [entry EXCEPT ![e] = q] /\ q.id = entry[e].id
      BY <1>1, <1>2, <2>1, <2>2 DEF Stages
    <2>4. EntryInv'
      BY <1>4, <2>1, <2>2, <2>3, EntryTurns
    <2> QED BY <2>1, <2>4 DEF LinksStay
  <1>8. ASSUME NEW e \in Entries, Migrate(e) PROVE EntryInv' /\ LinksStay
    <2>1. entry[e] # None /\ entry[e].at = "migrate" /\ UNCHANGED <<header, overtaken>>
      BY <1>8 DEF Migrate, Is
    <2>2. entry[e].id # None /\ entry[e].id \in SessionRows /\ entry[e].tag \in Tags /\ Held(entry[e].id)
      BY <1>3, <2>1 DEF GoesByTag
    <2>3. CASE TagIsFree(entry[e].tag, entry[e].id)
      <3>1. PICK i \in SessionRows, t \in Tags : i = entry[e].id /\ t = entry[e].tag
        BY <2>2
      <3>2. /\ row' = [row EXCEPT ![i].tag = t] /\ moved' = moved \cup ({row[i].tag} \ {t})
            /\ Answers(e, i) /\ Tagged(t) \subseteq {i}
        BY <1>8, <2>3, <3>1 DEF Migrate, TagIsFree
      <3>3. PICK q \in Opening : entry' = [entry EXCEPT ![e] = q] /\ q.id = i /\ q.at = "answered"
        BY <1>2, <2>1, <3>1, <3>2
      <3>4. row[i] # None
        BY <2>2, <3>1 DEF Held
      <3> DEFINE new == [row[i] EXCEPT !.tag = t]
      <3>5. new \in SessionRow /\ new.tag = t /\ row' = [row EXCEPT ![i] = new]
        BY <3>2, <3>4 DEF EntryInv, EntryTypeOK, SessionRow
      <3> HIDE DEF new
      <3>6. EntryTypeOK'
        BY <2>1, <3>3, <3>5 DEF EntryInv, EntryTypeOK
      <3>7. TagsAreUnique'
        BY <3>2, <3>5 DEF EntryInv, EntryTypeOK, TagsAreUnique, Held, Tagged
      <3>8. ASSUME NEW f \in Entries, entry'[f] # None PROVE GoesByTag(f)'
        <4>1. CASE f = e
          <5>1. entry'[f] = q
            BY <3>3, <4>1 DEF EntryInv, EntryTypeOK
          <5> QED BY <2>2, <3>1, <3>3, <5>1 DEF GoesByTag
        <4>2. CASE f # e
          <5>1. entry'[f] = entry[f] /\ GoesByTag(f)
            BY <3>3, <3>8, <4>2 DEF EntryInv, EntryTypeOK
          <5>2. ASSUME entry[f].answer \in SessionRows, Held(entry[f].answer),
                       row[entry[f].answer].tag = entry[f].tag, entry[f].tag \notin moved'
                PROVE  Held(entry[f].answer)' /\ row'[entry'[f].answer].tag = entry'[f].tag
            BY <3>2, <3>5, <5>1, <5>2 DEF Held, EntryInv, EntryTypeOK
          <5>3. \A j \in SessionRows : Held(j) => Held(j)'
            BY <3>5 DEF Held, EntryInv, EntryTypeOK
          <5>4. entry[f].id \in SessionRows \cup {None}
            BY <1>3, <3>8, <5>1
          <5> QED BY <3>2, <5>1, <5>2, <5>3, <5>4 DEF GoesByTag
        <4> QED BY <4>1, <4>2
      <3> QED BY <2>1, <3>6, <3>7, <3>8 DEF EntryInv, LinksStay
    <2>4. CASE ~TagIsFree(entry[e].tag, entry[e].id)
      <3>1. Goes(e, "failed") /\ UNCHANGED <<row, moved>>
        BY <1>8, <2>4 DEF Migrate
      <3>2. PICK q \in Opening : entry' = [entry EXCEPT ![e] = q] /\ q.at = "failed"
        BY <1>1, <2>1, <3>1 DEF Stages
      <3>3. EntryInv'
        BY <1>4, <2>1, <3>1, <3>2, EntryTurns
      <3> QED BY <2>1, <3>3 DEF LinksStay
    <2> QED BY <2>3, <2>4
  <1>9. ASSUME NEW e \in Entries, FindTag(e) PROVE EntryInv' /\ LinksStay
    <2>1. entry[e] # None /\ entry[e].at = "tag" /\ UNCHANGED <<row, header, overtaken, moved>>
      BY <1>9 DEF FindTag, Is
    <2>2. Goes(e, "create") \/ \E i \in Tagged(entry[e].tag) : Answers(e, i)
      BY <1>9 DEF FindTag
    <2>3. PICK q \in Opening : /\ entry' = [entry EXCEPT ![e] = q] /\ q.tag = entry[e].tag
                               /\ q.at = "create" \/ (q.at = "answered" /\ q.answer \in Tagged(q.tag))
      <3>1. CASE Goes(e, "create")
        BY <1>1, <2>1, <3>1 DEF Stages
      <3>2. ASSUME NEW i \in Tagged(entry[e].tag), Answers(e, i)
            PROVE  \E q \in Opening : /\ entry' = [entry EXCEPT ![e] = q] /\ q.tag = entry[e].tag
                                     /\ q.at = "answered" /\ q.answer \in Tagged(q.tag)
        <4>1. i \in SessionRows
          BY DEF Tagged
        <4>2. PICK q \in Opening : /\ entry' = [entry EXCEPT ![e] = q] /\ q.at = "answered"
                                   /\ q.tag = entry[e].tag /\ q.answer = i
          BY <1>2, <2>1, <3>2, <4>1
        <4> QED BY <4>2
      <3> QED BY <2>2, <3>1, <3>2
    <2>4. EntryInv'
      BY <1>4, <2>1, <2>3, EntryTurns DEF Tagged, Held
    <2> QED BY <2>1, <2>4 DEF LinksStay
  <1>10. ASSUME NEW e \in Entries, CreateSession(e) PROVE EntryInv' /\ LinksStay
    <2>1. entry[e] # None /\ entry[e].at = "create" /\ UNCHANGED <<header, overtaken, moved>>
      BY <1>10 DEF CreateSession, Is
    <2>2. CASE TagIsFree(entry[e].tag, None)
      <3>1. PICK i \in SessionRows :
                /\ ~Held(i) /\ row' = [row EXCEPT ![i] = [tag |-> entry[e].tag, deleted |-> FALSE]]
                /\ entry' = [entry EXCEPT ![e].answer = i, ![e].at = IF entry[e].team THEN "team" ELSE "answered"]
        BY <1>10, <2>2 DEF CreateSession
      <3>2. PICK t \in Tags : t = entry[e].tag
        BY <1>3, <2>1
      <3> DEFINE new == [tag |-> t, deleted |-> FALSE]
      <3>3. new \in SessionRow /\ new.tag = t /\ row' = [row EXCEPT ![i] = new]
        BY <3>1, <3>2 DEF SessionRow
      <3> HIDE DEF new
      <3>4. PICK q \in Opening : entry' = [entry EXCEPT ![e] = q] /\ q.tag = t /\ q.answer = i /\ q.at \in {"team", "answered"}
        <4> DEFINE n == [entry[e] EXCEPT !.answer = i, !.at = IF entry[e].team THEN "team" ELSE "answered"]
        <4>1. n \in Opening /\ n.tag = t /\ n.answer = i /\ n.at \in {"team", "answered"} /\ entry' = [entry EXCEPT ![e] = n]
          BY <1>3, <2>1, <3>1, <3>2 DEF Opening, Stages
        <4> HIDE DEF n
        <4> QED BY <4>1
      <3>5. EntryTypeOK'
        BY <2>1, <3>3, <3>4 DEF EntryInv, EntryTypeOK
      <3>6. TagsAreUnique'
        BY <2>2, <3>2, <3>3 DEF EntryInv, EntryTypeOK, TagsAreUnique, Held, Tagged, TagIsFree
      <3>7. ASSUME NEW f \in Entries, entry'[f] # None PROVE GoesByTag(f)'
        <4>1. CASE f = e
          <5>1. entry'[f] = q
            BY <3>4, <4>1 DEF EntryInv, EntryTypeOK
          <5> QED BY <3>3, <3>4, <5>1 DEF GoesByTag, Held, EntryInv, EntryTypeOK
        <4>2. CASE f # e
          <5>1. entry'[f] = entry[f] /\ GoesByTag(f)
            BY <3>4, <3>7, <4>2 DEF EntryInv, EntryTypeOK
          <5>2. \A j \in SessionRows : Held(j) => Held(j)' /\ row'[j] = row[j]
            BY <3>1, <3>3 DEF Held, EntryInv, EntryTypeOK
          <5>3. entry[f].id \in SessionRows \cup {None}
            BY <1>3, <3>7, <5>1
          <5> QED BY <2>1, <5>1, <5>2, <5>3 DEF GoesByTag
        <4> QED BY <4>1, <4>2
      <3> QED BY <2>1, <3>5, <3>6, <3>7 DEF EntryInv, LinksStay
    <2>3. CASE ~TagIsFree(entry[e].tag, None)
      <3>1. Goes(e, "failed") /\ UNCHANGED row
        BY <1>10, <2>3 DEF CreateSession
      <3>2. PICK q \in Opening : entry' = [entry EXCEPT ![e] = q] /\ q.at = "failed"
        BY <1>1, <2>1, <3>1 DEF Stages
      <3>3. EntryInv'
        BY <1>4, <2>1, <3>1, <3>2, EntryTurns
      <3> QED BY <2>1, <3>3 DEF LinksStay
    <2> QED BY <2>2, <2>3
  <1>11. ASSUME NEW e \in Entries, ReadHeader(e) PROVE EntryInv' /\ LinksStay
    <2>1. /\ entry[e] # None /\ entry[e].at = "team" /\ UNCHANGED <<row, header, overtaken, moved>>
          /\ entry' = [entry EXCEPT ![e].header = header, ![e].at = "header"]
      BY <1>11 DEF ReadHeader, Is
    <2>2. PICK q \in Opening : /\ entry' = [entry EXCEPT ![e] = q] /\ q.at = "header" /\ q.id = entry[e].id
                               /\ q.tag = entry[e].tag /\ q.answer = entry[e].answer
      <3> DEFINE n == [entry[e] EXCEPT !.header = header, !.at = "header"]
      <3>1. entry' = [entry EXCEPT ![e] = n]
        BY <2>1
      <3>2. entry[e] \in Opening /\ header \in SUBSET (SessionRows \cup {None})
        BY <1>3, <1>4, <2>1 DEF EntryInv, EntryTypeOK
      <3>3. /\ n \in Opening /\ n.at = "header" /\ n.id = entry[e].id /\ n.tag = entry[e].tag
            /\ n.answer = entry[e].answer
        BY <3>2 DEF Opening, Stages
      <3> HIDE DEF n
      <3> QED BY <3>1, <3>3
    <2>t. /\ ~(q.at \in {"exact", "conflict", "migrate"})
          /\ q.id = None /\ q.tag \notin moved => q.answer \in SessionRows /\ Held(q.answer) /\ row[q.answer].tag = q.tag
      <3>1. GoesByTag(e)
        BY <1>3, <2>1
      <3> QED BY <2>1, <2>2, <3>1 DEF GoesByTag
    <2>3. EntryInv'
      BY <1>4, <2>1, <2>2, <2>t, EntryTurns
    <2> QED BY <2>1, <2>3 DEF LinksStay
  <1>12. ASSUME NEW e \in Entries, WriteHeader(e) PROVE EntryInv' /\ LinksStay
    <2>1. /\ entry[e] # None /\ entry[e].at = "header" /\ UNCHANGED <<row, moved>> /\ Goes(e, "answered")
          /\ header' = entry[e].header \cup {entry[e].answer} /\ overtaken' = overtaken \cup (header \ entry[e].header)
      BY <1>12 DEF WriteHeader, HeaderWith, Is
    <2>2. PICK q \in Opening : /\ entry' = [entry EXCEPT ![e] = q] /\ q.at = "answered" /\ q.id = entry[e].id
                               /\ q.tag = entry[e].tag /\ q.answer = entry[e].answer
      BY <1>1, <2>1 DEF Stages
    <2>3. header' \subseteq SessionRows \cup {None}
      BY <1>3, <2>1
    <2>4. EntryInv'
      BY <1>3, <2>1, <2>2, <2>3, EntryTurns DEF GoesByTag
    <2> QED BY <2>1, <2>4 DEF LinksStay
  <1>13. ASSUME NEW i \in SessionRows, RemoveSession(i) PROVE EntryInv' /\ LinksStay
    <2>1. /\ Held(i) /\ row' = [row EXCEPT ![i].deleted = TRUE]
          /\ UNCHANGED <<entry, header, overtaken, moved>>
      BY <1>13 DEF RemoveSession
    <2> DEFINE new == [row[i] EXCEPT !.deleted = TRUE]
    <2>2. new \in SessionRow /\ new.tag = row[i].tag /\ row' = [row EXCEPT ![i] = new]
      BY <2>1 DEF EntryInv, EntryTypeOK, SessionRow, Held
    <2> HIDE DEF new
    <2>3. \A j \in SessionRows : (Held(j)' <=> Held(j)) /\ row'[j].tag = row[j].tag
      BY <2>1, <2>2 DEF EntryInv, EntryTypeOK, Held
    <2>4. EntryTypeOK' /\ TagsAreUnique'
      BY <2>1, <2>2, <2>3 DEF EntryInv, EntryTypeOK, TagsAreUnique
    <2>5. ASSUME NEW f \in Entries, entry'[f] # None PROVE GoesByTag(f)'
      <3>1. entry'[f] = entry[f] /\ GoesByTag(f) /\ entry[f].id \in SessionRows \cup {None}
        BY <1>3, <2>1, <2>5 DEF EntryInv
      <3> QED BY <2>1, <2>3, <3>1 DEF GoesByTag
    <2> QED BY <2>1, <2>4, <2>5 DEF EntryInv, LinksStay
  <1>14. CASE UNCHANGED entryVars
    BY <1>14 DEF entryVars, EntryInv, EntryTypeOK, TagsAreUnique, GoesByTag, Held, LinksStay
  <1> QED BY <1>5, <1>6, <1>7, <1>8, <1>9, <1>10, <1>11, <1>12, <1>13, <1>14 DEF EntryNext

\* However clients open, move and delete sessions (POST /v1/sessions), those that
\* open one tag meet in one session, and links to teams stay, for any tags,
\* sessions and requests.
THEOREM EntriesAlwaysMeet == EntrySpec => EntriesMeet
  <1>1. EntryInv => OneSessionForATag
    <2> SUFFICES ASSUME EntryInv, NEW e \in Entries, NEW f \in Entries, Is(e, "answered"), Is(f, "answered"),
                        entry[e].id = None, entry[f].id = None, entry[e].tag = entry[f].tag, entry[e].tag \notin moved
                 PROVE  entry[e].answer = entry[f].answer
      BY DEF OneSessionForATag
    <2> QED BY DEF EntryInv, GoesByTag, TagsAreUnique, Is
  <1>2. EntryInv /\ [EntryNext]_entryVars => EntryInv' /\ [OneSessionForATag' /\ LinksStay]_entryVars
    <2> SUFFICES ASSUME EntryInv, [EntryNext]_entryVars PROVE EntryInv' /\ OneSessionForATag' /\ LinksStay
      OBVIOUS
    <2>1. EntryInv' /\ LinksStay
      BY EntryNextInv
    <2>2. EntryInv' => OneSessionForATag'
      BY <1>1, PTL
    <2> QED BY <2>1, <2>2
  <1> QED BY <1>2, EntryInitInv, PTL DEF EntrySpec, EntriesMeet

-----------------------------------------------------------------------------
(* Machines.                                                                *)

MachinesTypeOK ==
    /\ machine \in [MachineIds -> Machine \cup {None}]
    /\ visit \in [Visits -> Visit \cup {None}]
    /\ accessKeys \subseteq MachineIds
    /\ announced \subseteq Owners \X MachineIds /\ amiss \subseteq Owners \X MachineIds

\* A request that is about to close a machine that is online looked before it
\* came online.
ClosersLookedBefore ==
    \A v \in Visits :
        visit[v] # None /\ visit[v].at = "write" /\ visit[v].kind # "register" /\ v \notin woken
        => ~(Mine(visit[v].account, visit[v].id) /\ machine[visit[v].id].active)

MachinesInv == MachinesTypeOK /\ ClosersLookedBefore /\ MachinesAreKnown

MachineKept == MachineKeepsItsOwner /\ OnlyOfflineMachinesLeave

LEMMA MachinesInitInv == MachinesInit => MachinesInv
  BY DEF MachinesInit, MachinesInv, MachinesTypeOK, ClosersLookedBefore, MachinesAreKnown, ToldOf, Mine

LEMMA MachinesNextInv == MachinesInv /\ [MachinesNext]_machineVars => MachinesInv' /\ MachineKept
  <1> SUFFICES ASSUME MachinesInv, [MachinesNext]_machineVars PROVE MachinesInv' /\ MachineKept
    OBVIOUS
  <1> USE MachinesAssumption
  <1> USE DEF MachinesInv, MachinesTypeOK, Mine
  \* A step that neither changes who holds a machine nor tells anybody.
  <1>0. ASSUME \A a \in Owners, m \in MachineIds : Mine(a, m)' = Mine(a, m),
               UNCHANGED <<accessKeys, announced, amiss>>,
               \A m \in MachineIds : machine[m] # None => machine'[m] # None,
               \A w \in Visits : Announces(w) => visit'[w] = visit[w]
        PROVE  MachinesAreKnown'
    <2> SUFFICES ASSUME NEW a \in Owners, NEW m \in MachineIds PROVE ToldOf(a, m)'
      BY <1>0 DEF MachinesAreKnown
    <2>1. ToldOf(a, m) /\ Mine(a, m)' = Mine(a, m)
      BY <1>0 DEF MachinesAreKnown
    <2>2. ASSUME NEW w \in Visits, Announces(w), Subject(w) = <<a, m>>, SaysSo(w)
          PROVE  Announces(w)' /\ Subject(w)' = <<a, m>> /\ SaysSo(w)'
      <3>1. visit'[w] = visit[w]
        BY <1>0, <2>2
      <3>2. visit[w].account = a /\ visit[w].id = m
        BY <2>2 DEF Subject
      <3> QED BY <2>1, <2>2, <3>1, <3>2 DEF Announces, Subject, SaysSo
    <2> QED BY <1>0, <2>1, <2>2 DEF ToldOf
  \* A request that only looks.
  <1>1. ASSUME NEW v \in Visits, NEW q \in Visit, visit[v] = None, visit' = [visit EXCEPT ![v] = q],
               q.at = "write" /\ q.kind # "register" => ~(Mine(q.account, q.id) /\ machine[q.id].active),
               woken \ {v} \subseteq woken', UNCHANGED <<machine, accessKeys, announced, amiss>>
        PROVE  MachinesInv' /\ MachineKept
    <2>1. MachinesTypeOK'
      BY <1>1
    <2>2. ClosersLookedBefore'
      BY <1>1 DEF ClosersLookedBefore
    <2>3. MachinesAreKnown'
      BY <1>0, <1>1 DEF Announces
    <2>4. MachineKept
      BY <1>1 DEF MachineKept, MachineKeepsItsOwner, OnlyOfflineMachinesLeave
    <2> QED BY <2>1, <2>2, <2>3, <2>4
  <1>2. ASSUME NEW v \in Visits, NEW a \in Owners, NEW m \in MachineIds, LookAtOwner(v, a, m)
        PROVE  MachinesInv' /\ MachineKept
    <2> DEFINE q == [kind |-> "register", account |-> a, id |-> m, at |-> IF MayRegister(a, m) THEN "write" ELSE "done"]
    <2>1. q \in Visit /\ q.kind = "register"
      BY DEF Visit
    <2>2. visit[v] = None /\ visit' = [visit EXCEPT ![v] = q] /\ UNCHANGED <<machine, accessKeys, announced, amiss, woken>>
      BY <1>2 DEF LookAtOwner
    <2> HIDE DEF q
    <2> QED BY <2>1, <2>2, <1>1
  <1>3. ASSUME NEW v \in Visits, NEW a \in Owners, NEW m \in MachineIds, NEW kind \in {"archive", "delete"},
               LookAtMachine(v, a, m, kind)
        PROVE  MachinesInv' /\ MachineKept
    <2> DEFINE q == [kind |-> kind, account |-> a, id |-> m,
                     at |-> IF MayLeave(a, m)
                            THEN IF kind = "archive" /\ machine[m].archived THEN "done" ELSE "write" ELSE "done"]
    <2>1. q \in Visit /\ (q.at = "write" => ~(Mine(q.account, q.id) /\ machine[q.id].active))
      BY DEF Visit, MayLeave
    <2>2. /\ visit[v] = None /\ visit' = [visit EXCEPT ![v] = q] /\ UNCHANGED <<machine, accessKeys, announced, amiss>>
          /\ woken \ {v} \subseteq woken'
      BY <1>3 DEF LookAtMachine
    <2> HIDE DEF q
    <2> QED BY <2>1, <2>2, <1>1
  \* A request that goes on.
  <1>4. ASSUME NEW v \in Visits, visit[v] # None, NEW at \in {"announce", "done"}, visit' = [visit EXCEPT ![v].at = at]
        PROVE  /\ visit' \in [Visits -> Visit \cup {None}] /\ visit'[v] # None
               /\ visit'[v].at = at /\ visit'[v].kind = visit[v].kind
               /\ visit'[v].account = visit[v].account /\ visit'[v].id = visit[v].id
               /\ \A w \in Visits \ {v} : visit'[w] = visit[w]
    BY <1>4 DEF Visit
  <1>5. ASSUME NEW v \in Visits, RegisterMachine(v) PROVE MachinesInv' /\ MachineKept
    <2>0. PICK a \in Owners, m \in MachineIds : a = visit[v].account /\ m = visit[v].id
      BY <1>5 DEF RegisterMachine, Visit
    <2>1. /\ visit[v] # None /\ visit[v].at = "write" /\ visit[v].kind = "register"
          /\ UNCHANGED <<accessKeys, announced, amiss, woken>>
      BY <1>5 DEF RegisterMachine
    <2>2. \/ /\ Mine(a, m)
             /\ machine' = [machine EXCEPT ![m].accountId = a, ![m].archived = FALSE, ![m].metadataVersion = @ + 1]
             /\ visit' = [visit EXCEPT ![v].at = "done"]
          \/ /\ machine[m] = None /\ visit' = [visit EXCEPT ![v].at = "announce"]
             /\ machine' = [machine EXCEPT ![m] =
                   [accountId |-> a, active |-> FALSE, archived |-> FALSE, metadataVersion |-> 1]]
          \/ UNCHANGED machine /\ visit' = [visit EXCEPT ![v].at = "done"]
      BY <1>5, <2>0 DEF RegisterMachine, FoundByOwner
    <2>3. ~Announces(v)
      BY <2>1 DEF Announces
    <2> DEFINE rec == [machine[m] EXCEPT !.accountId = a, !.archived = FALSE, !.metadataVersion = @ + 1]
               new == [accountId |-> a, active |-> FALSE, archived |-> FALSE, metadataVersion |-> 1]
    <2>4. CASE /\ Mine(a, m) /\ visit' = [visit EXCEPT ![v].at = "done"]
               /\ machine' = [machine EXCEPT ![m].accountId = a, ![m].archived = FALSE, ![m].metadataVersion = @ + 1]
      <3>1. /\ rec \in Machine /\ rec.accountId = machine[m].accountId /\ rec.active = machine[m].active
            /\ ~rec.archived /\ machine' = [machine EXCEPT ![m] = rec]
        BY <2>1, <2>4 DEF Machine
      <3> HIDE DEF rec
      <3>2. MachinesTypeOK'
        <4>1. visit' \in [Visits -> Visit \cup {None}]
          BY <1>4, <2>1, <2>4
        <4>2. machine' \in [MachineIds -> Machine \cup {None}]
          BY <2>0, <3>1
        <4> QED BY <2>1, <4>1, <4>2
      <3>3. ClosersLookedBefore'
        <4> SUFFICES ASSUME NEW w \in Visits, visit'[w] # None, visit'[w].at = "write",
                            visit'[w].kind # "register", w \notin woken'
                     PROVE  ~(Mine(visit[w].account, visit[w].id) /\ machine[visit[w].id].active)'
          BY DEF ClosersLookedBefore
        <4>1. w # v /\ visit'[w] = visit[w] /\ w \notin woken
          BY <1>4, <2>1, <2>4
        <4>2. visit[w].id \in MachineIds
          BY <4>1 DEF Visit
        <4>3. ~(Mine(visit[w].account, visit[w].id) /\ machine[visit[w].id].active)
          BY <4>1 DEF ClosersLookedBefore
        <4> QED BY <2>4, <3>1, <4>1, <4>2, <4>3
      <3>4. MachinesAreKnown'
        <4>1. \A b \in Owners, n \in MachineIds : Mine(b, n)' = Mine(b, n)
          BY <2>1, <2>4, <3>1
        <4>2. \A w \in Visits : Announces(w) => visit'[w] = visit[w]
          BY <1>4, <2>1, <2>3, <2>4
        <4>3. \A n \in MachineIds : machine[n] # None => machine'[n] # None
          BY <2>1, <3>1, MachinesAssumption
        <4> QED BY <1>0, <2>1, <4>1, <4>2, <4>3
      <3>5. MachineKept
        BY <2>1, <2>4, <3>1 DEF MachineKept, MachineKeepsItsOwner, OnlyOfflineMachinesLeave
      <3> QED BY <3>2, <3>3, <3>4, <3>5
    <2>5. CASE /\ machine[m] = None /\ visit' = [visit EXCEPT ![v].at = "announce"]
               /\ machine' = [machine EXCEPT ![m] = new]
      <3>1. /\ new \in Machine /\ new.accountId = a /\ ~new.active /\ machine' = [machine EXCEPT ![m] = new]
        BY <2>1, <2>5 DEF Machine
      <3>0. /\ visit'[v] # None /\ visit'[v].at = "announce" /\ visit'[v].kind = "register"
            /\ visit'[v].account = a /\ visit'[v].id = m
        BY <1>4, <2>0, <2>1, <2>5
      <3> HIDE DEF new
      <3>2. MachinesTypeOK'
        <4>1. visit' \in [Visits -> Visit \cup {None}]
          BY <1>4, <2>1, <2>5
        <4>2. machine' \in [MachineIds -> Machine \cup {None}]
          BY <2>0, <3>1
        <4> QED BY <2>1, <4>1, <4>2
      <3>3. ClosersLookedBefore'
        BY <1>4, <2>1, <2>5, <3>1 DEF ClosersLookedBefore
      <3>4. MachinesAreKnown'
        <4> SUFFICES ASSUME NEW b \in Owners, NEW n \in MachineIds PROVE ToldOf(b, n)'
          BY <2>1, <2>5, <3>1 DEF MachinesAreKnown
        <4>1. CASE b = a /\ n = m
          <5>1. Mine(a, m)' /\ <<a, m>> = <<b, n>>
            BY <2>1, <3>1, <4>1
          <5>2. Announces(v)' /\ Subject(v)' = <<b, n>> /\ SaysSo(v)'
            BY <3>0, <5>1 DEF Announces, Subject, SaysSo
          <5> QED BY <5>2 DEF ToldOf
        <4>2. CASE ~(b = a /\ n = m)
          <5>1. ToldOf(b, n) /\ Mine(b, n)' = Mine(b, n)
            BY <2>1, <2>5, <3>1, <4>2 DEF MachinesAreKnown
          <5>2. ASSUME NEW w \in Visits, Announces(w), Subject(w) = <<b, n>>, SaysSo(w)
                PROVE  Announces(w)' /\ Subject(w)' = <<b, n>> /\ SaysSo(w)'
            <6>1. visit'[w] = visit[w]
              BY <1>4, <2>1, <2>3, <2>5, <5>2
            <6>2. visit[w].account = b /\ visit[w].id = n
              BY <5>2 DEF Subject
            <6> QED BY <5>1, <5>2, <6>1, <6>2 DEF Announces, Subject, SaysSo
          <5> QED BY <2>1, <5>1, <5>2 DEF ToldOf
        <4> QED BY <4>1, <4>2
      <3>5. MachineKept
        BY <2>1, <2>5, <3>1 DEF MachineKept, MachineKeepsItsOwner, OnlyOfflineMachinesLeave
      <3> QED BY <3>2, <3>3, <3>4, <3>5
    <2>6. CASE UNCHANGED machine /\ visit' = [visit EXCEPT ![v].at = "done"]
      <3>1. ClosersLookedBefore'
        BY <1>4, <2>1, <2>6 DEF ClosersLookedBefore
      <3>2. MachinesAreKnown'
        BY <1>0, <1>4, <2>1, <2>3, <2>6
      <3> QED BY <1>4, <2>1, <2>6, <3>1, <3>2 DEF MachineKept, MachineKeepsItsOwner, OnlyOfflineMachinesLeave
    <2> QED BY <2>2, <2>4, <2>5, <2>6
  <1>6. ASSUME NEW v \in Visits, ArchiveMachine(v) PROVE MachinesInv' /\ MachineKept
    <2>0. PICK a \in Owners, m \in MachineIds : a = visit[v].account /\ m = visit[v].id
      BY <1>6 DEF ArchiveMachine, Acts, Visit
    <2>1. /\ visit[v] # None /\ visit' = [visit EXCEPT ![v].at = "done"] /\ UNCHANGED <<accessKeys, announced, amiss, woken>>
          /\ visit[v].kind = "archive" /\ visit[v].at = "write"
          /\ machine' = [machine EXCEPT ![m] = IF Mine(a, m) THEN [@ EXCEPT !.archived = TRUE] ELSE @]
      BY <1>6, <2>0 DEF ArchiveMachine, Acts
    <2>2. Mine(a, m) /\ machine[m].active => v \in woken
      BY <2>0, <2>1 DEF ClosersLookedBefore
    <2>3. CASE Mine(a, m)
      <3> DEFINE rec == [machine[m] EXCEPT !.archived = TRUE]
      <3>1. /\ rec \in Machine /\ rec.accountId = machine[m].accountId /\ rec.active = machine[m].active
            /\ machine' = [machine EXCEPT ![m] = rec]
        BY <2>1, <2>3 DEF Machine
      <3> HIDE DEF rec
      <3>2. MachinesTypeOK'
        <4>1. visit' \in [Visits -> Visit \cup {None}]
          BY <1>4, <2>1
        <4>2. machine' \in [MachineIds -> Machine \cup {None}]
          BY <2>0, <3>1
        <4> QED BY <2>1, <4>1, <4>2
      <3>3. ClosersLookedBefore'
        BY <1>4, <2>1, <2>3, <3>1 DEF ClosersLookedBefore
      <3>4. MachinesAreKnown'
        <4>1. \A b \in Owners, n \in MachineIds : Mine(b, n)' = Mine(b, n)
          BY <2>1, <2>3, <3>1
        <4>2. \A w \in Visits : Announces(w) => visit'[w] = visit[w]
          BY <1>4, <2>1 DEF Announces
        <4>3. \A n \in MachineIds : machine[n] # None => machine'[n] # None
          BY <2>1, <3>1, MachinesAssumption
        <4> QED BY <1>0, <2>1, <4>1, <4>2, <4>3
      <3>5. MachineKept
        BY <1>4, <2>0, <2>1, <2>2, <2>3, <3>1 DEF MachineKept, MachineKeepsItsOwner, OnlyOfflineMachinesLeave
      <3> QED BY <3>2, <3>3, <3>4, <3>5
    <2>4. CASE ~Mine(a, m)
      <3>1. UNCHANGED machine
        BY <2>1, <2>4
      <3>2. ClosersLookedBefore'
        BY <1>4, <2>1, <3>1 DEF ClosersLookedBefore
      <3>3. MachinesAreKnown'
        <4>1. \A w \in Visits : Announces(w) => visit'[w] = visit[w]
          BY <1>4, <2>1 DEF Announces
        <4> QED BY <1>0, <2>1, <3>1, <4>1
      <3> QED BY <1>4, <2>1, <3>1, <3>2, <3>3 DEF MachineKept, MachineKeepsItsOwner, OnlyOfflineMachinesLeave
    <2> QED BY <2>3, <2>4
  <1>7. ASSUME NEW v \in Visits, RemoveMachine(v) PROVE MachinesInv' /\ MachineKept
    <2>0. PICK a \in Owners, m \in MachineIds : a = visit[v].account /\ m = visit[v].id
      BY <1>7 DEF RemoveMachine, Acts, Visit
    <2>1. /\ visit[v] # None /\ visit' = [visit EXCEPT ![v].at = "announce"] /\ UNCHANGED <<announced, amiss, woken>>
          /\ visit[v].kind = "delete" /\ visit[v].at = "write"
          /\ IF Mine(a, m) THEN machine' = [machine EXCEPT ![m] = None] /\ accessKeys' = accessKeys \ {m}
             ELSE UNCHANGED <<machine, accessKeys>>
      BY <1>7, <2>0 DEF RemoveMachine, Acts, KeysWithout
    <2>2. Mine(a, m) /\ machine[m].active => v \in woken
      BY <2>0, <2>1 DEF ClosersLookedBefore
    <2>3. MachinesTypeOK'
      BY <1>4, <2>1
    <2>4. ClosersLookedBefore'
      <3> SUFFICES ASSUME NEW w \in Visits, visit'[w] # None, visit'[w].at = "write",
                          visit'[w].kind # "register", w \notin woken'
                   PROVE  ~(Mine(visit[w].account, visit[w].id) /\ machine[visit[w].id].active)'
        BY DEF ClosersLookedBefore
      <3>1. w # v /\ visit'[w] = visit[w] /\ w \notin woken
        BY <1>4, <2>1
      <3>2. visit[w].id \in MachineIds
        BY <3>1 DEF Visit
      <3>3. ~(Mine(visit[w].account, visit[w].id) /\ machine[visit[w].id].active)
        BY <3>1 DEF ClosersLookedBefore
      <3>4. machine'[visit[w].id] = machine[visit[w].id] \/ machine'[visit[w].id] = None
        BY <2>1, <3>2
      <3> QED BY <3>1, <3>3, <3>4
    <2>5. MachinesAreKnown'
      <3> SUFFICES ASSUME NEW b \in Owners, NEW n \in MachineIds PROVE ToldOf(b, n)'
        BY <2>1 DEF MachinesAreKnown
      <3>1. /\ visit'[v] # None /\ visit'[v].at = "announce" /\ visit'[v].kind = "delete"
            /\ visit'[v].account = a /\ visit'[v].id = m /\ ~Mine(a, m)'
        BY <1>4, <2>0, <2>1
      <3>2. CASE b = a /\ n = m
        <4>1. Announces(v)' /\ Subject(v)' = <<b, n>> /\ SaysSo(v)'
          BY <3>1, <3>2 DEF Announces, Subject, SaysSo
        <4> QED BY <4>1 DEF ToldOf
      <3>3. CASE ~(b = a /\ n = m)
        <4>1. ToldOf(b, n) /\ Mine(b, n)' = Mine(b, n)
          BY <2>1, <3>3 DEF MachinesAreKnown
        <4>2. ASSUME NEW w \in Visits, Announces(w), Subject(w) = <<b, n>>, SaysSo(w)
              PROVE  Announces(w)' /\ Subject(w)' = <<b, n>> /\ SaysSo(w)'
          <5>1. visit'[w] = visit[w]
            BY <1>4, <2>1, <4>2 DEF Announces
          <5>2. visit[w].account = b /\ visit[w].id = n
            BY <4>2 DEF Subject
          <5> QED BY <4>1, <4>2, <5>1, <5>2 DEF Announces, Subject, SaysSo
        <4> QED BY <2>1, <4>1, <4>2 DEF ToldOf
      <3> QED BY <3>2, <3>3
    <2>6. MachineKept
      BY <1>4, <2>0, <2>1, <2>2 DEF MachineKept, MachineKeepsItsOwner, OnlyOfflineMachinesLeave
    <2> QED BY <2>3, <2>4, <2>5, <2>6
  \* The clients of the account are told, or not.
  <1>13. ASSUME NEW v \in Visits, Announce(v) \/ AnnounceFails(v) PROVE MachinesInv' /\ MachineKept
    <2>1. /\ visit[v] # None /\ visit[v].at = "announce" /\ visit' = [visit EXCEPT ![v].at = "done"]
          /\ UNCHANGED <<machine, accessKeys, woken>> /\ Subject(v) \in Owners \X MachineIds
      BY <1>13 DEF Announce, AnnounceFails, Announces, Visit, Subject
    <2>2. /\ announced' \subseteq Owners \X MachineIds /\ amiss' \subseteq Owners \X MachineIds
          /\ \A s \in (Owners \X MachineIds) \ {Subject(v)} :
                (s \in announced' <=> s \in announced) /\ (s \in amiss' <=> s \in amiss)
      BY <1>13, <2>1 DEF Announce, AnnounceFails
    <2>3. Subject(v) \in amiss' \/ (SaysSo(v) /\ (Subject(v) \in announced' <=> visit[v].kind = "register"))
      BY <1>13 DEF Announce, AnnounceFails
    <2>4. MachinesTypeOK' /\ ClosersLookedBefore'
      BY <1>4, <2>1, <2>2 DEF ClosersLookedBefore
    <2>5. ASSUME NEW b \in Owners, NEW n \in MachineIds PROVE ToldOf(b, n)'
      <3>1. CASE <<b, n>> = Subject(v)
        <4>1. visit[v].account = b /\ visit[v].id = n
          BY <3>1 DEF Subject
        <4> QED BY <2>1, <2>3, <3>1, <4>1 DEF ToldOf, SaysSo
      <3>2. CASE <<b, n>> # Subject(v)
        <4>1. ToldOf(b, n) /\ Mine(b, n)' = Mine(b, n)
          BY <2>1 DEF MachinesAreKnown
        <4>2. ASSUME NEW w \in Visits, Announces(w), Subject(w) = <<b, n>>, SaysSo(w)
              PROVE  Announces(w)' /\ Subject(w)' = <<b, n>> /\ SaysSo(w)'
          <5>1. visit'[w] = visit[w]
            BY <1>4, <2>1, <3>2, <4>2
          <5> QED BY <2>1, <4>2, <5>1 DEF Announces, Subject, SaysSo
        <4> QED BY <2>2, <3>2, <4>1, <4>2 DEF ToldOf
      <3> QED BY <3>1, <3>2
    <2>6. MachinesAreKnown'
      BY <2>1, <2>5 DEF MachinesAreKnown
    <2>7. MachineKept
      BY <2>1 DEF MachineKept, MachineKeepsItsOwner, OnlyOfflineMachinesLeave
    <2> QED BY <2>4, <2>6, <2>7
  <1>8. ASSUME NEW a \in Owners, NEW m \in MachineIds, UnarchiveMachine(a, m) PROVE MachinesInv' /\ MachineKept
    <2> DEFINE rec == [machine[m] EXCEPT !.archived = FALSE]
    <2>1. /\ rec \in Machine /\ rec.accountId = machine[m].accountId /\ rec.active = machine[m].active /\ ~rec.archived
          /\ machine' = [machine EXCEPT ![m] = rec] /\ machine[m] # None
          /\ UNCHANGED <<accessKeys, visit, announced, amiss, woken>>
      BY <1>8 DEF UnarchiveMachine, Machine
    <2> HIDE DEF rec
    <2>2. ClosersLookedBefore'
      BY <2>1 DEF ClosersLookedBefore
    <2>3. MachinesAreKnown'
      BY <1>0, <2>1
    <2> QED BY <2>1, <2>2, <2>3 DEF MachineKept, MachineKeepsItsOwner, OnlyOfflineMachinesLeave
  <1>9. ASSUME NEW m \in MachineIds, ComeOnline(m) PROVE MachinesInv' /\ MachineKept
    <2> DEFINE rec == [machine[m] EXCEPT !.active = TRUE]
    <2>1. /\ rec \in Machine /\ rec.accountId = machine[m].accountId /\ rec.archived = machine[m].archived
          /\ machine' = [machine EXCEPT ![m] = rec] /\ machine[m] # None
          /\ UNCHANGED <<accessKeys, visit, announced, amiss>>
          /\ woken' = woken \cup {v \in Visits : visit[v] # None /\ visit[v].at = "write" /\ visit[v].id = m}
      BY <1>9 DEF ComeOnline, Machine
    <2> HIDE DEF rec
    <2>2. ClosersLookedBefore'
      BY <2>1 DEF ClosersLookedBefore
    <2>3. MachinesAreKnown'
      BY <1>0, <2>1
    <2> QED BY <2>1, <2>2, <2>3 DEF MachineKept, MachineKeepsItsOwner, OnlyOfflineMachinesLeave
  <1>10. ASSUME NEW m \in MachineIds, GoOffline(m) PROVE MachinesInv' /\ MachineKept
    <2> DEFINE rec == [machine[m] EXCEPT !.active = FALSE]
    <2>1. /\ rec \in Machine /\ rec.accountId = machine[m].accountId /\ rec.archived = machine[m].archived /\ ~rec.active
          /\ machine' = [machine EXCEPT ![m] = rec] /\ machine[m] # None
          /\ UNCHANGED <<accessKeys, visit, announced, amiss, woken>>
      BY <1>10 DEF GoOffline, Machine
    <2> HIDE DEF rec
    <2>2. ClosersLookedBefore'
      BY <2>1 DEF ClosersLookedBefore
    <2>3. MachinesAreKnown'
      BY <1>0, <2>1
    <2> QED BY <2>1, <2>2, <2>3 DEF MachineKept, MachineKeepsItsOwner, OnlyOfflineMachinesLeave
  <1>11. ASSUME NEW m \in MachineIds, GrantKey(m) PROVE MachinesInv' /\ MachineKept
    <2>1. MachinesAreKnown'
      BY <1>11 DEF GrantKey, MachinesAreKnown, ToldOf, Announces, Subject, SaysSo
    <2> QED BY <1>11, <2>1 DEF GrantKey, ClosersLookedBefore, MachineKept, MachineKeepsItsOwner, OnlyOfflineMachinesLeave
  <1>12. CASE UNCHANGED machineVars
    BY <1>0, <1>12 DEF machineVars, ClosersLookedBefore, MachineKept, MachineKeepsItsOwner, OnlyOfflineMachinesLeave
  <1> QED BY <1>2, <1>3, <1>5, <1>6, <1>7, <1>8, <1>9, <1>10, <1>11, <1>12, <1>13 DEF MachinesNext

\* However registrations and removals interleave with machines that come and go
\* (machinesRoutes), a machine keeps its owner and only offline ones leave, for any
\* accounts, machines and requests.
THEOREM MachinesAlwaysStay == MachinesSpec => MachinesStay
  <1>1. MachinesInv /\ [MachinesNext]_machineVars
        => MachinesInv' /\ [MachineKeepsItsOwner /\ OnlyOfflineMachinesLeave /\ MachinesAreKnown']_machineVars
    BY MachinesNextInv DEF MachineKept, MachinesInv
  <1> QED BY <1>1, MachinesInitInv, PTL DEF MachinesSpec, MachinesStay

=============================================================================
