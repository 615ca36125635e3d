--------------------------- MODULE PresenceProofs ---------------------------
(***************************************************************************)
(* No interleaving of heartbeats, flushes, timers, sweeps and restarts     *)
(* makes the row claim more than was heard of the subject, for any number  *)
(* of sockets, any delays and any intervals.  Heartbeats in time keep the  *)
(* row fresh, and a timer of a user with one socket spares the connected.  *)
(***************************************************************************)
EXTENDS Presence, TLAPS

-----------------------------------------------------------------------------
(* The inductive invariant: every stamp on its way to the row is honest.    *)

CacheHonest == cache # None /\ cache.pending # None => cache.pending >= quiet
BeatHonest == beat # None => beat.at >= quiet
OpsHonest == \A x \in Slots : op[x] # None /\ op[x].kind \in Stamps => op[x].at >= quiet

Honest == ActivityIsNeverOverstated /\ CacheHonest /\ BeatHonest /\ OpsHonest
IInv == TypeOK /\ Honest

-----------------------------------------------------------------------------
(* The helpers.                                                             *)

\* Ageing stays within the ages and keeps their order.
LEMMA OlderAges ==
    ASSUME NEW a \in Ages, NEW b \in Ages
    PROVE  /\ Older(a) \in Ages
           /\ Older(None) = None
           /\ a >= b => Older(a) >= Older(b)
  BY PresenceAssumption DEF Older, Ages

\* A countdown stays within its bound, and at zero.
LEMMA EarlierBound ==
    ASSUME NEW m \in Nat, NEW n \in 0 .. m
    PROVE  Earlier(n) \in 0 .. m /\ Earlier(None) = None
  BY PresenceAssumption DEF Earlier

\* The earlier of two ages is one of them.
LEMMA LeastAge ==
    ASSUME NEW a \in Ages, NEW b \in Ages
    PROVE  Least(a, b) \in Ages /\ a >= Least(a, b) /\ b >= Least(a, b)
  BY PresenceAssumption DEF Least, Ages

\* Queueing a heartbeat changes only the pending stamp.
LEMMA QueuedEntry ==
    ASSUME NEW e \in Entry, NEW a \in Ages
    PROVE  /\ Queued(e, a) \in Entry
           /\ Queued(e, a).pending \in {e.pending, a}
           /\ Queued(e, a) # None
  <1>1. None \notin Entry
    BY PresenceAssumption
  <1> QED BY <1>1 DEF Queued, Entry

-----------------------------------------------------------------------------
(* What the actions have in common.                                         *)

\* A later word makes no stamp dishonest.
LEMMA WordKeeps ==
    ASSUME TypeOK, Honest, quiet' \in Ages, quiet >= quiet'
    PROVE  /\ row' = row => ActivityIsNeverOverstated'
           /\ cache' = cache \/ cache' = None => CacheHonest'
           /\ beat' = beat \/ beat' = None => BeatHonest'
           /\ op' = op => OpsHonest'
  <1>1. quiet \in Nat /\ quiet' \in Nat
    BY PresenceAssumption DEF TypeOK, Ages
  <1>2. row' = row => ActivityIsNeverOverstated'
    BY <1>1, PresenceAssumption DEF TypeOK, Honest, ActivityIsNeverOverstated, Ages
  <1>3. cache' = cache \/ cache' = None => CacheHonest'
    <2> SUFFICES ASSUME cache' = cache, cache # None, cache.pending # None
                 PROVE  cache.pending >= quiet'
      BY DEF CacheHonest
    <2>1. cache.pending \in Nat /\ cache.pending >= quiet
      BY PresenceAssumption DEF TypeOK, Honest, CacheHonest, Entry, Ages
    <2> QED BY <1>1, <2>1
  <1>4. beat' = beat \/ beat' = None => BeatHonest'
    <2> SUFFICES ASSUME beat' = beat, beat # None
                 PROVE  beat.at >= quiet'
      BY DEF BeatHonest
    <2>1. beat.at \in Nat /\ beat.at >= quiet
      BY PresenceAssumption DEF TypeOK, Honest, BeatHonest, Asked, Ages
    <2> QED BY <1>1, <2>1
  <1>5. op' = op => OpsHonest'
    <2> SUFFICES ASSUME op' = op, NEW x \in Slots, op[x] # None, op[x].kind \in Stamps
                 PROVE  op[x].at >= quiet'
      BY DEF OpsHonest
    <2>1. op[x].at \in Nat /\ op[x].at >= quiet
      BY PresenceAssumption DEF TypeOK, Honest, OpsHonest, Query, Ages
    <2> QED BY <1>1, <2>1
  <1> QED BY <1>2, <1>3, <1>4, <1>5

\* A query that is honest when it is sent joins honest ones.
LEMMA SendHonest ==
    ASSUME TypeOK, Honest, quiet' \in Ages, quiet >= quiet',
           NEW x \in Slots, NEW kind \in Kinds, NEW at \in Ages,
           kind \in Stamps => at >= quiet',
           Send(x, kind, at)
    PROVE  op' \in [Slots -> {None} \cup Query] /\ OpsHonest'
  <1> DEFINE q == [kind |-> kind, at |-> at, pc |-> "sent", hit |-> FALSE]
  <1>1. q \in Query /\ q.kind = kind /\ q.at = at
    BY DEF Query
  <1>2. op' = [op EXCEPT ![x] = q] /\ op \in [Slots -> {None} \cup Query]
    BY DEF Send, TypeOK
  <1> HIDE DEF q
  <1>3. op' \in [Slots -> {None} \cup Query]
    BY <1>1, <1>2
  <1>4. ASSUME NEW y \in Slots, op'[y] # None, op'[y].kind \in Stamps
        PROVE  op'[y].at >= quiet'
    <2>1. CASE y = x
      BY <1>1, <1>2, <1>4, <2>1
    <2>2. CASE y # x
      <3>1. op'[y] = op[y]
        BY <1>2, <2>2
      <3>2. op[y].at \in Nat /\ quiet \in Nat /\ quiet' \in Nat /\ op[y].at >= quiet
        BY <1>4, <3>1, PresenceAssumption DEF TypeOK, Honest, OpsHonest, Query, Ages
      <3> QED BY <3>1, <3>2
    <2> QED BY <2>1, <2>2
  <1> QED BY <1>3, <1>4 DEF OpsHonest

\* Removing a query leaves honest ones.
LEMMA RemoveHonest ==
    ASSUME TypeOK, Honest, quiet' = quiet, NEW x \in Slots,
           op' = [op EXCEPT ![x] = None]
    PROVE  op' \in [Slots -> {None} \cup Query] /\ OpsHonest'
  BY DEF TypeOK, Honest, OpsHonest

\* The socket that waited for the query is connected.
LEMMA JoinedType ==
    ASSUME TypeOK, NEW x
    PROVE  Joined(x) \in [Sockets -> {"off", "joining", "on"}]
  BY DEF TypeOK, Joined

-----------------------------------------------------------------------------
(* One lemma per group of actions.                                          *)

LEMMA ApplyInv ==
    ASSUME IInv, NEW x \in Slots, Apply(x)
    PROVE  IInv'
  <1> DEFINE q == op[x]
             k == [q EXCEPT !.pc = "applied", !.hit = Hits(q)]
  <1> USE DEF Apply
  <1>1. q \in Query /\ Hits(q) \in BOOLEAN
    BY DEF IInv, TypeOK, Hits
  <1>2. k \in Query /\ k.kind = q.kind /\ k.at = q.at /\ k # None
    BY <1>1, PresenceAssumption DEF Query
  <1>3. op' = [op EXCEPT ![x] = k] /\ op \in [Slots -> {None} \cup Query] /\ quiet' = quiet
    BY DEF IInv, TypeOK
  <1>4. q.kind \in Stamps => q.at >= quiet
    BY DEF IInv, Honest, OpsHonest
  <1>5. Written(q) \in [active : BOOLEAN, age : Ages, gone : BOOLEAN]
        /\ Written(q).age >= quiet
    BY <1>1, <1>4 DEF IInv, TypeOK, Honest, ActivityIsNeverOverstated, Written, Query
  <1>6. row' \in [active : BOOLEAN, age : Ages, gone : BOOLEAN] /\ row'.age >= quiet
    BY <1>5 DEF IInv, TypeOK, Honest, ActivityIsNeverOverstated
  <1>7. UNCHANGED <<setting, cache, beat, sock, timers, held, quiet, faults>>
    BY DEF links
  <1> HIDE DEF k, Apply
  <1>8. op' \in [Slots -> {None} \cup Query] /\ OpsHonest'
    <2>1. op' \in [Slots -> {None} \cup Query]
      BY <1>2, <1>3
    <2>2. ASSUME NEW y \in Slots, op'[y] # None, op'[y].kind \in Stamps
          PROVE  op'[y].at >= quiet'
      BY <1>2, <1>3, <1>4, <2>2 DEF IInv, Honest, OpsHonest
    <2> QED BY <2>1, <2>2 DEF OpsHonest
  <1> QED BY <1>6, <1>7, <1>8 DEF IInv, TypeOK, Honest, ActivityIsNeverOverstated, CacheHonest, BeatHonest

LEMMA AnswerInv ==
    ASSUME IInv, NEW x \in Slots, Answer(x) \/ Fail(x)
    PROVE  IInv'
  <1>1. /\ op' = [op EXCEPT ![x] = None]
        /\ sock' = Joined(x)
        /\ cache' = cache \/ cache' = None
        /\ UNCHANGED <<setting, row, beat, timers, held, quiet>>
    BY DEF Answer, Fail
  <1>2. faults' \in 0 .. MaxFaults
    BY PresenceAssumption DEF IInv, TypeOK, Answer, Fail
  <1>3. TypeOK /\ Honest /\ quiet' \in Ages /\ quiet >= quiet'
    BY <1>1 DEF IInv, TypeOK, Ages
  <1>4. op' \in [Slots -> {None} \cup Query] /\ OpsHonest'
    BY <1>1, <1>3, RemoveHonest
  <1>5. ActivityIsNeverOverstated' /\ CacheHonest' /\ BeatHonest'
    BY <1>1, <1>3, WordKeeps
  <1>6. TypeOK'
    BY <1>1, <1>2, <1>3, <1>4, JoinedType DEF TypeOK
  <1> QED BY <1>4, <1>5, <1>6 DEF IInv, Honest

\* The entry a heartbeat found.
LEMMA BeatHitInv ==
    ASSUME IInv, NEW a \in Ages, BeatHit(a)
    PROVE  IInv'
  <1>1. TypeOK /\ Honest /\ cache \in Entry /\ quiet \in Ages
    BY DEF IInv, TypeOK, BeatHit, Fresh
  <1>2. cache' = Queued(cache, a) /\ quiet' = Least(quiet, a)
        /\ UNCHANGED <<setting, row, beat, op, sock, timers, held, faults>>
    BY DEF BeatHit, links
  <1>3. quiet' \in Ages /\ quiet >= quiet' /\ a >= quiet'
    BY <1>1, <1>2, LeastAge
  <1>4. cache' \in Entry /\ cache'.pending \in {cache.pending, a} /\ cache # None
    BY <1>1, <1>2, QueuedEntry, PresenceAssumption
  <1>5. CacheHonest'
    <2>1. CASE cache'.pending = a
      BY <1>3, <2>1 DEF CacheHonest
    <2>2. CASE cache'.pending = cache.pending
      <3> SUFFICES ASSUME cache.pending # None
                   PROVE  cache.pending >= quiet'
        BY <2>2 DEF CacheHonest
      <3>1. cache.pending \in Nat /\ cache.pending >= quiet /\ quiet \in Nat /\ quiet' \in Nat
        BY <1>1, <1>3, <1>4, PresenceAssumption DEF Honest, CacheHonest, Entry, Ages
      <3> QED BY <1>3, <3>1
    <2> QED BY <1>4, <2>1, <2>2
  <1>6. ActivityIsNeverOverstated' /\ BeatHonest' /\ OpsHonest'
    BY <1>1, <1>2, <1>3, WordKeeps
  <1>7. TypeOK'
    BY <1>1, <1>2, <1>3, <1>4 DEF TypeOK
  <1> QED BY <1>5, <1>6, <1>7 DEF IInv, Honest

LEMMA BeatMissInv ==
    ASSUME IInv, NEW a \in Ages, BeatMiss(a)
    PROVE  IInv'
  <1>1. TypeOK /\ Honest /\ quiet \in Ages
    BY DEF IInv, TypeOK
  <1>2. beat' = [life |-> TTL, at |-> a, told |-> None] /\ quiet' = Least(quiet, a)
        /\ UNCHANGED <<setting, row, cache, op, sock, timers, held, faults>>
    BY DEF BeatMiss, links
  <1>3. quiet' \in Ages /\ quiet >= quiet' /\ a >= quiet'
    BY <1>1, <1>2, LeastAge
  <1>4. beat' \in Asked /\ BeatHonest'
    BY <1>2, <1>3, PresenceAssumption DEF Asked, BeatHonest
  <1>5. ActivityIsNeverOverstated' /\ CacheHonest' /\ OpsHonest'
    BY <1>1, <1>2, <1>3, WordKeeps
  <1>6. TypeOK'
    BY <1>1, <1>2, <1>3, <1>4 DEF TypeOK
  <1> QED BY <1>4, <1>5, <1>6 DEF IInv, Honest

\* The heartbeat that asked the database, until its entry is cached.
LEMMA BeatReadInv ==
    ASSUME IInv, Read \/ ReadFails \/ BeatCached
    PROVE  IInv'
  <1>1. TypeOK /\ Honest /\ quiet \in Ages /\ quiet >= quiet /\ beat \in Asked
    BY DEF IInv, TypeOK, Read, ReadFails, BeatCached, Ages
  <1>2. beat.at \in Ages /\ beat.at >= quiet /\ beat # None
    BY <1>1, PresenceAssumption DEF Asked, Honest, BeatHonest
  <1>3. UNCHANGED <<setting, row, op, sock, timers, held, quiet>>
    BY DEF Read, ReadFails, BeatCached, links
  <1>4. ActivityIsNeverOverstated' /\ OpsHonest'
    BY <1>1, <1>3, WordKeeps
  <1>5. CASE Read
    <2>1. beat' = [beat EXCEPT !.told = row.age] /\ UNCHANGED <<setting, cache, faults>>
      BY <1>5 DEF Read
    <2>2. beat' \in Asked /\ beat'.at = beat.at
      BY <1>1, <2>1 DEF TypeOK, Asked
    <2>3. BeatHonest'
      BY <1>2, <1>3, <2>2 DEF BeatHonest
    <2>4. CacheHonest'
      BY <1>1, <1>3, <2>1, WordKeeps
    <2> QED BY <1>1, <1>3, <1>4, <2>1, <2>2, <2>3, <2>4 DEF IInv, TypeOK, Honest
  <1>6. CASE ReadFails
    <2>1. beat' = None /\ cache' = cache /\ faults' \in 0 .. MaxFaults
      BY <1>1, <1>6, PresenceAssumption DEF ReadFails, TypeOK
    <2>2. BeatHonest' /\ CacheHonest'
      BY <1>1, <1>3, <2>1, WordKeeps
    <2> QED BY <1>1, <1>3, <1>4, <2>1, <2>2 DEF IInv, TypeOK, Honest
  <1>7. CASE BeatCached
    <2> DEFINE e == [life |-> beat.life, sent |-> beat.told, pending |-> None]
    <2>1. e \in Entry /\ e.pending = None
      BY <1>1, <1>7 DEF BeatCached, Asked, Entry
    <2>2. cache' = Queued(e, beat.at) /\ beat' = None /\ faults' = faults
      BY <1>7 DEF BeatCached
    <2> HIDE DEF e
    <2>3. cache' \in Entry /\ cache'.pending \in {None, beat.at}
      BY <1>2, <2>1, <2>2, QueuedEntry
    <2>4. CacheHonest' /\ BeatHonest'
      BY <1>2, <1>3, <2>2, <2>3 DEF CacheHonest, BeatHonest
    <2> QED BY <1>1, <1>3, <1>4, <2>2, <2>3, <2>4 DEF IInv, TypeOK, Honest
  <1> QED BY <1>5, <1>6, <1>7

LEMMA FlushInv ==
    ASSUME IInv, Flush
    PROVE  IInv'
  <1>1. TypeOK /\ Honest /\ quiet \in Ages /\ quiet >= quiet /\ cache \in Entry
    BY DEF IInv, TypeOK, Flush, Ages
  <1>2. cache.pending \in Ages /\ cache.pending >= quiet
    BY <1>1, PresenceAssumption DEF Flush, Entry, Honest, CacheHonest
  <1>3. /\ Send("flush", "flush", cache.pending)
        /\ cache' = [cache EXCEPT !.sent = cache.pending, !.pending = None]
        /\ UNCHANGED <<setting, row, beat, sock, timers, held, quiet, faults>>
    BY DEF Flush, Stamp, links
  <1>4. op' \in [Slots -> {None} \cup Query] /\ OpsHonest'
    BY <1>1, <1>2, <1>3, SendHonest DEF Slots, Desks, Kinds, TurnsOn
  <1>5. cache' \in Entry /\ cache'.pending = None
    BY <1>1, <1>2, <1>3 DEF Entry
  <1>6. CacheHonest'
    BY <1>5 DEF CacheHonest
  <1>7. ActivityIsNeverOverstated' /\ BeatHonest'
    BY <1>1, <1>3, WordKeeps
  <1>8. TypeOK'
    BY <1>1, <1>3, <1>4, <1>5 DEF TypeOK
  <1> QED BY <1>4, <1>6, <1>7, <1>8 DEF IInv, Honest

\* The actions that only send a query, perhaps with a word of the subject.
LEMMA SendingInv ==
    ASSUME IInv, NEW x \in Slots, NEW kind \in Kinds, NEW at \in Ages,
           Send(x, kind, at),
           quiet' \in Ages, quiet >= quiet', kind \in Stamps => at >= quiet',
           UNCHANGED <<setting, row, cache, beat, faults>>,
           sock' \in [Sockets -> {"off", "joining", "on"}],
           timers' \in [Sockets -> 0 .. Grace \cup {None}],
           held' \in Sockets \cup {None}
    PROVE  IInv'
  <1>1. op' \in [Slots -> {None} \cup Query] /\ OpsHonest'
    BY SendHonest DEF IInv
  <1>2. ActivityIsNeverOverstated' /\ CacheHonest' /\ BeatHonest'
    BY WordKeeps DEF IInv
  <1>3. TypeOK'
    BY <1>1 DEF IInv, TypeOK
  <1> QED BY <1>1, <1>2, <1>3 DEF IInv, Honest

\* The actions of sockets: a connection and a fired timer are words.
LEMMA SocketInv ==
    ASSUME IInv, NEW s \in Sockets,
           Connect(s) \/ Drop(s) \/ Disconnect(s) \/ Fire(s)
    PROVE  IInv'
  <1>1. /\ TypeOK /\ quiet \in Ages /\ quiet >= quiet /\ quiet >= 0 /\ 0 \in Ages
        /\ Grace \in 0 .. Grace /\ UNCHANGED <<setting, row, cache, beat, faults>>
    BY PresenceAssumption DEF IInv, TypeOK, Ages, Connect, Drop, Disconnect, Fire
  <1>2. sock' \in [Sockets -> {"off", "joining", "on"}]
    BY <1>1 DEF TypeOK, Connect, Drop, Disconnect, Fire
  <1>3. timers' \in [Sockets -> 0 .. Grace \cup {None}]
    <2>1. timers \in [Sockets -> 0 .. Grace \cup {None}]
      BY <1>1 DEF TypeOK
    <2>2. CASE Connect(s)
      BY <2>1, <2>2 DEF Connect
    <2>3. CASE Drop(s)
      BY <2>1, <2>3 DEF Drop
    <2>4. CASE Disconnect(s)
      BY <1>1, <2>1, <2>4 DEF Disconnect
    <2>5. CASE Fire(s)
      BY <2>1, <2>5 DEF Fire
    <2> QED BY <2>2, <2>3, <2>4, <2>5
  <1>4. held' \in Sockets \cup {None}
    BY <1>1 DEF TypeOK, Connect, Drop, Disconnect, Fire
  <1>5. CASE Connect(s)
    <2>1. Send(s, "observe", 0) /\ quiet' = 0 /\ s \in Slots /\ "observe" \in Kinds
      BY <1>5 DEF Connect, Slots, Kinds, TurnsOn
    <2> QED BY <1>1, <1>2, <1>3, <1>4, <2>1, SendingInv
  <1>6. CASE Fire(s)
    <2>1. Send("grace", "grace", 0) /\ quiet' = 0 /\ "grace" \in Slots /\ "grace" \in Kinds
      BY <1>6 DEF Fire, Slots, Desks, Kinds, TurnsOff
    <2> QED BY <1>1, <1>2, <1>3, <1>4, <2>1, SendingInv
  <1>7. CASE Drop(s) \/ Disconnect(s)
    <2>1. op' = op /\ quiet' = quiet
      BY <1>7 DEF Drop, Disconnect
    <2>2. Honest'
      BY <1>1, <2>1, WordKeeps DEF IInv, Honest
    <2> QED BY <1>1, <1>2, <1>3, <1>4, <2>1, <2>2 DEF IInv, TypeOK
  <1> QED BY <1>5, <1>6, <1>7

\* The other senders of queries.
LEMMA RequestInv ==
    ASSUME IInv,
           \/ Sweep \/ Http \/ DaemonState \/ ReportDead \/ Shelve \/ Restore \/ Archive \/ Unarchive
           \/ \E a \in BeatAges : SessionEnd(a)
    PROVE  IInv'
  <1>1. /\ TypeOK /\ quiet \in Ages /\ quiet >= quiet /\ quiet >= 0 /\ 0 \in Ages
    BY PresenceAssumption DEF IInv, TypeOK, Ages
  <1>2. UNCHANGED <<setting, row, cache, beat, sock, timers, held, faults>>
    BY DEF Sweep, Http, DaemonState, ReportDead, Shelve, Restore, Archive, Unarchive, SessionEnd, links
  <1>3. /\ sock' \in [Sockets -> {"off", "joining", "on"}]
        /\ timers' \in [Sockets -> 0 .. Grace \cup {None}]
        /\ held' \in Sockets \cup {None}
    BY <1>1, <1>2 DEF TypeOK
  <1>4. ASSUME NEW x \in Slots, NEW kind \in Kinds \ Stamps, Send(x, kind, 0), quiet' = quiet
        PROVE  IInv'
    BY <1>1, <1>2, <1>3, <1>4, SendingInv
  <1>5. CASE Http
    <2> DEFINE kind == IF Session THEN "observe" ELSE "register"
    <2>1. Send("http", kind, 0) /\ quiet' = 0 /\ "http" \in Slots /\ kind \in Kinds
      BY <1>5 DEF Http, Slots, Desks, Kinds, TurnsOn
    <2> HIDE DEF kind
    <2> QED BY <1>1, <1>2, <1>3, <2>1, SendingInv
  <1>6. ASSUME NEW a \in BeatAges, SessionEnd(a)
        PROVE  IInv'
    <2>1. Send("end", "end", a) /\ quiet' = Least(quiet, a) /\ "end" \in Slots
          /\ "end" \in Kinds /\ a \in Ages
      BY <1>6, PresenceAssumption DEF SessionEnd, Slots, Desks, Kinds, TurnsOff
    <2>2. quiet' \in Ages /\ quiet >= quiet' /\ a >= quiet'
      BY <1>1, <2>1, LeastAge
    <2> QED BY <1>1, <1>2, <1>3, <2>1, <2>2, SendingInv
  <1>7. CASE Sweep
    BY <1>4, <1>7 DEF Sweep, Slots, Desks, Kinds, TurnsOff, Stamps
  <1>8. CASE ReportDead
    BY <1>4, <1>8 DEF ReportDead, Slots, Desks, Kinds, TurnsOff, Stamps
  <1>9. CASE Shelve
    BY <1>4, <1>9 DEF Shelve, Slots, Desks, Kinds, TurnsOff, Stamps
  <1>10. CASE Restore
    BY <1>4, <1>10 DEF Restore, Slots, Desks, Kinds, TurnsOn, Stamps
  <1>11. CASE Archive
    BY <1>4, <1>11 DEF Archive, Slots, Desks, Kinds, Stamps
  <1>12. CASE Unarchive
    BY <1>4, <1>12 DEF Unarchive, Slots, Desks, Kinds, Stamps
  <1>13. CASE DaemonState
    <2>1. Send("http", "state", 0) /\ quiet' = 0 /\ "http" \in Slots /\ "state" \in Kinds
      BY <1>13 DEF DaemonState, Slots, Desks, Kinds, TurnsOn
    <2> QED BY <1>1, <1>2, <1>3, <2>1, SendingInv
  <1> QED BY <1>5, <1>6, <1>7, <1>8, <1>9, <1>10, <1>11, <1>12, <1>13

\* Deletion, cleanup and restarts touch no stamp but to forget it.
LEMMA ForgetInv ==
    ASSUME IInv, Cleanup \/ Delete \/ Restart
    PROVE  IInv'
  <1>1. /\ TypeOK /\ Honest /\ quiet' = quiet /\ quiet' \in Ages /\ quiet >= quiet'
        /\ cache' = cache \/ cache' = None
        /\ beat' = beat \/ beat' = None
    BY DEF IInv, TypeOK, Ages, Cleanup, Delete, Restart
  <1>2. row' \in [active : BOOLEAN, age : Ages, gone : BOOLEAN] /\ row'.age = row.age
    BY <1>1 DEF TypeOK, Cleanup, Delete, Restart
  <1>3. op' \in [Slots -> {None} \cup Query] /\ OpsHonest'
    <2>1. CASE Restart
      BY <2>1 DEF Restart, OpsHonest
    <2>2. CASE Cleanup \/ Delete
      <3>1. op' = op
        BY <2>2 DEF Cleanup, Delete
      <3> QED BY <1>1, <3>1, WordKeeps DEF TypeOK
    <2> QED BY <2>1, <2>2
  <1>4. /\ sock' \in [Sockets -> {"off", "joining", "on"}]
        /\ timers' \in [Sockets -> 0 .. Grace \cup {None}]
        /\ held' \in Sockets \cup {None}
        /\ faults' \in 0 .. MaxFaults /\ setting' \in Settings
    BY <1>1, PresenceAssumption DEF TypeOK, Cleanup, Delete, Restart, links
  <1>5. CacheHonest' /\ BeatHonest'
    BY <1>1, WordKeeps
  <1>6. ActivityIsNeverOverstated'
    BY <1>1, <1>2 DEF Honest, ActivityIsNeverOverstated
  <1>7. TypeOK'
    BY <1>1, <1>2, <1>3, <1>4 DEF TypeOK
  <1> QED BY <1>3, <1>5, <1>6, <1>7 DEF IInv, Honest

\* Time ages the stamps and the last word alike.
LEMMA TickInv ==
    ASSUME IInv, Tick
    PROVE  IInv'
  <1>1. TypeOK /\ Honest /\ quiet \in Ages
    BY DEF IInv, TypeOK
  <1>2. quiet' = Older(quiet) /\ UNCHANGED <<setting, sock, held, faults>>
    BY DEF Tick
  <1>3. \A a \in Ages : Older(a) \in Ages /\ (a >= quiet => Older(a) >= quiet')
    BY <1>1, <1>2, OlderAges
  <1>4. Older(None) = None /\ Earlier(None) = None /\ TTL \in Nat /\ Grace \in Nat
    BY PresenceAssumption DEF Older, Earlier
  <1>5. \A m \in Nat : \A n \in 0 .. m : Earlier(n) \in 0 .. m
    BY EarlierBound
  <1>6. row' \in [active : BOOLEAN, age : Ages, gone : BOOLEAN] /\ ActivityIsNeverOverstated'
    <2>1. row' = [row EXCEPT !.age = Older(row.age)]
      BY DEF Tick
    <2>2. row.age \in Ages /\ row.age >= quiet
      BY <1>1 DEF TypeOK, Honest, ActivityIsNeverOverstated
    <2>3. Older(row.age) \in Ages /\ Older(row.age) >= quiet'
      BY <1>3, <2>2
    <2>4. row' \in [active : BOOLEAN, age : Ages, gone : BOOLEAN] /\ row'.age = Older(row.age)
      BY <1>1, <2>1, <2>3 DEF TypeOK
    <2> QED BY <2>3, <2>4 DEF ActivityIsNeverOverstated
  <1>7. cache' \in {None} \cup Entry /\ CacheHonest'
    <2>1. CASE cache = None
      BY <2>1 DEF Tick, CacheHonest
    <2>2. CASE cache # None
      <3>1. cache' = [life |-> Earlier(cache.life), sent |-> Older(cache.sent),
                      pending |-> Older(cache.pending)]
        BY <2>2 DEF Tick
      <3>2. cache.life \in 0 .. TTL /\ cache.sent \in Ages /\ cache.pending \in Ages \cup {None}
        BY <1>1, <2>2 DEF TypeOK, Entry
      <3>3. Earlier(cache.life) \in 0 .. TTL /\ Older(cache.sent) \in Ages
            /\ Older(cache.pending) \in Ages \cup {None}
        BY <1>3, <1>4, <1>5, <3>2
      <3>4. cache.pending # None => Older(cache.pending) >= quiet'
        BY <1>1, <1>3, <2>2, <3>2 DEF Honest, CacheHonest
      <3>5. cache' \in Entry /\ cache'.pending = Older(cache.pending)
        BY <3>1, <3>3 DEF Entry
      <3> QED BY <1>4, <3>4, <3>5 DEF CacheHonest
    <2> QED BY <2>1, <2>2
  <1>8. beat' \in {None} \cup Asked /\ BeatHonest'
    <2>1. CASE beat = None
      BY <2>1 DEF Tick, BeatHonest
    <2>2. CASE beat # None
      <3>1. beat' = [life |-> Earlier(beat.life), at |-> Older(beat.at),
                     told |-> Older(beat.told)]
        BY <2>2 DEF Tick
      <3>2. beat.life \in 0 .. TTL /\ beat.at \in Ages /\ beat.told \in Ages \cup {None}
        BY <1>1, <2>2 DEF TypeOK, Asked
      <3>3. Earlier(beat.life) \in 0 .. TTL /\ Older(beat.at) \in Ages
            /\ Older(beat.told) \in Ages \cup {None}
        BY <1>3, <1>4, <1>5, <3>2
      <3>4. Older(beat.at) >= quiet'
        BY <1>1, <1>3, <2>2, <3>2 DEF Honest, BeatHonest
      <3>5. beat' \in Asked /\ beat'.at = Older(beat.at)
        BY <3>1, <3>3 DEF Asked
      <3> QED BY <3>4, <3>5 DEF BeatHonest
    <2> QED BY <2>1, <2>2
  <1>9. op' \in [Slots -> {None} \cup Query] /\ OpsHonest'
    <2>1. op' = [x \in Slots |-> IF op[x] = None \/ op[x].kind \notin Stamps THEN op[x]
                                 ELSE [op[x] EXCEPT !.at = Older(op[x].at)]]
      BY DEF Tick
    <2>2. ASSUME NEW x \in Slots
          PROVE  /\ op'[x] \in {None} \cup Query
                 /\ op'[x] # None /\ op'[x].kind \in Stamps => op'[x].at >= quiet'
      <3> DEFINE q == op[x]
                 k == [q EXCEPT !.at = Older(q.at)]
      <3>1. q \in {None} \cup Query
        BY <1>1 DEF TypeOK
      <3>2. CASE q = None \/ q.kind \notin Stamps
        BY <2>1, <3>1, <3>2
      <3>3. CASE q # None /\ q.kind \in Stamps
        <4>1. op'[x] = k
          BY <2>1, <3>3
        <4>2. q \in Query /\ q.at \in Ages /\ q.at >= quiet
          BY <1>1, <3>1, <3>3 DEF Query, Honest, OpsHonest
        <4>3. Older(q.at) \in Ages /\ Older(q.at) >= quiet'
          BY <1>3, <4>2
        <4>4. k \in Query /\ k.at = Older(q.at)
          BY <4>2, <4>3 DEF Query
        <4> HIDE DEF k
        <4> QED BY <4>1, <4>3, <4>4
      <3> QED BY <3>2, <3>3
    <2> HIDE DEF OpsHonest
    <2>3. op' \in [Slots -> {None} \cup Query]
      BY <2>1, <2>2
    <2> QED BY <2>2, <2>3 DEF OpsHonest
  <1>10. timers' \in [Sockets -> 0 .. Grace \cup {None}]
    <2>1. timers' = [s \in Sockets |-> Earlier(timers[s])]
      BY DEF Tick
    <2>2. \A s \in Sockets : Earlier(timers[s]) \in 0 .. Grace \cup {None}
      BY <1>1, <1>4, <1>5 DEF TypeOK
    <2> QED BY <2>1, <2>2
  <1>11. quiet' \in Ages
    BY <1>1, <1>2, <1>3
  <1>12. TypeOK'
    BY <1>1, <1>2, <1>6, <1>7, <1>8, <1>9, <1>10, <1>11 DEF TypeOK
  <1> QED BY <1>6, <1>7, <1>8, <1>9, <1>12 DEF IInv, Honest

-----------------------------------------------------------------------------
(* The theorems.                                                            *)

LEMMA InitInv == Init => IInv
  <1> SUFFICES ASSUME Init PROVE IInv
    OBVIOUS
  <1>1. TypeOK
    <2>1. 0 \in Ages /\ Old \in Ages /\ 0 \in 0 .. MaxFaults
      BY PresenceAssumption DEF Ages
    <2>2. row \in [active : BOOLEAN, age : Ages, gone : BOOLEAN] /\ quiet \in Ages
      <3>1. \E b \in BOOLEAN, a \in Ages :
               row = [active |-> b, age |-> a, gone |-> FALSE] /\ quiet = a
        BY <2>1 DEF Init
      <3> QED BY <3>1
    <2>3. /\ sock \in [Sockets -> {"off", "joining", "on"}]
          /\ timers \in [Sockets -> 0 .. Grace \cup {None}]
          /\ op \in [Slots -> {None} \cup Query]
      BY DEF Init
    <2> QED BY <2>1, <2>2, <2>3 DEF Init, TypeOK
  <1>2. row.age >= quiet
    BY PresenceAssumption DEF Init
  <1>3. CacheHonest /\ BeatHonest /\ OpsHonest
    BY DEF Init, CacheHonest, BeatHonest, OpsHonest
  <1> QED BY <1>1, <1>2, <1>3 DEF IInv, Honest, ActivityIsNeverOverstated

LEMMA NextInv == IInv /\ [Next]_vars => IInv'
  <1> SUFFICES ASSUME IInv, [Next]_vars PROVE IInv'
    OBVIOUS
  <1>1. CASE Beat
    <2>1. PICK a \in BeatAges : BeatHit(a) \/ BeatMiss(a)
      BY <1>1 DEF Beat
    <2>2. a \in Ages
      BY PresenceAssumption
    <2> QED BY <2>1, <2>2, BeatHitInv, BeatMissInv
  <1>2. CASE Read \/ ReadFails \/ BeatCached
    BY <1>2, BeatReadInv
  <1>3. CASE Flush
    BY <1>3, FlushInv
  <1>4. CASE Cleanup \/ Delete \/ Restart
    BY <1>4, ForgetInv
  <1>5. CASE \E x \in Slots : Apply(x) \/ Answer(x) \/ Fail(x)
    BY <1>5, ApplyInv, AnswerInv
  <1>6. CASE \E s \in Sockets : Connect(s) \/ Drop(s) \/ Disconnect(s) \/ Fire(s)
    BY <1>6, SocketInv
  <1>7. CASE \/ Sweep \/ Http \/ DaemonState \/ ReportDead \/ Shelve \/ Restore \/ Archive \/ Unarchive
             \/ \E a \in BeatAges : SessionEnd(a)
    BY <1>7, RequestInv
  <1>8. CASE Tick
    BY <1>8, TickInv
  <1>9. CASE UNCHANGED vars
    BY <1>9 DEF vars, IInv, TypeOK, Honest, ActivityIsNeverOverstated, CacheHonest,
                BeatHonest, OpsHonest
  <1> QED BY <1>1, <1>2, <1>3, <1>4, <1>5, <1>6, <1>7, <1>8, <1>9 DEF Next

LEMMA InvHolds == Spec => []IInv
  <1> QED BY InitInv, NextInv, PTL DEF Spec

\* The row, the cache entry, the queries, sockets and timers keep their types.
THEOREM TypeCorrect == Spec => []TypeOK
  <1>1. IInv => TypeOK
    BY DEF IInv
  <1> QED BY <1>1, InvHolds, PTL

\* lastActiveAt never claims an activity later than the last word of the
\* subject, whatever is flushed, observed, closed, restored or lost, in any order.
THEOREM NeverOverstated == Spec => []ActivityIsNeverOverstated
  <1>1. IInv => ActivityIsNeverOverstated
    BY DEF IInv, Honest
  <1> QED BY <1>1, InvHolds, PTL

-----------------------------------------------------------------------------
(* As long as all is well.  The row is at most the delay of a heartbeat     *)
(* older than the cache believes, and every word of the subject is on its   *)
(* way to the row or was not needed.                                        *)

\* Heartbeats are at most d old on arrival, an entry lives for a tick, and two minutes
\* are longer than what the cache may hold back.
Intervals(d) ==
    /\ d \in Nat /\ TTL > 0
    /\ \A a \in BeatAges : a <= d
    /\ Threshold + d + 1 < Timeout

Holds == cache # None /\ cache.pending # None
Stamping == \E x \in Slots : op[x] # None /\ op[x].pc = "sent" /\ op[x].kind \in Stamps
Recent(n) == row.active => row.age <= n

OpsPrompt(d) == \A x \in Slots : op[x] # None =>
    /\ op[x].kind # "restore" /\ op[x].at <= d
    /\ op[x].hit /\ op[x].kind \in Invalidates => Recent(Threshold + d)
    /\ op[x].hit => op[x].pc = "applied"
HoldsPrompt(d) == Holds => cache.pending <= d /\ cache.life > 0
BeatPrompt(d) == beat # None => beat.at <= d /\ beat.life = TTL /\ ~Fresh
CacheBelieves(d) == cache # None => Stamping \/ Recent(cache.sent + d)
BeatBelieves(d) == beat # None /\ beat.told # None => Recent(beat.told + d)
WordArrives(d) == quiet = 0 =>
    Stamping \/ Holds \/ Recent(Threshold + d) \/ (beat # None /\ beat.at = 0)

Well(d) ==
    /\ OpsPrompt(d) /\ HoldsPrompt(d) /\ BeatPrompt(d)
    /\ CacheBelieves(d) /\ BeatBelieves(d) /\ WordArrives(d)
    /\ Recent(Threshold + d + 1)

PromptInv(d) == Prompt => Well(d)

\* A query joins the others.
LEMMA Sent ==
    ASSUME TypeOK, NEW x \in Slots, NEW kind \in Kinds, NEW at \in Ages, Send(x, kind, at)
    PROVE  /\ \A y \in Slots \ {x} : op'[y] = op[y]
           /\ op[x] = None /\ op'[x] # None
           /\ op'[x].kind = kind /\ op'[x].at = at /\ op'[x].pc = "sent" /\ op'[x].hit = FALSE
           /\ Stamping \/ kind \in Stamps => Stamping'
  <1> DEFINE q == [kind |-> kind, at |-> at, pc |-> "sent", hit |-> FALSE]
  <1>1. q \in Query /\ q.kind = kind /\ q.at = at /\ q.pc = "sent" /\ q.hit = FALSE
    BY DEF Query
  <1>2. op' = [op EXCEPT ![x] = q] /\ op \in [Slots -> {None} \cup Query] /\ op[x] = None
    BY DEF Send, TypeOK
  <1> HIDE DEF q
  <1>3. \A y \in Slots \ {x} : op'[y] = op[y]
    BY <1>2
  <1>4. op'[x] = q
    BY <1>2
  <1>5. Stamping => Stamping'
    BY <1>2, <1>3 DEF Stamping
  <1>6. kind \in Stamps => Stamping'
    BY <1>1, <1>4, PresenceAssumption DEF Stamping
  <1>7. q # None
    BY <1>1, PresenceAssumption
  <1> QED BY <1>1, <1>2, <1>3, <1>4, <1>5, <1>6, <1>7

\* What only sends a query keeps all well: a word goes with a stamp.
LEMMA SendingKeeps ==
    ASSUME NEW d, Intervals(d), TypeOK, Well(d),
           NEW x \in Slots, NEW kind \in Kinds, NEW at \in Ages, Send(x, kind, at),
           kind # "restore", at <= d,
           UNCHANGED <<row, cache, beat>>, kind \in Stamps \/ quiet' = quiet
    PROVE  Well(d)'
  <1>1. /\ \A y \in Slots \ {x} : op'[y] = op[y]
        /\ op'[x].kind = kind /\ op'[x].at = at /\ op'[x].hit = FALSE
        /\ Stamping \/ kind \in Stamps => Stamping'
    BY Sent
  <1>2. OpsPrompt(d)'
    BY <1>1 DEF Well, OpsPrompt, Recent
  <1>3. HoldsPrompt(d)' /\ BeatPrompt(d)' /\ BeatBelieves(d)' /\ Recent(Threshold + d + 1)'
    BY DEF Well, HoldsPrompt, Holds, BeatPrompt, Fresh, BeatBelieves, Recent
  <1>4. CacheBelieves(d)'
    BY <1>1 DEF Well, CacheBelieves, Recent
  <1>5. WordArrives(d)'
    BY <1>1 DEF Well, WordArrives, Holds, Recent
  <1> QED BY <1>2, <1>3, <1>4, <1>5 DEF Well

\* A heartbeat that is not queued finds a row that is recent enough.
LEMMA BeatHitKeeps ==
    ASSUME NEW d, Intervals(d), TypeOK, Well(d), NEW a \in BeatAges, BeatHit(a)
    PROVE  Well(d)'
  <1>1. /\ cache \in Entry /\ cache # None /\ cache.life > 0 /\ a \in Ages /\ a <= d
        /\ cache' = Queued(cache, a) /\ quiet' = Least(quiet, a)
        /\ UNCHANGED <<row, beat, op>>
    BY PresenceAssumption DEF BeatHit, Fresh, TypeOK, Intervals
  <1>2. /\ cache.sent \in Nat /\ Threshold \in Nat /\ d \in Nat /\ a \in Nat /\ quiet \in Nat
        /\ row.age \in Nat /\ beat = None
    BY <1>1, PresenceAssumption DEF Entry, Ages, Intervals, TypeOK, Well, BeatPrompt, BeatHit
  <1>3. \/ cache' = cache /\ Apart(a, cache.sent) <= Threshold
        \/ cache' # None /\ cache'.life = cache.life /\ cache'.sent = cache.sent /\ cache'.pending = a /\ a # None
    BY <1>1, <1>2, QueuedEntry, PresenceAssumption DEF Queued, Apart, Entry
  <1>4. OpsPrompt(d)' /\ BeatPrompt(d)' /\ BeatBelieves(d)' /\ Recent(Threshold + d + 1)'
    BY <1>1, <1>2 DEF Well, OpsPrompt, BeatPrompt, BeatBelieves, Recent
  <1>5. HoldsPrompt(d)' /\ CacheBelieves(d)'
    BY <1>1, <1>3 DEF Well, HoldsPrompt, Holds, CacheBelieves, Stamping, Recent
  <1>6. WordArrives(d)'
    <2>1. CASE cache' = cache /\ Apart(a, cache.sent) <= Threshold
      <3>1. CASE a = 0
        <4>1. cache.sent <= Threshold
          BY <1>2, <2>1, <3>1 DEF Apart
        <4>2. Stamping \/ Recent(Threshold + d)
          BY <1>1, <1>2, <4>1 DEF Well, CacheBelieves, Recent
        <4> QED BY <1>1, <4>2 DEF WordArrives, Stamping, Recent
      <3>2. CASE a # 0
        <4>1. quiet' = 0 => quiet = 0
          BY <1>1, <1>2, <3>2 DEF Least
        <4> QED BY <1>1, <2>1, <4>1 DEF Well, WordArrives, Stamping, Holds, Recent
      <3> QED BY <3>1, <3>2
    <2>2. CASE cache' # None /\ cache'.pending # None
      BY <2>2 DEF WordArrives, Holds
    <2> QED BY <1>3, <2>1, <2>2
  <1> QED BY <1>4, <1>5, <1>6 DEF Well

LEMMA BeatMissKeeps ==
    ASSUME NEW d, Intervals(d), TypeOK, Well(d), NEW a \in BeatAges, BeatMiss(a)
    PROVE  Well(d)'
  <1> DEFINE b == [life |-> TTL, at |-> a, told |-> None]
  <1>1. /\ beat = None /\ ~Fresh /\ a <= d /\ a \in Nat /\ quiet \in Nat /\ b \in Asked
        /\ beat' = b /\ quiet' = Least(quiet, a) /\ UNCHANGED <<row, cache, op>>
    BY PresenceAssumption DEF BeatMiss, TypeOK, Intervals, Ages, Asked
  <1>2. b # None /\ b.life = TTL /\ b.at = a /\ b.told = None
    BY <1>1, PresenceAssumption
  <1> HIDE DEF b
  <1>3. OpsPrompt(d)' /\ HoldsPrompt(d)' /\ CacheBelieves(d)' /\ Recent(Threshold + d + 1)'
    BY <1>1 DEF Well, OpsPrompt, HoldsPrompt, Holds, CacheBelieves, Stamping, Recent
  <1>4. BeatPrompt(d)' /\ BeatBelieves(d)'
    BY <1>1, <1>2 DEF BeatPrompt, BeatBelieves, Fresh
  <1>5. WordArrives(d)'
    <2>1. a = 0 \/ (quiet' = 0 => quiet = 0)
      BY <1>1 DEF Least
    <2> QED BY <1>1, <1>2, <2>1 DEF Well, WordArrives, Stamping, Holds, Recent
  <1> QED BY <1>3, <1>4, <1>5 DEF Well

\* The database tells how old the row is; what is cached believes that.
LEMMA BeatReadKeeps ==
    ASSUME NEW d, Intervals(d), TypeOK, Well(d), Read \/ BeatCached
    PROVE  Well(d)'
  <1>1. /\ beat \in Asked /\ beat # None /\ d \in Nat /\ Threshold \in Nat /\ row.age \in Nat
        /\ beat.at <= d /\ beat.life = TTL /\ ~Fresh /\ TTL > 0 /\ UNCHANGED <<row, op, quiet>>
    BY PresenceAssumption DEF Read, BeatCached, TypeOK, Intervals, Ages, Well, BeatPrompt
  <1>2. beat.at \in Nat /\ (beat.told # None => beat.told \in Nat)
    BY <1>1, PresenceAssumption DEF Asked, Ages
  <1>3. OpsPrompt(d)' /\ Recent(Threshold + d + 1)'
    BY <1>1 DEF Well, OpsPrompt, Recent
  <1>4. CASE Read
    <2> DEFINE b == [beat EXCEPT !.told = row.age]
    <2>1. beat' = b /\ cache' = cache
      BY <1>4 DEF Read
    <2>2. b.told = row.age /\ b.at = beat.at /\ b.life = beat.life
      BY <1>1 DEF Asked
    <2> HIDE DEF b
    <2>3. beat' # None
      <3>1. b \in Asked
        BY <1>1 DEF b, TypeOK, Asked
      <3> QED BY <2>1, <3>1, PresenceAssumption
    <2>4. HoldsPrompt(d)' /\ CacheBelieves(d)' /\ BeatPrompt(d)'
      BY <1>1, <2>1, <2>2 DEF Well, HoldsPrompt, Holds, CacheBelieves, Stamping, Recent, BeatPrompt, Fresh
    <2>5. BeatBelieves(d)'
      BY <1>1, <2>1, <2>2 DEF BeatBelieves, Recent
    <2>6. WordArrives(d)'
      BY <1>1, <2>1, <2>2, <2>3 DEF Well, WordArrives, Holds, Stamping, Recent
    <2> QED BY <1>3, <2>4, <2>5, <2>6 DEF Well
  <1>5. CASE BeatCached
    <2> DEFINE e == [life |-> beat.life, sent |-> beat.told, pending |-> None]
    <2>1. beat' = None /\ cache' = Queued(e, beat.at) /\ beat.told \in Nat
      BY <1>2, <1>5 DEF BeatCached
    <2>2. e \in Entry /\ e.life = TTL /\ e.sent = beat.told /\ e.pending = None /\ beat.at \in Ages
      BY <1>1, <1>5 DEF BeatCached, Asked, Entry
    <2> HIDE DEF e
    <2>3. /\ cache' # None /\ cache'.life = TTL /\ cache'.sent = beat.told
          /\ \/ cache'.pending = None /\ Apart(beat.at, beat.told) <= Threshold
             \/ cache'.pending = beat.at
      BY <1>1, <1>2, <2>1, <2>2, QueuedEntry, PresenceAssumption DEF Queued, Apart, Entry
    <2>4. HoldsPrompt(d)' /\ BeatPrompt(d)' /\ BeatBelieves(d)'
      BY <1>1, <2>1, <2>3 DEF HoldsPrompt, Holds, BeatPrompt, BeatBelieves
    <2>5. CacheBelieves(d)'
      BY <1>1, <2>1, <2>3, PresenceAssumption DEF Well, BeatBelieves, CacheBelieves, Recent
    <2>6. WordArrives(d)'
      <3>1. CASE cache'.pending = beat.at
        BY <1>2, <2>3, <3>1, PresenceAssumption DEF WordArrives, Holds
      <3>2. CASE Apart(beat.at, beat.told) <= Threshold
        <4>1. ~Holds
          BY <1>1 DEF Well, HoldsPrompt, Holds, Fresh
        <4>2. CASE beat.at = 0
          <5>1. beat.told <= Threshold
            BY <1>1, <2>1, <3>2, <4>2 DEF Apart
          <5>2. Recent(Threshold + d)
            BY <1>1, <2>1, <5>1, PresenceAssumption DEF Well, BeatBelieves, Recent
          <5> QED BY <1>1, <5>2 DEF WordArrives, Recent
        <4>3. CASE beat.at # 0
          BY <1>1, <4>1, <4>3 DEF Well, WordArrives, Stamping, Recent
        <4> QED BY <4>2, <4>3
      <3> QED BY <2>3, <3>1, <3>2
    <2> QED BY <1>3, <2>4, <2>5, <2>6 DEF Well
  <1> QED BY <1>4, <1>5

\* The flush sends the stamp that was held back; what is cleaned up holds none.
LEMMA FlushKeeps ==
    ASSUME NEW d, Intervals(d), TypeOK, Well(d), Flush \/ Cleanup
    PROVE  Well(d)'
  <1>1. cache \in Entry /\ cache # None /\ UNCHANGED <<row, beat, quiet>>
    BY DEF Flush, Cleanup, TypeOK
  <1>2. BeatBelieves(d)' /\ Recent(Threshold + d + 1)'
    BY <1>1 DEF Well, BeatBelieves, Recent
  <1>3. CASE Flush
    <2> DEFINE e == [cache EXCEPT !.sent = cache.pending, !.pending = None]
    <2>1. Send("flush", "flush", cache.pending) /\ cache' = e /\ Holds
      BY <1>3 DEF Flush, Stamp, Holds
    <2>2. cache.pending \in Ages /\ cache.pending <= d
      BY <1>1, <2>1 DEF Entry, Holds, Well, HoldsPrompt
    <2>3. e.life = cache.life /\ e.pending = None
      BY <1>1 DEF Entry
    <2> HIDE DEF e
    <2>4. "flush" \in Slots /\ "flush" \in Kinds /\ "flush" \in Stamps /\ "flush" # "restore"
      BY DEF Slots, Desks, Kinds, TurnsOn, Stamps
    <2>5. /\ \A y \in Slots \ {"flush"} : op'[y] = op[y]
          /\ op'["flush"].kind = "flush" /\ op'["flush"].at = cache.pending /\ op'["flush"].hit = FALSE
          /\ Stamping'
      BY <2>1, <2>2, <2>4, Sent
    <2>6. OpsPrompt(d)'
      BY <1>1, <2>2, <2>4, <2>5 DEF Well, OpsPrompt, Recent
    <2>7. HoldsPrompt(d)' /\ BeatPrompt(d)'
      BY <1>1, <2>1, <2>3 DEF Well, HoldsPrompt, Holds, BeatPrompt, Fresh
    <2>8. CacheBelieves(d)' /\ WordArrives(d)'
      BY <2>5 DEF CacheBelieves, WordArrives
    <2> QED BY <1>2, <2>6, <2>7, <2>8 DEF Well
  <1>4. CASE Cleanup
    <2>1. cache' = None /\ op' = op /\ ~Holds
      BY <1>4 DEF Cleanup, Well, HoldsPrompt
    <2>2. OpsPrompt(d)' /\ BeatPrompt(d)'
      BY <1>1, <2>1 DEF Well, OpsPrompt, Recent, BeatPrompt, Fresh
    <2>3. HoldsPrompt(d)' /\ CacheBelieves(d)'
      BY <2>1 DEF HoldsPrompt, Holds, CacheBelieves
    <2>4. WordArrives(d)'
      BY <1>1, <2>1 DEF Well, WordArrives, Stamping, Recent
    <2> QED BY <1>2, <2>2, <2>3, <2>4 DEF Well
  <1> QED BY <1>3, <1>4

\* A query that is applied stamps the row, closes it, or leaves age and flag alone.
LEMMA ApplyKeeps ==
    ASSUME NEW d, Intervals(d), TypeOK, Well(d), NEW x \in Slots, Apply(x)
    PROVE  Well(d)'
  <1> DEFINE q == op[x]
             k == [q EXCEPT !.pc = "applied", !.hit = Hits(q)]
  <1>1. q \in Query /\ q # None /\ q.pc = "sent" /\ Hits(q) \in BOOLEAN
        /\ op' = [op EXCEPT ![x] = k] /\ UNCHANGED <<cache, beat, quiet>>
        /\ row' = IF Hits(q) THEN Written(q) ELSE row
    BY DEF Apply, TypeOK, Hits
  <1>2. k \in Query /\ k # None /\ k.kind = q.kind /\ k.at = q.at /\ k.pc = "applied" /\ k.hit = Hits(q)
    BY <1>1, PresenceAssumption DEF Query
  <1>3. q.kind \in Kinds /\ q.kind # "restore" /\ q.at \in Nat /\ q.at <= d
    BY <1>1, PresenceAssumption DEF Query, Ages, Well, OpsPrompt
  <1>4. d \in Nat /\ Threshold \in Nat /\ row.age \in Nat /\ row.active \in BOOLEAN
    BY PresenceAssumption DEF Intervals, TypeOK, Ages
  <1> HIDE DEF k
  <1>5. op'[x] = k /\ \A y \in Slots \ {x} : op'[y] = op[y]
    BY <1>1 DEF TypeOK
  <1>6. \/ q.kind \in Stamps /\ Hits(q) /\ row'.age <= d /\ row'.age \in Nat
        \/ ~row'.active
        \/ row' = row /\ ~Hits(q) /\ q.kind \notin Stamps
        \/ row'.active = row.active /\ row'.age = row.age /\ q.kind \notin Stamps \cup Invalidates
    <2>1. CASE ~Hits(q)
      BY <1>1, <1>4, <2>1 DEF Hits, Stamps, OnlyIfActive
    <2>2. CASE Hits(q)
      <3>1. /\ row'.active = ((row.active \/ q.kind \in TurnsOn) /\ q.kind \notin TurnsOff)
            /\ row'.age = IF q.kind \in Stamps THEN q.at ELSE row.age
        BY <1>1, <2>2 DEF Written
      <3> QED BY <1>3, <1>4, <2>2, <3>1 DEF Kinds, TurnsOn, TurnsOff, Stamps, Invalidates
    <2> QED BY <2>1, <2>2
  <1>17. row'.active => row'.age \in Nat /\ (row'.age <= d \/ (row.active /\ row'.age = row.age))
    BY <1>4, <1>6
  <1>7. \A n \in Nat : Recent(n + d) => Recent(n + d)'
    BY <1>4, <1>17 DEF Recent
  <1>8. q.kind \in Stamps \/ (Hits(q) /\ q.kind \in Invalidates) => Recent(d)'
    BY <1>4, <1>6 DEF Recent
  <1>9. \A n \in Nat : Recent(d)' => Recent(n + d)'
    BY <1>4, <1>17 DEF Recent
  <1>10. Stamping' \/ Stamping => Stamping' \/ Recent(d)'
    <2> SUFFICES ASSUME Stamping, ~Recent(d)' PROVE Stamping'
      OBVIOUS
    <2>1. PICK y \in Slots : op[y] # None /\ op[y].pc = "sent" /\ op[y].kind \in Stamps
      BY DEF Stamping
    <2>2. y # x
      BY <1>8, <2>1
    <2> QED BY <1>5, <2>1, <2>2 DEF Stamping
  <1>11. OpsPrompt(d)'
    BY <1>1, <1>2, <1>3, <1>4, <1>5, <1>7, <1>8, <1>9 DEF Well, OpsPrompt
  <1>12. HoldsPrompt(d)' /\ BeatPrompt(d)'
    BY <1>1 DEF Well, HoldsPrompt, Holds, BeatPrompt, Fresh
  <1>13. CacheBelieves(d)'
    <2>1. cache # None => cache.sent \in Nat
      BY PresenceAssumption DEF TypeOK, Entry, Ages
    <2> QED BY <1>1, <1>7, <1>9, <1>10, <2>1 DEF Well, CacheBelieves
  <1>14. BeatBelieves(d)'
    <2>1. beat # None /\ beat.told # None => beat.told \in Nat
      BY PresenceAssumption DEF TypeOK, Asked, Ages
    <2> QED BY <1>1, <1>7, <2>1 DEF Well, BeatBelieves
  <1>15. WordArrives(d)'
    BY <1>1, <1>4, <1>7, <1>9, <1>10 DEF Well, WordArrives, Holds
  <1>16. Recent(Threshold + d + 1)'
    <2>1. Threshold + d + 1 = (Threshold + 1) + d /\ Threshold + 1 \in Nat
      BY <1>4
    <2> QED BY <1>7, <2>1 DEF Well
  <1> QED BY <1>11, <1>12, <1>13, <1>14, <1>15, <1>16 DEF Well

\* An answer drops the entry only when the row needs no stamp.
LEMMA AnswerKeeps ==
    ASSUME NEW d, Intervals(d), TypeOK, Well(d), NEW x \in Slots, Answer(x)
    PROVE  Well(d)'
  <1>1. /\ op' = [op EXCEPT ![x] = None] /\ op[x] # None /\ op[x].pc = "applied"
        /\ UNCHANGED <<row, beat, quiet>>
        /\ cache' = cache \/ (cache' = None /\ Recent(Threshold + d))
    BY DEF Answer, Well, OpsPrompt
  <1>2. op'[x] = None /\ \A y \in Slots \ {x} : op'[y] = op[y]
    BY <1>1 DEF TypeOK
  <1>3. Stamping => Stamping'
    BY <1>1, <1>2 DEF Stamping
  <1>4. OpsPrompt(d)' /\ BeatBelieves(d)' /\ Recent(Threshold + d + 1)'
    BY <1>1, <1>2 DEF Well, OpsPrompt, BeatBelieves, Recent
  <1>5. HoldsPrompt(d)' /\ BeatPrompt(d)'
    BY <1>1 DEF Well, HoldsPrompt, Holds, BeatPrompt, Fresh
  <1>6. CacheBelieves(d)'
    BY <1>1, <1>3 DEF Well, CacheBelieves, Recent
  <1>7. WordArrives(d)'
    BY <1>1, <1>3 DEF Well, WordArrives, Holds, Recent
  <1> QED BY <1>4, <1>5, <1>6, <1>7 DEF Well

\* A row that is closed needs nothing.
LEMMA DeleteKeeps ==
    ASSUME NEW d, Intervals(d), TypeOK, Well(d), Delete
    PROVE  Well(d)'
  <1>1. ~row'.active /\ UNCHANGED <<cache, beat, op, quiet>>
    BY DEF Delete, TypeOK
  <1>2. \A n : Recent(n)'
    BY <1>1 DEF Recent
  <1>3. OpsPrompt(d)'
    BY <1>1, <1>2 DEF Well, OpsPrompt
  <1>4. HoldsPrompt(d)' /\ BeatPrompt(d)'
    BY <1>1 DEF Well, HoldsPrompt, Holds, BeatPrompt, Fresh
  <1> QED BY <1>2, <1>3, <1>4 DEF Well, CacheBelieves, BeatBelieves, WordArrives

\* A tick finds nothing under way, and the row as recent as the word that came in it.
LEMMA TickKeeps ==
    ASSUME NEW d, Intervals(d), TypeOK, Well(d), Prompt, Tick
    PROVE  Well(d)'
  <1>1. /\ quiet = 0 /\ beat = None /\ Busy = {} /\ ~Holds
        /\ quiet' = Older(0) /\ row' = [row EXCEPT !.age = Older(row.age)]
        /\ cache' = IF cache = None THEN None
                    ELSE [life |-> Earlier(cache.life), sent |-> Older(cache.sent), pending |-> Older(cache.pending)]
        /\ beat' = None
    BY DEF Tick, Holds
  <1>2. \A x \in Slots : op[x] = None /\ op'[x] = None
    BY <1>1 DEF Tick, Busy
  <1>3. /\ d \in Nat /\ Threshold \in Nat /\ Old \in Nat /\ Old > 0 /\ row.age \in 0 .. Old
        /\ row'.active = row.active /\ row'.age = Older(row.age)
    BY <1>1, PresenceAssumption DEF Intervals, TypeOK, Ages
  <1>4. quiet' # 0
    BY <1>1, <1>3, PresenceAssumption DEF Older
  <1>5. ~Stamping
    BY <1>2 DEF Stamping
  <1>6. Recent(Threshold + d)
    BY <1>1, <1>5 DEF Well, WordArrives
  <1>7. Recent(Threshold + d + 1)'
    BY <1>3, <1>6, PresenceAssumption DEF Recent, Older
  <1>8. CASE cache = None
    BY <1>1, <1>2, <1>4, <1>7, <1>8 DEF Well, OpsPrompt, HoldsPrompt, Holds, BeatPrompt, CacheBelieves, BeatBelieves, WordArrives
  <1>9. CASE cache # None
    <2>1. cache.sent \in 0 .. Old /\ Recent(cache.sent + d) /\ cache.pending = None
      BY <1>1, <1>5, <1>9 DEF TypeOK, Entry, Ages, Holds, Well, CacheBelieves
    <2>2. cache'.sent = Older(cache.sent) /\ cache'.pending = None
      BY <1>1, <1>9, <2>1 DEF Older
    <2>3. CacheBelieves(d)'
      <3>1. row'.active => row'.age <= cache'.sent + d
        BY <1>3, <2>1, <2>2, PresenceAssumption DEF Recent, Older
      <3> QED BY <3>1 DEF CacheBelieves, Recent
    <2> QED BY <1>1, <1>2, <1>4, <1>7, <2>2, <2>3
         DEF Well, OpsPrompt, HoldsPrompt, Holds, BeatPrompt, BeatBelieves, WordArrives
  <1> QED BY <1>8, <1>9

LEMMA WellKept ==
    ASSUME NEW d, Intervals(d), TypeOK, Prompt, Well(d), [Next]_vars
    PROVE  Well(d)' /\ setting' = setting
  <1>1. 0 \in Ages /\ d \in Nat /\ 0 <= d
    BY PresenceAssumption DEF Ages, Intervals
  <1>2. ASSUME NEW x \in Slots, NEW kind \in Kinds, NEW at \in Ages, Send(x, kind, at),
               kind # "restore", at <= d, UNCHANGED <<setting, row, cache, beat>>,
               kind \in Stamps \/ quiet' = quiet
        PROVE  Well(d)' /\ setting' = setting
    BY <1>2, SendingKeeps
  <1>3. CASE Beat
    <2>1. PICK a \in BeatAges : BeatHit(a) \/ BeatMiss(a)
      BY <1>3 DEF Beat
    <2> QED BY <2>1, BeatHitKeeps, BeatMissKeeps DEF BeatHit, BeatMiss
  <1>4. CASE Read \/ BeatCached
    BY <1>4, BeatReadKeeps DEF Read, BeatCached
  <1>5. CASE Flush \/ Cleanup
    BY <1>5, FlushKeeps DEF Flush, Cleanup
  <1>6. ASSUME NEW x \in Slots, Apply(x) \/ Answer(x)
        PROVE  Well(d)' /\ setting' = setting
    BY <1>6, ApplyKeeps, AnswerKeeps DEF Apply, Answer
  <1>7. CASE Delete
    BY <1>7, DeleteKeeps DEF Delete
  <1>8. CASE Tick
    BY <1>8, TickKeeps DEF Tick
  <1>9. ASSUME NEW s \in Sockets, Connect(s) \/ Fire(s)
        PROVE  Well(d)' /\ setting' = setting
    <2>1. s \in Slots /\ {"observe", "grace"} \subseteq Kinds \cap Stamps /\ "grace" \in Slots
      BY DEF Slots, Desks, Kinds, Stamps, TurnsOn, TurnsOff
    <2> QED BY <1>1, <1>2, <1>9, <2>1 DEF Connect, Fire
  <1>10. ASSUME NEW s \in Sockets, Drop(s) \/ Disconnect(s)
         PROVE  Well(d)' /\ setting' = setting
    <2>1. UNCHANGED <<setting, row, cache, beat, op, quiet>>
      BY <1>10 DEF Drop, Disconnect
    <2> QED BY <2>1 DEF Well, OpsPrompt, HoldsPrompt, Holds, BeatPrompt, Fresh, CacheBelieves, BeatBelieves,
                        WordArrives, Stamping, Recent
  <1>11. CASE Http \/ DaemonState
    <2>1. {"observe", "register", "state"} \subseteq Kinds \cap Stamps /\ "http" \in Slots
      BY DEF Slots, Desks, Kinds, Stamps, TurnsOn
    <2>2. \E kind \in {"observe", "register", "state"} : Send("http", kind, 0)
      BY <1>11 DEF Http, DaemonState
    <2>3. UNCHANGED <<setting, row, cache, beat>>
      BY <1>11 DEF Http, DaemonState
    <2> QED BY <1>1, <1>2, <2>1, <2>2, <2>3
  <1>12. ASSUME NEW a \in BeatAges, SessionEnd(a)
         PROVE  Well(d)' /\ setting' = setting
    <2>1. "end" \in Kinds \cap Stamps /\ "end" \in Slots /\ a \in Ages /\ a <= d
      BY PresenceAssumption DEF Slots, Desks, Kinds, Stamps, TurnsOff, Intervals
    <2> QED BY <1>2, <1>12, <2>1 DEF SessionEnd
  <1>13. CASE Sweep \/ ReportDead \/ Shelve \/ Archive \/ Unarchive
    <2>1. {"sweep", "dead", "shelve", "archive", "unarchive"} \subseteq Kinds
      BY DEF Kinds, TurnsOff
    <2>2. {"sweep", "dead", "admin"} \subseteq Slots
      BY DEF Slots, Desks
    <2>3. \E x \in {"sweep", "dead", "admin"}, kind \in {"sweep", "dead", "shelve", "archive", "unarchive"} :
             Send(x, kind, 0)
      BY <1>13 DEF Sweep, ReportDead, Shelve, Archive, Unarchive
    <2>4. UNCHANGED <<setting, row, cache, beat, quiet>>
      BY <1>13 DEF Sweep, ReportDead, Shelve, Archive, Unarchive
    <2> QED BY <1>1, <1>2, <2>1, <2>2, <2>3, <2>4
  <1>14. ASSUME NEW x \in Slots
         PROVE  ~(Fail(x) \/ ReadFails \/ Restore \/ Restart)
    BY DEF Fail, ReadFails, Restore, Restart
  <1>15. ~(ReadFails \/ Restore \/ Restart)
    BY DEF ReadFails, Restore, Restart
  <1>16. CASE UNCHANGED vars
    BY <1>16 DEF vars, Well, OpsPrompt, HoldsPrompt, Holds, BeatPrompt, Fresh, CacheBelieves, BeatBelieves,
                 WordArrives, Stamping, Recent
  <1> QED BY <1>3, <1>4, <1>5, <1>6, <1>7, <1>8, <1>9, <1>10, <1>11, <1>12, <1>13, <1>14, <1>15, <1>16 DEF Next

\* With nothing cached and nothing sent all is well while the row is new.
LEMMA WellAtFirst ==
    ASSUME NEW d, Intervals(d), Init, Prompt
    PROVE  Well(d)
  <1>1. row.age = 0 /\ cache = None /\ beat = None /\ \A x \in Slots : op[x] = None
    BY DEF Init
  <1>2. Recent(Threshold + d) /\ Recent(Threshold + d + 1)
    BY <1>1, PresenceAssumption DEF Recent, Intervals
  <1> QED BY <1>1, <1>2 DEF Well, OpsPrompt, HoldsPrompt, Holds, BeatPrompt, CacheBelieves, BeatBelieves, WordArrives

\* While there is word of the subject in every tick and no query fails, an active row
\* never grows as old as the sweep looks for, although the cache holds heartbeats back
\* and is dropped and replaced at any moment: for any intervals with room for what
\* the cache holds back and the delay of a heartbeat.
THEOREM BeatersStayFresh ==
    ASSUME NEW d, Intervals(d)
    PROVE  Spec => []BeatingIsNeverStale
  <1>1. Init => PromptInv(d)
    BY WellAtFirst DEF PromptInv
  <1>2. IInv /\ PromptInv(d) /\ [Next]_vars => PromptInv(d)'
    <2> SUFFICES ASSUME IInv, PromptInv(d), [Next]_vars, Prompt' PROVE Well(d)'
      BY DEF PromptInv
    <2>1. setting' = setting
      BY DEF Next, vars, Beat, BeatHit, BeatMiss, Read, ReadFails, BeatCached, Flush, Cleanup, Apply, Answer, Fail,
             Connect, Drop, Disconnect, Fire, Sweep, Http, DaemonState, ReportDead, Delete, Shelve, Restore,
             Archive, Unarchive, SessionEnd, Tick, Restart
    <2>2. Prompt /\ Well(d)
      BY <2>1 DEF PromptInv, Prompt
    <2> QED BY <2>2, WellKept DEF IInv
  <1>3. IInv /\ PromptInv(d) => BeatingIsNeverStale
    BY PresenceAssumption DEF IInv, TypeOK, PromptInv, Well, Recent, BeatingIsNeverStale, Stale, Intervals, Ages
  <1> QED BY <1>1, <1>2, <1>3, InvHolds, PTL DEF Spec

-----------------------------------------------------------------------------
(* Timers.                                                                  *)

OneSocket == \A s, t \in Sockets : s = t
TimersOff == \A s \in Sockets : timers[s] # None => sock[s] = "off"

\* A timer only fires when no socket of the subject is connected, as long as a subject
\* connects with one socket at a time; of a second socket the timer of the first knows
\* nothing.
THEOREM TimersSpareTheConnected == OneSocket => (Spec => TimerSparesTheConnected)
  <1> SUFFICES ASSUME OneSocket PROVE Spec => TimerSparesTheConnected
    OBVIOUS
  <1>1. Init => TimersOff
    BY DEF Init, TimersOff
  <1>2. IInv /\ TimersOff /\ [Next]_vars =>
          /\ TimersOff'
          /\ [\A s \in Sockets : Fire(s) => \A t \in Sockets : sock[t] = "off"]_vars
    <2> SUFFICES ASSUME IInv, TimersOff, [Next]_vars
                 PROVE  /\ TimersOff'
                        /\ \A s \in Sockets : Fire(s) => \A t \in Sockets : sock[t] = "off"
      OBVIOUS
    <2>1. sock \in [Sockets -> {"off", "joining", "on"}] /\ timers \in [Sockets -> 0 .. Grace \cup {None}]
      BY DEF IInv, TypeOK
    <2>2. \A s \in Sockets : Fire(s) => \A t \in Sockets : sock[t] = "off"
      <3> SUFFICES ASSUME NEW s \in Sockets, Fire(s) PROVE sock[s] = "off"
        BY DEF OneSocket
      <3>1. timers[s] # None
        BY PresenceAssumption DEF Fire
      <3> QED BY <3>1 DEF TimersOff
    <2>3. ASSUME NEW s \in Sockets, Connect(s) PROVE TimersOff'
      BY <2>1, <2>3 DEF Connect, TimersOff
    <2>4. ASSUME NEW s \in Sockets, Drop(s) \/ Disconnect(s) \/ Fire(s) PROVE TimersOff'
      BY <2>1, <2>4 DEF Drop, Disconnect, Fire, TimersOff
    <2>5. ASSUME NEW x \in Slots, Answer(x) \/ Fail(x) PROVE TimersOff'
      BY <2>1, <2>5 DEF Answer, Fail, Joined, TimersOff
    <2>6. CASE Tick
      BY <2>1, <2>2, <2>6 DEF Tick, Earlier, TimersOff
    <2>7. CASE Restart
      BY <2>2, <2>7 DEF Restart, TimersOff
    <2>8. ASSUME UNCHANGED <<sock, timers>> PROVE TimersOff'
      BY <2>8 DEF TimersOff
    <2>9. CASE \/ Beat \/ Read \/ ReadFails \/ BeatCached \/ Flush \/ Cleanup
               \/ \E x \in Slots : Apply(x)
      BY <2>2, <2>8, <2>9 DEF Beat, BeatHit, BeatMiss, Read, ReadFails, BeatCached, Flush, Cleanup, Apply, links
    <2>10. CASE \/ Sweep \/ Http \/ DaemonState \/ ReportDead \/ Delete
                \/ Shelve \/ Restore \/ Archive \/ Unarchive
                \/ \E a \in BeatAges : SessionEnd(a)
                \/ UNCHANGED vars
      BY <2>2, <2>8, <2>10 DEF Sweep, Http, DaemonState, ReportDead, Delete, Shelve, Restore, Archive, Unarchive,
                         SessionEnd, links, vars
    <2> QED BY <2>2, <2>3, <2>4, <2>5, <2>6, <2>7, <2>9, <2>10 DEF Next
  <1> QED BY <1>1, <1>2, InvHolds, PTL DEF Spec, TimerSparesTheConnected
====
