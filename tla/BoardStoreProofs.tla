-------------------------- MODULE BoardStoreProofs --------------------------
(***************************************************************************)
(* What the compare-and-swap on bodyVersion guarantees although the cached *)
(* board object is shared and mutated in place, for any sets of requests   *)
(* and team writers and any number of retries and restarts.                *)
(***************************************************************************)
EXTENDS BoardStore, TLAPS

-----------------------------------------------------------------------------
(* The inductive invariant.                                                 *)

\* The cached object holds all that a round trip keeps of the stored body
\* whenever the version cached with it is the stored one.
CacheInv ==
    /\ meta <= version
    /\ cache # NoBoard /\ meta = version => Kept(body) \subseteq heap[cache]

\* A version that a request holds is never ahead of the row, and what it read
\* or sends under the row's version contains the stored board.
SnapshotInv ==
    \A r \in Requests :
        req[r].pc \in {"read", "saving"} =>
            /\ req[r].ref <= version
            /\ req[r].ref = version => Kept(body) \subseteq req[r].body

\* What is being saved is in the object, and contains the request's mutation.
SavingInv ==
    \A r \in Requests :
        req[r].pc = "saving" =>
            /\ req[r].obj # NoBoard /\ req[r].body \subseteq heap[req[r].obj]
            /\ Self(r) \in req[r].body

\* A save that was made is behind the row by at least its own write, and its
\* object holds the stored board when nobody has written since.
SavedInv ==
    \A r \in Requests :
        req[r].pc = "saved" =>
            /\ req[r].obj # NoBoard /\ req[r].ref < version
            /\ req[r].ref + 1 = version => Kept(body) \subseteq heap[req[r].obj]

\* The object of an attempt that has not loaded the board yet.
Unborn(r, n) ==
    \/ n > req[r].try
    \/ n = req[r].try /\ req[r].pc \in {"idle", "reading", "read"}

\* Nobody holds the object that a request is about to create.
ObjectsInv ==
    \A r \in Requests, n \in Tries :
        Unborn(r, n) => /\ cache # <<r, n>>
                        /\ \A q \in Requests : req[q].obj # <<r, n>>

\* Every attempt of a creation that failed on its version was beaten by a write
\* of its own.
ContentionInv ==
    \A r \in Requests :
        /\ req[r].pc = "idle" => req[r].try = 1
        /\ version >= req[r].began
        /\ version + 2 >= req[r].began + req[r].try \/ req[r].try = 1
        /\ req[r].pc \in {"read", "saving"} =>
              req[r].ref + 2 >= req[r].began + req[r].try \/ req[r].try = 1
        /\ req[r].pc = "conflict" => version + 1 >= req[r].began + req[r].try
        /\ req[r].pc = "refused" /\ r \in Creates =>
              version + 1 >= req[r].began + MaxRetries

IInv ==
    /\ TypeOK /\ CacheInv /\ SnapshotInv /\ SavingInv /\ SavedInv
    /\ ObjectsInv /\ ContentionInv

-----------------------------------------------------------------------------
(* Each action preserves it.                                                *)

\* The fields of a request under the type invariant.
LEMMA RequestFields ==
    ASSUME TypeOK, NEW r \in Requests
    PROVE  /\ req[r].pc \in PCs /\ req[r].try \in Tries
           /\ req[r].obj \in Attempts \cup {NoBoard} /\ req[r].ref \in Nat
           /\ req[r].body \subseteq Mutations
           /\ Self(r) \in Attempts /\ Self(r) \in Mutations
           /\ req[r].try \in Nat /\ req[r].try >= 1 /\ req[r].try <= MaxRetries
           /\ req[r].began \in Nat
<1>1. req[r] \in Request
  BY DEF TypeOK
<1>2. req[r].try \in Tries
  BY <1>1 DEF Request
<1>3. Self(r) \in Attempts
  BY <1>2 DEF Self, Attempts
<1> QED
  BY <1>1, <1>2, <1>3, StoreAssumption DEF Request, Tries, Mutations, StoreAssumption

\* A request that only moves on, to a state in which nothing is asked of it.
Quiet == {"error", "ok", "failed", "lost"}

LEMMA GotoInv ==
    ASSUME IInv, NEW r \in Requests, NEW pc \in Quiet, Goto(r, pc),
           UNCHANGED <<row, meta, heap, team, restarts>>,
           cache' \in {cache, NoBoard}
    PROVE  IInv'
<1>1. TypeOK
  BY DEF IInv
<1>2. req \in [Requests -> Request] /\ req' = [req EXCEPT ![r].pc = pc]
  BY <1>1 DEF TypeOK, Goto
<1>3. /\ req' \in [Requests -> Request]
      /\ \A q \in Requests : /\ req'[q].pc = IF q = r THEN pc ELSE req[q].pc
                             /\ req'[q].try = req[q].try /\ req'[q].obj = req[q].obj
                             /\ req'[q].began = req[q].began
                             /\ req'[q].ref = req[q].ref /\ req'[q].body = req[q].body
  BY <1>2 DEF Request, Quiet, PCs
<1>4. /\ version' = version /\ body' = body /\ meta' = meta /\ heap' = heap
      /\ team' = team /\ restarts' = restarts
  BY DEF row
<1>5. TypeOK'
  BY <1>1, <1>3, <1>4 DEF TypeOK
<1>6. CacheInv'
  BY <1>4 DEF IInv, CacheInv
<1>7. SnapshotInv'
  BY <1>3, <1>4 DEF IInv, SnapshotInv, Quiet
<1>8. SavingInv'
  BY <1>3, <1>4 DEF IInv, SavingInv, Self, Quiet
<1>9. SavedInv'
  BY <1>3, <1>4 DEF IInv, SavedInv, Quiet
<1>10. ObjectsInv'
  <2>1. \A q \in Requests, n \in Tries : NoBoard # <<q, n>> /\ (Unborn(q, n)' => Unborn(q, n))
    BY <1>3, StoreAssumption DEF StoreAssumption, Attempts, Unborn, Quiet
  <2> QED
    BY <1>3, <2>1 DEF IInv, ObjectsInv
<1>11. ContentionInv'
  BY <1>3, <1>4 DEF IInv, ContentionInv, Quiet
<1> QED
  BY <1>5, <1>6, <1>7, <1>8, <1>9, <1>10, <1>11 DEF IInv

LEMMA MissInv ==
    ASSUME IInv, NEW r \in Requests, MissCache(r)
    PROVE  IInv'
<1>1. TypeOK /\ req[r].pc = "idle"
  BY DEF IInv, MissCache
<1>2. /\ req \in [Requests -> Request] /\ version \in Nat
      /\ req' = [req EXCEPT ![r].pc = "reading", ![r].began = version]
  BY <1>1 DEF TypeOK, MissCache
<1>3. /\ req' \in [Requests -> Request]
      /\ \A q \in Requests : /\ req'[q].pc = IF q = r THEN "reading" ELSE req[q].pc
                             /\ req'[q].try = req[q].try /\ req'[q].obj = req[q].obj
                             /\ req'[q].began = IF q = r THEN version ELSE req[q].began
                             /\ req'[q].ref = req[q].ref /\ req'[q].body = req[q].body
  BY <1>2 DEF Request, PCs
<1>4. /\ version' = version /\ body' = body /\ meta' = meta /\ heap' = heap /\ cache' = cache
      /\ team' = team /\ restarts' = restarts
  BY DEF row, memory, MissCache
<1>5. TypeOK'
  BY <1>1, <1>3, <1>4 DEF TypeOK
<1>6. CacheInv'
  BY <1>4 DEF IInv, CacheInv
<1>7. SnapshotInv'
  BY <1>3, <1>4 DEF IInv, SnapshotInv
<1>8. SavingInv'
  BY <1>3, <1>4 DEF IInv, SavingInv, Self
<1>9. SavedInv'
  BY <1>3, <1>4 DEF IInv, SavedInv
<1>10. ObjectsInv'
  <2>1. \A q \in Requests, n \in Tries : Unborn(q, n)' => Unborn(q, n)
    BY <1>1, <1>3 DEF Unborn
  <2> QED
    BY <1>3, <1>4, <2>1 DEF IInv, ObjectsInv
<1>11. ContentionInv'
  BY <1>1, <1>2, <1>3, <1>4 DEF IInv, ContentionInv
<1> QED
  BY <1>5, <1>6, <1>7, <1>8, <1>9, <1>10, <1>11 DEF IInv

LEMMA DbReadInv ==
    ASSUME IInv, NEW r \in Requests, DbRead(r)
    PROVE  IInv'
<1>1. TypeOK /\ req[r].pc = "reading"
  BY DEF IInv, DbRead
<1>2. /\ req \in [Requests -> Request] /\ version \in Nat /\ body \subseteq Mutations
      /\ req' = [req EXCEPT ![r].pc = "read", ![r].ref = version, ![r].body = body]
  BY <1>1 DEF TypeOK, DbRead
<1>3. /\ req' \in [Requests -> Request]
      /\ \A q \in Requests :
            /\ req'[q].try = req[q].try /\ req'[q].obj = req[q].obj
            /\ req'[q].began = req[q].began
            /\ q # r => req'[q] = req[q]
      /\ req'[r].pc = "read" /\ req'[r].ref = version /\ req'[r].body = body
  BY <1>2 DEF Request, PCs
<1>4. /\ version' = version /\ body' = body /\ meta' = meta /\ heap' = heap /\ cache' = cache
      /\ team' = team /\ restarts' = restarts
  BY DEF row, memory, DbRead
<1>5. TypeOK'
  BY <1>1, <1>3, <1>4 DEF TypeOK
<1>6. CacheInv'
  BY <1>4 DEF IInv, CacheInv
<1>7. SnapshotInv'
  BY <1>2, <1>3, <1>4 DEF IInv, SnapshotInv, Kept
<1>8. SavingInv'
  BY <1>3, <1>4 DEF IInv, SavingInv, Self
<1>9. SavedInv'
  BY <1>3, <1>4 DEF IInv, SavedInv
<1>10. ObjectsInv'
  <2>1. \A q \in Requests, n \in Tries : Unborn(q, n)' => Unborn(q, n)
    BY <1>1, <1>3 DEF Unborn
  <2> QED
    BY <1>3, <1>4, <2>1 DEF IInv, ObjectsInv
<1>11. ContentionInv'
  BY <1>2, <1>3, <1>4 DEF IInv, ContentionInv
<1> QED
  BY <1>5, <1>6, <1>7, <1>8, <1>9, <1>10, <1>11 DEF IInv

\* A request mutates object o and sends it. Either o already holds more than
\* its other holders know, or it is a new object that nobody else holds.
LEMMA MutateInv ==
    ASSUME IInv, NEW r \in Requests, req[r].pc \in {"idle", "read"},
           NEW o \in Attempts, NEW contents \in SUBSET Mutations, NEW ref \in Nat,
           MutateAndSave(r, o, contents, ref),
           ref <= version, ref = version => Kept(body) \subseteq contents,
           ref + 2 >= req[r].began + req[r].try \/ req[r].try = 1,
           \/ heap[o] \subseteq contents
           \/ cache # o /\ \A q \in Requests : req[q].obj # o,
           \A q \in Requests, n \in Tries : o = <<q, n>> /\ q # r => ~ Unborn(q, n),
           \A n \in Tries : o = <<r, n>> => n <= req[r].try,
           UNCHANGED <<row, team, restarts>>, cache' = o, meta' = ref
    PROVE  IInv'
<1> DEFINE after == contents \cup {Self(r)}
<1>1. TypeOK
  BY DEF IInv
<1> DEFINE began == IF req[r].pc = "idle" THEN version ELSE req[r].began
<1>2. /\ req \in [Requests -> Request] /\ heap \in [Attempts -> SUBSET Mutations]
      /\ version \in Nat /\ req[r].began \in Nat /\ began \in Nat
      /\ after \in SUBSET Mutations /\ body \subseteq Mutations
      /\ heap' = [heap EXCEPT ![o] = after]
      /\ req' = [req EXCEPT ![r].pc = "saving", ![r].obj = o, ![r].ref = ref, ![r].body = after,
                             ![r].began = began]
  BY <1>1, RequestFields DEF TypeOK, MutateAndSave
<1>3. NoBoard # o /\ Self(r) \in after /\ contents \subseteq after /\ Self(r)' = Self(r)
  BY <1>2, StoreAssumption DEF StoreAssumption, Self, Request
<1> HIDE DEF after, began
<1>4. /\ req' \in [Requests -> Request]
      /\ \A q \in Requests : req'[q].try = req[q].try /\ (q # r => req'[q] = req[q])
      /\ req'[r].pc = "saving" /\ req'[r].ref = ref /\ req'[r].body = after /\ req'[r].obj = o
      /\ req'[r].began = began
  <2> DEFINE k == [req[r] EXCEPT !.pc = "saving", !.obj = o, !.ref = ref, !.body = after,
                                 !.began = began]
  <2>1. req' = [req EXCEPT ![r] = k]
    BY <1>2
  <2>2. req[r] \in Request
    BY <1>2
  <2>3. /\ k \in Request /\ k.try = req[r].try
        /\ k.pc = "saving" /\ k.ref = ref /\ k.body = after /\ k.obj = o /\ k.began = began
    BY <1>2, <2>2 DEF Request, PCs
  <2>4. req \in [Requests -> Request]
    BY <1>2
  <2> HIDE DEF k
  <2>5. /\ req' \in [Requests -> Request] /\ req'[r] = k
        /\ \A q \in Requests : q # r => req'[q] = req[q]
    BY <2>1, <2>3, <2>4
  <2> QED
    BY <2>3, <2>5
<1>5. /\ version' = version /\ body' = body /\ meta' = ref /\ cache' = o
      /\ team' = team /\ restarts' = restarts
  BY DEF row
<1>6. heap' \in [Attempts -> SUBSET Mutations] /\ heap'[o] = after
      /\ \A a \in Attempts : a # o => heap'[a] = heap[a]
  BY <1>2
<1>7. ASSUME NEW q \in Requests, req[q].obj # NoBoard
      PROVE  heap[req[q].obj] \subseteq heap'[req[q].obj]
  BY <1>1, <1>3, <1>6, <1>7, RequestFields
<1>8. TypeOK'
  BY <1>1, <1>4, <1>5, <1>6 DEF TypeOK
<1>9. CacheInv'
  BY <1>3, <1>5, <1>6 DEF CacheInv
<1>10. SnapshotInv'
  BY <1>3, <1>4, <1>5 DEF IInv, SnapshotInv
<1>11. SavingInv'
  <2> SUFFICES ASSUME NEW q \in Requests, req'[q].pc = "saving"
               PROVE  /\ req'[q].obj # NoBoard /\ req'[q].body \subseteq heap'[req'[q].obj]
                      /\ Self(q)' \in req'[q].body
    BY DEF SavingInv
  <2>1. CASE q = r
    BY <1>3, <1>4, <1>6, <2>1
  <2>2. CASE q # r
    BY <1>4, <1>7, <2>2 DEF IInv, SavingInv, Self
  <2> QED
    BY <2>1, <2>2
<1>12. SavedInv'
  <2> SUFFICES ASSUME NEW q \in Requests, req'[q].pc = "saved"
               PROVE  /\ req'[q].obj # NoBoard /\ req'[q].ref < version'
                      /\ req'[q].ref + 1 = version' => Kept(body') \subseteq heap'[req'[q].obj]
    BY DEF SavedInv
  <2>1. q # r /\ req'[q] = req[q]
    BY <1>4
  <2> QED
    BY <1>5, <1>7, <2>1 DEF IInv, SavedInv
<1>13. ObjectsInv'
  <2> SUFFICES ASSUME NEW q \in Requests, NEW n \in Tries, Unborn(q, n)'
               PROVE  o # <<q, n>> /\ \A p \in Requests : req'[p].obj # <<q, n>>
    BY <1>5 DEF ObjectsInv
  <2>1. Unborn(q, n) /\ (q = r => n > req[r].try)
    BY <1>4 DEF Unborn
  <2>2. o # <<q, n>>
    <3>1. CASE q = r
      <4>1. req[r].try \in Nat /\ n \in Nat
        BY <1>1, RequestFields DEF Tries
      <4> QED
        BY <2>1, <3>1, <4>1
    <3>2. CASE q # r
      BY <2>1, <3>2
    <3> QED
      BY <3>1, <3>2
  <2>3. \A p \in Requests : req[p].obj # <<q, n>>
    BY <2>1 DEF IInv, ObjectsInv
  <2> QED
    BY <1>4, <2>2, <2>3
<1>14. ContentionInv'
  <2>1. req[r].pc = "idle" => req[r].try = 1 /\ began = version
    BY DEF IInv, ContentionInv, began
  <2>2. req[r].pc = "read" => began = req[r].began
    BY DEF began
  <2>3. version >= req[r].began
    BY DEF IInv, ContentionInv
  <2> SUFFICES ASSUME NEW q \in Requests
               PROVE  /\ req'[q].pc = "idle" => req'[q].try = 1
                      /\ version' >= req'[q].began
                      /\ version' + 2 >= req'[q].began + req'[q].try \/ req'[q].try = 1
                      /\ req'[q].pc \in {"read", "saving"} =>
                            req'[q].ref + 2 >= req'[q].began + req'[q].try \/ req'[q].try = 1
                      /\ req'[q].pc = "conflict" => version' + 1 >= req'[q].began + req'[q].try
                      /\ req'[q].pc = "refused" /\ q \in Creates =>
                            version' + 1 >= req'[q].began + MaxRetries
    BY DEF ContentionInv
  <2>4. CASE q = r
    <3>1. req[r].pc = "idle" \/ req[r].pc = "read"
      OBVIOUS
    <3>2. req[r].try \in Nat
      BY <1>1, RequestFields
    <3>3. version + 2 >= began + req[r].try \/ req[r].try = 1
      BY <2>1, <2>2, <3>1 DEF IInv, ContentionInv
    <3> QED
      BY <1>2, <1>4, <1>5, <2>1, <2>2, <2>3, <2>4, <3>1, <3>2, <3>3
  <2>5. CASE q # r
    BY <1>4, <1>5, <2>5 DEF IInv, ContentionInv
  <2> QED
    BY <2>4, <2>5
<1> QED
  BY <1>8, <1>9, <1>10, <1>11, <1>12, <1>13, <1>14 DEF IInv

LEMMA UseCacheInv ==
    ASSUME IInv, NEW r \in Requests, UseCache(r)
    PROVE  IInv'
<1>1. /\ TypeOK /\ ObjectsInv /\ req[r].pc = "idle" /\ cache # NoBoard
      /\ UNCHANGED <<row, cache, meta, team, restarts>>
  BY DEF IInv, UseCache
<1>2. CASE MutateAndSave(r, cache, heap[cache], meta)
  <2>1. cache \in Attempts /\ heap[cache] \in SUBSET Mutations /\ meta \in Nat
    BY <1>1 DEF TypeOK
  <2>2. meta <= version /\ (meta = version => Kept(body) \subseteq heap[cache])
    BY <1>1 DEF IInv, CacheInv
  <2>3. req[r].try = 1
    BY <1>1, <2>1 DEF IInv, ContentionInv
  <2>4. \A q \in Requests, n \in Tries : Unborn(q, n) => cache # <<q, n>>
    BY <1>1 DEF ObjectsInv
  <2>5. \A n \in Tries : cache = <<r, n>> => n <= req[r].try
    BY <1>1, <2>4, RequestFields DEF Unborn, Tries
  <2>6. cache' = cache /\ meta' = meta
    BY <1>1
  <2> QED
    BY <1>1, <1>2, <2>1, <2>2, <2>3, <2>4, <2>5, <2>6, MutateInv
<1>3. ASSUME NEW pc \in {"ok", "failed"}, Goto(r, pc), UNCHANGED heap
      PROVE  IInv'
  BY <1>1, <1>3, GotoInv DEF Quiet
<1> QED
  BY <1>2, <1>3 DEF UseCache

LEMMA LoadInv ==
    ASSUME IInv, NEW r \in Requests, LoadBoard(r)
    PROVE  IInv'
<1> DEFINE o == Self(r)
<1>1. /\ TypeOK /\ ObjectsInv /\ req[r].pc = "read"
      /\ cache' = o /\ meta' = req[r].ref
      /\ UNCHANGED <<row, team, restarts>>
  BY DEF IInv, LoadBoard
<1>2. /\ o \in Attempts /\ req[r].try \in Tries /\ req[r].try \in Nat
      /\ Kept(req[r].body) \in SUBSET Mutations /\ req[r].ref \in Nat
  BY <1>1, RequestFields DEF Kept
<1>3. /\ req[r].ref <= version /\ (req[r].ref = version => Kept(body) \subseteq Kept(req[r].body))
      /\ req[r].ref + 2 >= req[r].began + req[r].try \/ req[r].try = 1
  BY <1>1 DEF IInv, SnapshotInv, ContentionInv, Kept
<1>4. cache # o /\ \A q \in Requests : req[q].obj # o
  BY <1>1, <1>2 DEF ObjectsInv, Unborn, Self
<1>5. CASE MutateAndSave(r, o, Kept(req[r].body), req[r].ref)
  <2>1. \A q \in Requests, n \in Tries : o = <<q, n>> /\ q # r => ~ Unborn(q, n)
    BY DEF Self
  <2>2. \A n \in Tries : o = <<r, n>> => n <= req[r].try
    BY <1>2 DEF Self
  <2> QED
    BY <1>1, <1>2, <1>3, <1>4, <1>5, <2>1, <2>2, MutateInv
<1>6. ASSUME NEW pc \in {"ok", "failed"}, Goto(r, pc), heap' = [heap EXCEPT ![o] = Kept(req[r].body)]
      PROVE  IInv'
  <2>1. /\ req \in [Requests -> Request] /\ heap \in [Attempts -> SUBSET Mutations]
        /\ req' = [req EXCEPT ![r].pc = pc]
    BY <1>1, <1>6 DEF TypeOK, Goto
  <2>2. /\ req' \in [Requests -> Request]
        /\ \A q \in Requests : /\ req'[q].pc = IF q = r THEN pc ELSE req[q].pc
                               /\ req'[q].try = req[q].try /\ req'[q].obj = req[q].obj
                               /\ req'[q].began = req[q].began
                               /\ req'[q].ref = req[q].ref /\ req'[q].body = req[q].body
    BY <1>6, <2>1 DEF Request, PCs
  <2>3. /\ version' = version /\ body' = body /\ team' = team /\ restarts' = restarts
    BY <1>1 DEF row
  <2> HIDE DEF o
  <2>4. heap' \in [Attempts -> SUBSET Mutations] /\ heap'[o] = Kept(req[r].body)
        /\ \A a \in Attempts : a # o => heap'[a] = heap[a]
    BY <1>2, <1>6, <2>1
  <2>5. \A q \in Requests : req[q].obj # NoBoard => heap'[req[q].obj] = heap[req[q].obj]
    BY <1>1, <1>4, <2>4, RequestFields
  <2>6. TypeOK'
    BY <1>1, <1>2, <2>2, <2>3, <2>4 DEF TypeOK
  <2>7. CacheInv'
    BY <1>1, <1>3, <2>3, <2>4 DEF CacheInv
  <2>8. SnapshotInv'
    BY <1>6, <2>2, <2>3 DEF IInv, SnapshotInv
  <2>9. SavingInv'
    BY <1>6, <2>2, <2>3, <2>5 DEF IInv, SavingInv, Self
  <2>10. SavedInv'
    BY <1>6, <2>2, <2>3, <2>5 DEF IInv, SavedInv
  <2>11. ObjectsInv'
    <3> SUFFICES ASSUME NEW q \in Requests, NEW n \in Tries, Unborn(q, n)'
                 PROVE  o # <<q, n>> /\ \A p \in Requests : req'[p].obj # <<q, n>>
      BY <1>1 DEF ObjectsInv
    <3>1. Unborn(q, n) /\ ~ (q = r /\ n = req[r].try)
      BY <1>2, <1>6, <2>2 DEF Unborn, Tries
    <3>2. o # <<q, n>>
      BY <3>1 DEF o, Self
    <3> QED
      BY <1>1, <2>2, <3>1, <3>2 DEF ObjectsInv
  <2>12. ContentionInv'
    BY <1>6, <2>2, <2>3 DEF IInv, ContentionInv
  <2> QED
    BY <2>6, <2>7, <2>8, <2>9, <2>10, <2>11, <2>12 DEF IInv
<1> QED
  BY <1>5, <1>6 DEF LoadBoard

\* The compare-and-swap: a save that succeeds stores all that is kept of the row.
LEMMA DbSaveAdds ==
    ASSUME IInv, NEW r \in Requests, DbSave(r)
    PROVE  Kept(body) \subseteq body'
BY DEF IInv, DbSave, SnapshotInv, row, Kept

LEMMA DbSaveInv ==
    ASSUME IInv, NEW r \in Requests, DbSave(r)
    PROVE  IInv'
<1>1. /\ TypeOK /\ req[r].pc = "saving" /\ req[r].ref <= version /\ version \in Nat
      /\ UNCHANGED <<memory, team, restarts>>
  BY DEF IInv, DbSave, SnapshotInv, TypeOK
<1>2. /\ req[r].ref \in Nat /\ req[r].try \in Nat /\ req[r].body \subseteq Mutations
      /\ req[r].began \in Nat
  BY <1>1, RequestFields
<1>3. req[r].obj # NoBoard /\ req[r].body \subseteq heap[req[r].obj]
  BY <1>1 DEF IInv, SavingInv
<1>4. ASSUME NEW pc \in {"saved", "conflict"}, Goto(r, pc),
             \/ pc = "saved" /\ version = req[r].ref
                /\ version' = version + 1 /\ body' = req[r].body
             \/ pc = "conflict" /\ version # req[r].ref /\ version' = version /\ body' = body
      PROVE  IInv'
  <2>1. /\ req \in [Requests -> Request]
        /\ req' = [req EXCEPT ![r].pc = pc]
    BY <1>1, <1>4 DEF TypeOK, Goto
  <2>2. /\ req' \in [Requests -> Request]
        /\ \A q \in Requests : /\ req'[q].pc = IF q = r THEN pc ELSE req[q].pc
                               /\ req'[q].try = req[q].try /\ req'[q].obj = req[q].obj
                               /\ req'[q].began = req[q].began
                               /\ req'[q].ref = req[q].ref /\ req'[q].body = req[q].body
    BY <1>4, <2>1 DEF Request, PCs
  <2>3. /\ cache' = cache /\ meta' = meta /\ heap' = heap /\ team' = team
        /\ restarts' = restarts
    BY <1>1 DEF memory
  <2>4. TypeOK'
    BY <1>1, <1>2, <1>4, <2>2, <2>3 DEF TypeOK
  <2>5. \A q \in Requests : req[q].ref \in Nat /\ req[q].try \in Nat /\ req[q].began \in Nat
    BY <1>1, RequestFields
  <2>6. CacheInv'
    BY <1>1, <1>4, <2>3 DEF IInv, CacheInv, TypeOK
  <2>7. SnapshotInv'
    BY <1>1, <1>4, <2>2, <2>5 DEF IInv, SnapshotInv
  <2>8. SavingInv'
    BY <1>4, <2>2, <2>3 DEF IInv, SavingInv, Self
  <2>9. SavedInv'
    BY <1>1, <1>3, <1>4, <2>2, <2>3, <2>5 DEF IInv, SavedInv, Kept
  <2>10. ObjectsInv'
    <3>1. \A q \in Requests, n \in Tries : Unborn(q, n)' => Unborn(q, n)
      BY <1>4, <2>2 DEF Unborn
    <3> QED
      BY <2>2, <2>3, <3>1 DEF IInv, ObjectsInv
  <2>11. ContentionInv'
    <3>1. ASSUME NEW q \in Requests PROVE
            /\ req'[q].pc = "idle" => req'[q].try = 1
            /\ version' >= req'[q].began
            /\ version' + 2 >= req'[q].began + req'[q].try \/ req'[q].try = 1
            /\ req'[q].pc \in {"read", "saving"} =>
                  req'[q].ref + 2 >= req'[q].began + req'[q].try \/ req'[q].try = 1
            /\ req'[q].pc = "conflict" => version' + 1 >= req'[q].began + req'[q].try
            /\ req'[q].pc = "refused" /\ q \in Creates =>
                  version' + 1 >= req'[q].began + MaxRetries
      <4>1. version' >= version /\ version' \in Nat
        BY <1>1, <1>4
      <4>2. pc = "conflict" => version + 1 >= req[r].began + req[r].try
        BY <1>1, <1>2, <1>4 DEF IInv, ContentionInv
      <4>3. MaxRetries \in Nat
        BY StoreAssumption DEF StoreAssumption
      <4> QED
        BY <1>1, <1>4, <2>2, <2>5, <4>1, <4>2, <4>3 DEF IInv, ContentionInv
    <3> QED
      BY <3>1 DEF ContentionInv
  <2> QED
    BY <2>4, <2>6, <2>7, <2>8, <2>9, <2>10, <2>11 DEF IInv
<1> QED
  BY <1>4 DEF DbSave, row

LEMMA FailsInv ==
    ASSUME IInv, NEW r \in Requests, DbFails(r) \/ BroadcastFails(r) \/ SaveFails(r)
    PROVE  IInv'
<1>1. CASE DbFails(r)
  <2>1. Goto(r, "error") \/ Goto(r, "failed")
    BY <1>1 DEF DbFails
  <2>2. UNCHANGED <<row, meta, heap, team, restarts>> /\ cache' = cache
    BY <1>1 DEF DbFails, memory
  <2> QED
    BY <2>1, <2>2, GotoInv DEF Quiet
<1>2. CASE BroadcastFails(r)
  BY <1>2, GotoInv DEF BroadcastFails, Quiet
<1>3. CASE SaveFails(r)
  BY <1>3, GotoInv DEF SaveFails, Quiet
<1> QED
  BY <1>1, <1>2, <1>3

LEMMA FinishInv ==
    ASSUME IInv, NEW r \in Requests, FinishSave(r)
    PROVE  IInv'
<1>1. /\ TypeOK /\ req[r].pc = "saved"
      /\ meta' = req[r].ref + 1 /\ cache' = req[r].obj
      /\ UNCHANGED <<row, heap, team, restarts>>
  BY DEF IInv, FinishSave
<1>2. /\ req[r].ref \in Nat /\ req[r].obj \in Attempts \cup {NoBoard} /\ req[r].obj # NoBoard
      /\ req[r].ref < version /\ version \in Nat
      /\ req[r].ref + 1 = version => Kept(body) \subseteq heap[req[r].obj]
  BY <1>1, RequestFields DEF IInv, SavedInv, TypeOK
<1>3. req \in [Requests -> Request] /\ req' = [req EXCEPT ![r].pc = "ok"]
  BY <1>1 DEF TypeOK, Goto, FinishSave
<1>4. /\ req' \in [Requests -> Request]
      /\ \A q \in Requests : /\ req'[q].pc = IF q = r THEN "ok" ELSE req[q].pc
                             /\ req'[q].try = req[q].try /\ req'[q].obj = req[q].obj
                             /\ req'[q].began = req[q].began
                             /\ req'[q].ref = req[q].ref /\ req'[q].body = req[q].body
  BY <1>3 DEF Request, PCs
<1>5. /\ version' = version /\ body' = body /\ heap' = heap /\ team' = team
      /\ restarts' = restarts
  BY <1>1 DEF row
<1>6. TypeOK'
  BY <1>1, <1>2, <1>4, <1>5 DEF TypeOK
<1>7. CacheInv'
  BY <1>1, <1>2, <1>5 DEF CacheInv
<1>8. SnapshotInv'
  BY <1>4, <1>5 DEF IInv, SnapshotInv
<1>9. SavingInv'
  BY <1>4, <1>5 DEF IInv, SavingInv, Self
<1>10. SavedInv'
  BY <1>4, <1>5 DEF IInv, SavedInv
<1>11. ObjectsInv'
  <2>1. \A q \in Requests, n \in Tries : Unborn(q, n)' => Unborn(q, n)
    BY <1>4 DEF Unborn
  <2> QED
    BY <1>1, <1>4, <2>1 DEF IInv, ObjectsInv
<1>12. ContentionInv'
  BY <1>4, <1>5 DEF IInv, ContentionInv
<1> QED
  BY <1>6, <1>7, <1>8, <1>9, <1>10, <1>11, <1>12 DEF IInv

LEMMA ConflictInv ==
    ASSUME IInv, NEW r \in Requests, Conflict(r)
    PROVE  IInv'
<1>1. /\ TypeOK /\ req[r].pc = "conflict" /\ cache' = NoBoard
      /\ UNCHANGED <<row, meta, heap, team, restarts>>
  BY DEF IInv, Conflict
<1>2. /\ req[r].try \in Nat /\ req[r].began \in Nat
      /\ version + 1 >= req[r].began + req[r].try
      /\ req[r].try >= 1 /\ MaxRetries \in Nat /\ version \in Nat
  BY <1>1, RequestFields, StoreAssumption DEF IInv, ContentionInv, StoreAssumption, TypeOK
<1>3. ASSUME NEW pc \in {"reading", "refused"}, NEW try \in Tries,
             req' = [req EXCEPT ![r].pc = pc, ![r].try = try],
             \/ pc = "reading" /\ try = req[r].try + 1
             \/ pc = "refused" /\ try = req[r].try /\ (r \in Creates => try >= MaxRetries)
      PROVE  IInv'
  <2>1. req \in [Requests -> Request] /\ try \in Nat
    BY <1>1 DEF TypeOK, Tries
  <2>2. /\ req' \in [Requests -> Request]
        /\ \A q \in Requests : /\ q # r => req'[q] = req[q]
                               /\ req'[q].obj = req[q].obj
        /\ req'[r].pc = pc /\ req'[r].try = try /\ req'[r].began = req[r].began
    BY <1>3, <2>1 DEF Request, PCs
  <2>3. /\ version' = version /\ body' = body /\ heap' = heap /\ team' = team
        /\ restarts' = restarts /\ meta' = meta
    BY <1>1 DEF row
  <2>4. TypeOK'
    BY <1>1, <2>2, <2>3 DEF TypeOK
  <2>5. CacheInv'
    BY <1>1, <2>3 DEF IInv, CacheInv
  <2>6. SnapshotInv'
    BY <1>3, <2>2, <2>3 DEF IInv, SnapshotInv
  <2>7. SavingInv'
    BY <1>3, <2>2, <2>3 DEF IInv, SavingInv, Self
  <2>8. SavedInv'
    BY <1>3, <2>2, <2>3 DEF IInv, SavedInv
  <2>9. ObjectsInv'
    <3>1. \A q \in Requests, n \in Tries :
              NoBoard # <<q, n>> /\ (Unborn(q, n)' => Unborn(q, n))
      BY <1>1, <1>2, <1>3, <2>1, <2>2, StoreAssumption
      DEF StoreAssumption, Attempts, Unborn, Tries
    <3> QED
      BY <1>1, <2>2, <3>1 DEF IInv, ObjectsInv
  <2>10. ContentionInv'
    BY <1>2, <1>3, <2>1, <2>2, <2>3 DEF IInv, ContentionInv
  <2> QED
    BY <2>4, <2>5, <2>6, <2>7, <2>8, <2>9, <2>10 DEF IInv
<1>4. CASE MayRetry(r)
  <2>1. req' = [req EXCEPT ![r].pc = "reading", ![r].try = req[r].try + 1]
    BY <1>4 DEF Conflict
  <2>2. req[r].try + 1 \in Tries
    BY <1>2, <1>4 DEF MayRetry, Tries
  <2> QED
    BY <1>3, <2>1, <2>2
<1>5. CASE ~ MayRetry(r)
  <2>1. req' = [req EXCEPT ![r].pc = "refused", ![r].try = req[r].try]
    <3>1. req \in [Requests -> Request] /\ req' = [req EXCEPT ![r].pc = "refused"]
      BY <1>1, <1>5 DEF Conflict, Goto, TypeOK
    <3> QED
      BY <3>1 DEF Request
  <2>2. req[r].try \in Tries /\ (r \in Creates => req[r].try >= MaxRetries)
    BY <1>1, <1>2, <1>5, RequestFields DEF MayRetry
  <2> QED
    BY <1>3, <2>1, <2>2
<1> QED
  BY <1>4, <1>5

LEMMA TeamReadInv ==
    ASSUME IInv, NEW e \in TeamWriters, TeamRead(e)
    PROVE  IInv'
<1>1. /\ version' = version /\ body' = body /\ meta' = meta /\ heap' = heap
      /\ cache' = cache /\ req' = req /\ restarts' = restarts
      /\ team' = [team EXCEPT ![e] = [pc |-> "read", body |-> body]]
  BY DEF TeamRead, row, memory
<1>2. TypeOK'
  BY <1>1 DEF IInv, TypeOK
<1> QED
  BY <1>1, <1>2 DEF IInv, CacheInv, SnapshotInv, SavingInv, SavedInv, ObjectsInv,
                    ContentionInv, Unborn, Self

LEMMA TeamWriteInv ==
    ASSUME IInv, NEW e \in TeamWriters, TeamWrite(e)
    PROVE  IInv'
<1>1. /\ version' = version + 1 /\ body' = team[e].body \cup {<<e, 0>>} /\ meta' = meta
      /\ heap' = heap /\ cache' = cache /\ req' = req /\ restarts' = restarts
      /\ team' = [team EXCEPT ![e].pc = "ok"]
  BY DEF TeamWrite, memory
<1>2. TypeOK /\ version \in Nat /\ meta \in Nat /\ MaxRetries \in Nat
      /\ \A r \in Requests : req[r].ref \in Nat /\ req[r].try \in Nat /\ req[r].began \in Nat
  BY RequestFields, StoreAssumption DEF IInv, TypeOK, StoreAssumption
<1>3. TypeOK'
  <2>1. body' \subseteq Mutations
    BY <1>1, <1>2 DEF TypeOK, Mutations
  <2> QED
    BY <1>1, <1>2, <2>1 DEF TypeOK
<1>4. CacheInv' /\ SnapshotInv' /\ SavedInv'
  BY <1>1, <1>2 DEF IInv, CacheInv, SnapshotInv, SavedInv
<1>5. SavingInv' /\ ObjectsInv'
  BY <1>1 DEF IInv, SavingInv, ObjectsInv, Unborn, Self
<1>6. ContentionInv'
  BY <1>1, <1>2 DEF IInv, ContentionInv
<1> QED
  BY <1>3, <1>4, <1>5, <1>6 DEF IInv

LEMMA RestartInv ==
    ASSUME IInv, Restart
    PROVE  IInv'
<1>1. /\ version' = version /\ body' = body /\ heap' = heap
      /\ cache' = NoBoard /\ meta' = 0 /\ restarts' = restarts + 1
      /\ req' = [r \in Requests |->
                   IF req[r].pc \in Answered \cup {"idle"} THEN req[r]
                   ELSE [req[r] EXCEPT !.pc = "lost"]]
      /\ team' = [e \in TeamWriters |->
                   IF team[e].pc = "read" THEN [team[e] EXCEPT !.pc = "lost"] ELSE team[e]]
  BY DEF Restart, row
<1>2. TypeOK
  BY DEF IInv
<1>3. ASSUME NEW q \in Requests
      PROVE  /\ req'[q] \in Request
             /\ req'[q].try = req[q].try /\ req'[q].obj = req[q].obj
             /\ req'[q].began = req[q].began
             /\ \/ req'[q].pc = req[q].pc /\ req[q].pc \in Answered \cup {"idle"}
                \/ req'[q].pc = "lost"
  <2>1. req[q] \in Request
    BY <1>2 DEF TypeOK
  <2> QED
    BY <1>1, <2>1 DEF Request, PCs
<1>4. TypeOK'
  <2>1. req' \in [Requests -> Request]
    BY <1>1, <1>3
  <2>2. team' \in [TeamWriters ->
                     [pc : {"idle", "read", "ok", "lost"}, body : SUBSET Mutations]]
    BY <1>1, <1>2 DEF TypeOK
  <2> QED
    BY <1>1, <1>2, <2>1, <2>2 DEF TypeOK
<1>5. CacheInv'
  BY <1>1, <1>2 DEF CacheInv, TypeOK
<1>6. SnapshotInv' /\ SavingInv' /\ SavedInv'
  BY <1>3 DEF SnapshotInv, SavingInv, SavedInv, Answered
<1>7. ObjectsInv'
  <2>1. \A q \in Requests, n \in Tries : NoBoard # <<q, n>> /\ (Unborn(q, n)' => Unborn(q, n))
    BY <1>3, StoreAssumption DEF StoreAssumption, Attempts, Unborn
  <2> QED
    BY <1>1, <1>3, <2>1 DEF IInv, ObjectsInv
<1>8. ContentionInv'
  BY <1>1, <1>3 DEF IInv, ContentionInv, Answered
<1> QED
  BY <1>4, <1>5, <1>6, <1>7, <1>8 DEF IInv

LEMMA InitInv == Init => IInv
<1> SUFFICES ASSUME Init PROVE IInv
  OBVIOUS
<1>1. \A r \in Requests :
          req[r] = [pc |-> "idle", try |-> 1, began |-> 0, obj |-> NoBoard, ref |-> 0, body |-> {}]
  BY DEF Init
<1>2. TypeOK
  <2>1. 1 \in Tries
    BY StoreAssumption DEF StoreAssumption, Tries
  <2> QED
    BY <2>1 DEF Init, TypeOK, Request, PCs
<1>3. CacheInv /\ SnapshotInv /\ SavingInv /\ SavedInv /\ ContentionInv
  BY <1>1 DEF Init, CacheInv, SnapshotInv, SavingInv, SavedInv, ContentionInv
<1>4. ObjectsInv
  BY <1>1, StoreAssumption DEF Init, ObjectsInv, StoreAssumption, Attempts
<1> QED
  BY <1>2, <1>3, <1>4 DEF IInv

LEMMA NextInv == IInv /\ [Next]_vars => IInv'
<1> SUFFICES ASSUME IInv, [Next]_vars PROVE IInv'
  OBVIOUS
<1>1. CASE UNCHANGED vars
  BY <1>1 DEF vars, IInv, TypeOK, CacheInv, SnapshotInv, SavingInv, SavedInv, ObjectsInv,
              ContentionInv, Unborn, Self
<1>2. ASSUME NEW r \in Requests, UseCache(r) \/ MissCache(r) \/ DbFails(r) \/ Progress(r)
      PROVE  IInv'
  BY <1>2, UseCacheInv, MissInv, DbReadInv, LoadInv, DbSaveInv, FailsInv, FinishInv,
     ConflictInv DEF Progress
<1>3. ASSUME NEW e \in TeamWriters, TeamRead(e) \/ TeamWrite(e)
      PROVE  IInv'
  BY <1>3, TeamReadInv, TeamWriteInv
<1> QED
  BY <1>1, <1>2, <1>3, RestartInv DEF Next

LEMMA InvHolds == Spec => []IInv
BY InitInv, NextInv, PTL DEF Spec

-----------------------------------------------------------------------------
(* The theorems.                                                            *)

\* Versions, objects and requests stay well formed.
THEOREM TypeCorrect == Spec => []TypeOK
<1>1. IInv => TypeOK
  BY DEF IInv
<1> QED
  BY <1>1, InvHolds, PTL

\* A save of the orchestrator drops what a board object does not hold, and
\* nothing else, with any number of requests, team writers of both kinds,
\* retries and restarts.
THEOREM SavesNeverRemove == Spec => SavesOnlyAdd
<1>1. IInv /\ [Next]_vars => [(\E r \in Requests : DbSave(r)) => Kept(body) \subseteq body']_vars
  BY DbSaveAdds
<1> QED
  BY <1>1, InvHolds, PTL DEF Spec, SavesOnlyAdd

\* createTask gives up only on a board that was written at least MaxRetries - 1
\* times while it was trying.
THEOREM RefusedOnlyUnderContention == Spec => []GivesUpOnlyUnderContention
<1>1. IInv => GivesUpOnlyUnderContention
  BY DEF IInv, ContentionInv, GivesUpOnlyUnderContention, Requests
<1> QED
  BY <1>1, InvHolds, PTL

-----------------------------------------------------------------------------
(* Refinement of the ledger, when only the orchestrator writes the artifact. *)

\* Only a request that mutates is ever saving; what it saved is stored.
LedgerInv ==
    \A r \in Requests :
        /\ req[r].pc \in {"saving", "saved", "conflict", "error"} => r \notin Reads
        /\ req[r].pc = "saved" => Self(r) \in body

\* The requests after a step that changes the pc of one request.
LEMMA TypedRequests ==
    ASSUME TypeOK, NEW r \in Requests, NEW pc, Goto(r, pc)
    PROVE  \A q \in Requests : /\ req'[q].pc = IF q = r THEN pc ELSE req[q].pc
                              /\ req'[q].try = req[q].try
BY DEF TypeOK, Goto, Request

\* How a step changes the states of the requests.
LEMMA MutateMoves ==
    ASSUME TypeOK, NEW r \in Requests, NEW o, NEW contents, NEW ref,
           MutateAndSave(r, o, contents, ref)
    PROVE  \A q \in Requests : /\ req'[q].pc = IF q = r THEN "saving" ELSE req[q].pc
                              /\ req'[q].try = req[q].try
BY DEF TypeOK, MutateAndSave, Request

\* Each action keeps the ledger's invariant and is a step of the ledger or
\* none.
LEMMA LedgerStep ==
    ASSUME IInv, LedgerInv, [Next]_vars, TeamWriters = {}
    PROVE  LedgerInv' /\ [Ledger!Next]_<<body, Told>>
<1> DEFINE Goal == LedgerInv' /\ [Ledger!Next]_<<body, Told>>
<1>1. TypeOK
  BY DEF IInv
<1>2. CASE UNCHANGED vars
  BY <1>2 DEF vars, LedgerInv, Told, Self
<1>3. ASSUME NEW r \in Requests, NEW pc, Goto(r, pc), body' = body,
             pc \notin {"saving", "saved"}, pc \in {"conflict", "error"} => r \notin Reads,
             req[r].pc # "ok", pc = "ok" => r \in Reads
      PROVE  Goal
  <2>1. \A q \in Requests : /\ req'[q].pc = IF q = r THEN pc ELSE req[q].pc
                           /\ req'[q].try = req[q].try
    BY <1>1, <1>3, TypedRequests
  <2>2. LedgerInv'
    BY <1>3, <2>1 DEF LedgerInv, Self
  <2>3. Told' = Told
    BY <1>3, <2>1 DEF Told
  <2> QED
    BY <1>3, <2>2, <2>3
<1>4. ASSUME NEW r \in Requests \ Reads, NEW o, NEW contents, NEW ref,
             MutateAndSave(r, o, contents, ref), body' = body, req[r].pc # "ok"
      PROVE  Goal
  <2>1. \A q \in Requests : /\ req'[q].pc = IF q = r THEN "saving" ELSE req[q].pc
                           /\ req'[q].try = req[q].try
    BY <1>1, <1>4, MutateMoves
  <2>2. LedgerInv'
    BY <1>4, <2>1 DEF LedgerInv, Self
  <2>3. Told' = Told
    BY <1>4, <2>1 DEF Told
  <2> QED
    BY <1>4, <2>2, <2>3
<1>5. ASSUME NEW r \in Requests, UseCache(r) PROVE Goal
  BY <1>3, <1>4, <1>5 DEF UseCache, row
<1>6. ASSUME NEW r \in Requests, LoadBoard(r) PROVE Goal
  <2>1. CASE r \notin Reads /\ MutateAndSave(r, Self(r), Kept(req[r].body), req[r].ref)
    BY <1>4, <1>6, <2>1 DEF LoadBoard, row
  <2>2. CASE Goto(r, IF r \in Reads THEN "ok" ELSE "failed")
    BY <1>3, <1>6, <2>2 DEF LoadBoard, row
  <2> QED
    BY <1>6, <2>1, <2>2 DEF LoadBoard
<1>7. ASSUME NEW r \in Requests,
             MissCache(r) \/ DbFails(r) \/ BroadcastFails(r) \/ SaveFails(r)
      PROVE  Goal
  <2>1. CASE MissCache(r)
    <3>1. /\ body' = body /\ req[r].pc = "idle"
          /\ \A q \in Requests : /\ req'[q].pc = IF q = r THEN "reading" ELSE req[q].pc
                                 /\ req'[q].try = req[q].try
      BY <1>1, <2>1 DEF MissCache, row, TypeOK, Request
    <3>2. Told' = Told
      BY <3>1 DEF Told
    <3> QED
      BY <3>1, <3>2 DEF LedgerInv, Self
  <2>2. CASE DbFails(r)
    BY <1>3, <2>2 DEF DbFails, row, LedgerInv
  <2>3. CASE BroadcastFails(r)
    BY <1>3, <2>3 DEF BroadcastFails, row
  <2>4. CASE SaveFails(r)
    BY <1>3, <2>4 DEF SaveFails, row
  <2> QED
    BY <1>7, <2>1, <2>2, <2>3, <2>4
<1>8. ASSUME NEW r \in Requests, DbRead(r) PROVE Goal
  <2>1. /\ body' = body
        /\ \A q \in Requests : /\ req'[q].pc = IF q = r THEN "read" ELSE req[q].pc
                               /\ req'[q].try = req[q].try
    BY <1>1, <1>8 DEF DbRead, row, TypeOK, Request
  <2>2. Told' = Told
    <3>1. req[r].pc = "reading"
      BY <1>8 DEF DbRead
    <3> QED
      BY <2>1, <3>1 DEF Told
  <2> QED
    BY <2>1, <2>2 DEF LedgerInv, Self
<1>9. ASSUME NEW r \in Requests, Conflict(r) PROVE Goal
  <2>1. CASE MayRetry(r)
    <3>1. /\ body' = body /\ req[r].pc = "conflict"
          /\ req' = [req EXCEPT ![r].pc = "reading", ![r].try = @ + 1]
      BY <1>9, <2>1 DEF Conflict, row
    <3>2. /\ req'[r].pc = "reading"
          /\ \A q \in Requests : q # r => req'[q] = req[q]
      BY <1>1, <3>1 DEF TypeOK, Request
    <3>3. Told' = Told
      BY <3>1, <3>2 DEF Told
    <3>4. LedgerInv'
      <4> SUFFICES ASSUME NEW q \in Requests
                   PROVE  /\ req'[q].pc \in {"saving", "saved", "conflict", "error"} => q \notin Reads
                          /\ req'[q].pc = "saved" => Self(q)' \in body'
        BY DEF LedgerInv
      <4>1. CASE q = r
        <5>1. req'[q].pc = "reading"
          BY <3>2, <4>1
        <5> QED
          BY <5>1
      <4>2. CASE q # r
        <5>1. req'[q] = req[q] /\ Self(q)' = Self(q)
          BY <3>2, <4>2 DEF Self
        <5>2. /\ req[q].pc \in {"saving", "saved", "conflict", "error"} => q \notin Reads
              /\ req[q].pc = "saved" => Self(q) \in body
          BY DEF LedgerInv
        <5> QED
          BY <3>1, <5>1, <5>2
      <4> QED
        BY <4>1, <4>2
    <3> QED
      BY <3>1, <3>3, <3>4
  <2>2. CASE ~ MayRetry(r)
    BY <1>3, <1>9, <2>2 DEF Conflict, row
  <2> QED
    BY <2>1, <2>2
<1>10. ASSUME NEW r \in Requests, DbSave(r) PROVE Goal
  <2>1. body \subseteq body' /\ body' \subseteq Mutations
    <3>1. IInv'
      BY <1>10, DbSaveInv
    <3>2. Kept(body) \subseteq body'
      BY <1>10, DbSaveAdds
    <3>3. Kept(body) = body
      BY StoreAssumption DEF Kept, StoreAssumption
    <3> QED
      BY <3>1, <3>2, <3>3 DEF IInv, TypeOK
  <2>2. PICK pc \in {"saved", "conflict"} :
            Goto(r, pc) /\ (pc = "saved" => body' = req[r].body)
    BY <1>10 DEF DbSave, row
  <2>3. \A q \in Requests : /\ req'[q].pc = IF q = r THEN pc ELSE req[q].pc
                           /\ req'[q].try = req[q].try
    BY <1>1, <2>2, TypedRequests
  <2>4. req[r].pc = "saving" /\ Self(r) \in req[r].body /\ r \notin Reads
    BY <1>10 DEF DbSave, IInv, SavingInv, LedgerInv
  <2>5. LedgerInv'
    BY <2>1, <2>2, <2>3, <2>4 DEF LedgerInv, Self
  <2>6. Told' = Told
    BY <2>2, <2>3, <2>4 DEF Told
  <2>7. Ledger!Store
    BY <2>1, <2>6 DEF Ledger!Store
  <2> QED
    BY <2>5, <2>7 DEF Ledger!Next
<1>11. ASSUME NEW r \in Requests, FinishSave(r) PROVE Goal
  <2>1. req[r].pc = "saved" /\ Goto(r, "ok") /\ body' = body
    BY <1>11 DEF FinishSave, row
  <2>2. \A q \in Requests : /\ req'[q].pc = IF q = r THEN "ok" ELSE req[q].pc
                           /\ req'[q].try = req[q].try
    BY <1>1, <2>1, TypedRequests
  <2>3. r \notin Reads /\ Self(r) \in body /\ req[r].try \in Tries
    BY <1>1, <2>1, RequestFields DEF LedgerInv
  <2>4. LedgerInv'
    BY <2>1, <2>2 DEF LedgerInv, Self
  <2>5. Told' = Told \cup {r}
    BY <2>2, <2>3 DEF Told
  <2>6. Ledger!Tell(r)
    BY <2>1, <2>3, <2>5 DEF Ledger!Tell, Self
  <2> QED
    BY <2>4, <2>6 DEF Ledger!Next
<1>12. CASE Restart
  <2>1. /\ body' = body
        /\ req' = [r \in Requests |->
                     IF req[r].pc \in Answered \cup {"idle"} THEN req[r]
                     ELSE [req[r] EXCEPT !.pc = "lost"]]
    BY <1>12 DEF Restart, row
  <2>2. \A q \in Requests :
           /\ req'[q].pc = IF req[q].pc \in Answered \cup {"idle"} THEN req[q].pc ELSE "lost"
           /\ req'[q].try = req[q].try
    BY <1>1, <2>1 DEF TypeOK, Request
  <2>3. LedgerInv'
    BY <2>1, <2>2 DEF LedgerInv, Self, Answered
  <2>4. Told' = Told
    BY <2>2 DEF Told, Answered
  <2> QED
    BY <2>1, <2>3, <2>4
<1> QED
  BY <1>2, <1>5, <1>6, <1>7, <1>8, <1>9, <1>10, <1>11, <1>12 DEF Next, Progress

\* With the task routes as the only writers of the artifact the store is a
\* ledger of mutations: what was stored stays stored, and a caller is told that
\* its mutation is saved only when it is.
THEOREM LedgerImplemented ==
    ASSUME TeamWriters = {}
    PROVE  Spec => ImplementsLedger
<1>1. Init => LedgerInv /\ Ledger!Init
  <2> SUFFICES ASSUME Init PROVE LedgerInv /\ Ledger!Init
    OBVIOUS
  <2>1. \A r \in Requests : req[r].pc = "idle"
    BY DEF Init
  <2> QED
    BY <2>1 DEF Init, LedgerInv, Ledger!Init, Told
<1>2. IInv /\ LedgerInv /\ [Next]_vars => LedgerInv' /\ [Ledger!Next]_<<body, Told>>
  BY LedgerStep
<1> QED
  BY <1>1, <1>2, InvHolds, PTL DEF Spec, ImplementsLedger, Ledger!Spec

=============================================================================
