------------------------ MODULE VersionedRecordProofs ------------------------
(***************************************************************************)
(* Over the routes that compare versions when they write, the handlers     *)
(* implement the versioned register, lose no update and let who lost a     *)
(* race catch up, for any number of requests, any kinds of records and     *)
(* any failures.                                                           *)
(***************************************************************************)
EXTENDS VersionedRecord, TLAPS

-----------------------------------------------------------------------------
(* The inductive invariant.                                                 *)

\* A request keeps to the parts of its route: an update names a version of
\* each part it updates, a creation is of the whole record.
\* Only updates mismatch.
Shaped(q) ==
    /\ q.route.of = kind
    /\ q.parts # {} /\ q.parts \subseteq q.route.parts
    /\ Stated(q) = IF q.route.does = "update" THEN q.parts ELSE {}
    /\ q.route.does # "update" => q.parts = q.route.parts /\ q.pc \notin {"reread", "mismatch"}
Routed == \A r \in Requests : req[r] # None => Shaped(req[r])

\* The history has lives that were, and of this one the versions up to the
\* current one.
Dated ==
    \A d \in done :
        /\ d.life <= row.life /\ d.version >= 1
        /\ d.life = row.life => d.version <= row.ver[d.part]
Contiguous ==
    row.exists => \A p \in PartsOf(kind) : \A n \in 1 .. row.ver[p] :
        \E d \in done : d.life = row.life /\ d.part = p /\ d.version = n

\* Who is in the history has written, and an update wrote the version after
\* the one it named.
Wrote ==
    \A d \in done : d.by \in Requests =>
        /\ req[d.by] # None /\ req[d.by].pc \in {"note", "ok", "error"}
        /\ d.part \in Stated(req[d.by]) => d.version = req[d.by].expected[d.part] + 1

OneWriter ==
    \A d, e \in done :
        d.life = e.life /\ d.part = e.part /\ d.version = e.version => d.by = e.by

\* Who is about to be told of a success has written.
Succeeded ==
    \A r \in Requests : req[r] # None /\ req[r].pc \in {"note", "ok"} /\ ~Does(r, "delete")
        => \E d \in done : d.by = r

History == Dated /\ Contiguous /\ Wrote /\ OneWriter /\ Succeeded
IInv == TypeOK /\ Routed /\ History

Checks == Routes \subseteq Compared

-----------------------------------------------------------------------------
(* The routes and the helpers.                                              *)

\* The parts of a record that can be created; others may have any.
Whole(of) ==
    CASE of = "artifact" -> {"header", "body"} [] of = "accessKey" -> {"data"} [] OTHER -> Parts

\* A route updates some known parts, creates or deletes; those at hand all
\* compare and write the version after the one that was named.
LEMMA RouteShape ==
    ASSUME NEW route \in Routes
    PROVE  /\ route.does \in {"update", "create", "delete"}
           /\ route.parts \subseteq Parts /\ route.parts # {}
           /\ route.parts \subseteq Whole(route.of)
           /\ route.does # "update" => route.parts = Whole(route.of)
           /\ Checks => route.compares /\ ~route.increments
  <1> USE DEF Parts, Update, Whole
  <1> DEFINE Shape(x) == /\ x.does \in {"update", "create", "delete"}
                         /\ x.parts \subseteq Parts /\ x.parts # {}
                         /\ x.parts \subseteq Whole(x.of)
                         /\ x.does # "update" => x.parts = Whole(x.of)
             Checked(x) == x.compares /\ ~x.increments
  <1>1. Shape(UpdateMetadata) /\ Checked(UpdateMetadata)
    BY DEF UpdateMetadata
  <1>2. Shape(UpdateState) /\ Checked(UpdateState)
    BY DEF UpdateState
  <1>3. Shape(MachineUpdateMetadata) /\ Checked(MachineUpdateMetadata)
    BY DEF MachineUpdateMetadata
  <1>4. Shape(MachineUpdateState) /\ Checked(MachineUpdateState)
    BY DEF MachineUpdateState
  <1>5. Shape(ArtifactUpdate) /\ Checked(ArtifactUpdate)
    BY DEF ArtifactUpdate
  <1>6. Shape(AccessKeyUpdate) /\ Checked(AccessKeyUpdate)
    BY DEF AccessKeyUpdate
  <1>7. Shape(SettingsUpdate) /\ Checked(SettingsUpdate)
    BY DEF SettingsUpdate
  <1>8. Shape(ArtifactCreate) /\ Checked(ArtifactCreate)
    BY DEF ArtifactCreate, ArtifactUpdate
  <1>9. Shape(AccessKeyCreate) /\ Checked(AccessKeyCreate)
    BY DEF AccessKeyCreate, AccessKeyUpdate
  <1>10. Shape(ArtifactDelete) /\ Checked(ArtifactDelete)
    BY DEF ArtifactDelete, ArtifactUpdate
  <1>11. Shape(PostArtifact) /\ Shape(PostMetadata)
    BY DEF PostArtifact, PostMetadata, ArtifactUpdate
  <1> HIDE DEF Parts, Update, Whole, Shape, Checked
  <1>12. Shape(route) /\ (Checks => Checked(route))
    BY <1>1, <1>2, <1>3, <1>4, <1>5, <1>6, <1>7, <1>8, <1>9, <1>10, <1>11, RecordAssumption
       DEF Compared, Uncompared, Checks
  <1> QED BY <1>12 DEF Shape, Checked

\* The parts of a route are parts of the record it is about.
LEMMA RouteParts ==
    ASSUME NEW route \in Routes
    PROVE  /\ route.parts \subseteq PartsOf(route.of)
           /\ route.does # "update" => route.parts = PartsOf(route.of)
  <1>1. route.parts \subseteq PartsOf(route.of)
    BY DEF PartsOf
  <1>2. PartsOf(route.of) \subseteq Whole(route.of)
    <2> SUFFICES ASSUME NEW x \in Routes, x.of = route.of
                 PROVE  x.parts \subseteq Whole(route.of)
      BY DEF PartsOf
    <2> QED BY RouteShape
  <1> QED BY <1>1, <1>2, RouteShape

\* What is there of a part is a value.
LEMMA CurrentValue ==
    ASSUME TypeOK, NEW p \in Parts
    PROVE  Current(p) \in Value
  BY DEF TypeOK, Current, Value

\* The requests change one at a time, and keep their types.
TypedRequests == req \in [Requests -> {None} \cup Request]
Others(r) == \A s \in Requests \ {r} : req'[s] = req[s]
Same(r) ==
    /\ req'[r].route = req[r].route /\ req'[r].parts = req[r].parts
    /\ req'[r].expected = req[r].expected

LEMMA Replaced ==
    ASSUME TypedRequests, NEW r \in Requests, NEW q \in Request, req' = [req EXCEPT ![r] = q]
    PROVE  TypedRequests' /\ Others(r) /\ req'[r] = q
  BY DEF TypedRequests, Others

LEMMA GoesOn ==
    ASSUME TypedRequests, NEW r \in Requests, req[r] # None,
           NEW pc \in UnderWay \cup Ended \cup {"mismatch"}, Goes(r, pc)
    PROVE  /\ TypedRequests' /\ Others(r) /\ Same(r)
           /\ req'[r] # None /\ req'[r].pc = pc /\ req'[r].known = req[r].known
  <1> DEFINE q == [req[r] EXCEPT !.pc = pc]
  <1>1. req[r] \in Request
    BY DEF TypedRequests
  <1>2. /\ q \in Request /\ q.pc = pc /\ q.known = req[r].known /\ q.route = req[r].route
        /\ q.parts = req[r].parts /\ q.expected = req[r].expected
    BY <1>1 DEF Request
  <1>3. q # None
    BY <1>2, RecordAssumption
  <1>4. req' = [req EXCEPT ![r] = q]
    BY DEF Goes
  <1> HIDE DEF q
  <1> QED BY <1>2, <1>3, <1>4 DEF TypedRequests, Others, Same

\* The same with a life and what is known.
Changes(r, pc, life, known) ==
    req' = [req EXCEPT ![r].pc = pc, ![r].life = life, ![r].known = known]

LEMMA GoesKnowing ==
    ASSUME TypedRequests, NEW r \in Requests, req[r] # None,
           NEW pc \in UnderWay \cup Ended \cup {"mismatch"},
           NEW life \in Nat, NEW known \in [Parts -> Value \cup {None}],
           Changes(r, pc, life, known)
    PROVE  /\ TypedRequests' /\ Others(r) /\ Same(r)
           /\ req'[r] # None /\ req'[r].pc = pc /\ req'[r].known = known
  <1> DEFINE q == [req[r] EXCEPT !.pc = pc, !.life = life, !.known = known]
  <1>1. req[r] \in Request
    BY DEF TypedRequests
  <1>2. /\ q \in Request /\ q.pc = pc /\ q.known = known /\ q.route = req[r].route
        /\ q.parts = req[r].parts /\ q.expected = req[r].expected
    BY <1>1 DEF Request
  <1>3. q # None
    BY <1>2, RecordAssumption
  <1>4. req' = [req EXCEPT ![r] = q]
    BY DEF Changes
  <1> HIDE DEF q
  <1>5. TypedRequests' /\ Others(r) /\ req'[r] = q
    BY <1>2, <1>4, Replaced
  <1> QED BY <1>2, <1>3, <1>5 DEF Same

\* Learning of some parts is such a step.
LEMMA LearnsTyped ==
    ASSUME TypeOK, NEW r \in Requests, req[r] # None,
           NEW pc \in {"write", "mismatch"}, NEW parts, parts \subseteq req[r].parts,
           Learns(r, pc, parts)
    PROVE  /\ TypedRequests' /\ Others(r) /\ Same(r)
           /\ req'[r] # None /\ req'[r].pc = pc
           /\ Known(req'[r]) \subseteq req'[r].parts
  <1> DEFINE known == [p \in Parts |-> IF p \in parts THEN Current(p) ELSE None]
  <1>1. known \in [Parts -> Value \cup {None}] /\ \A p \in Parts : known[p] # None => p \in parts
    BY CurrentValue
  <1>2. TypedRequests /\ row.life \in Nat /\ pc \in UnderWay \cup Ended \cup {"mismatch"}
    BY DEF TypeOK, TypedRequests, UnderWay, Ended
  <1>3. Changes(r, pc, row.life, known)
    BY DEF Learns, Changes
  <1> HIDE DEF known
  <1>4. /\ TypedRequests' /\ Others(r) /\ Same(r)
        /\ req'[r] # None /\ req'[r].pc = pc /\ req'[r].known = known
    BY <1>2, <1>3, <1>1, GoesKnowing
  <1>5. Known(req'[r]) \subseteq req'[r].parts
    BY <1>4, <1>1 DEF Known, Same
  <1> QED BY <1>4, <1>5

-----------------------------------------------------------------------------
(* Steps of a request that write nothing.                                   *)

\* They keep the types and the history, if the request knows only of its
\* parts, and is only told of a success it was about to be told of.
LEMMA Quiet ==
    ASSUME IInv, NEW r \in Requests, req[r] # None,
           UNCHANGED <<kind, done>>, row' = row \/ row' = [row EXCEPT !.exists = FALSE],
           TypeOK',
           Others(r), Same(r), req'[r] # None,
           req[r].pc \in {"read", "write", "reread"} \/ req'[r].pc \in {"ok", "error"},
           req'[r].pc \in {"note", "ok"} => req[r].pc = "note" \/ Does(r, "delete"),
           req'[r].pc \in {"reread", "mismatch"} => Does(r, "update")
    PROVE  IInv'
  <1>1. row'.life = row.life /\ row'.ver = row.ver /\ (row'.exists => row.exists)
    BY DEF IInv, TypeOK
  <1>2. Routed'
    <2> SUFFICES ASSUME NEW s \in Requests, req'[s] # None
                 PROVE  Shaped(req[s])'
      BY DEF Routed
    <2>1. CASE s = r
      BY <2>1 DEF IInv, Routed, Shaped, Same, Stated, Does
    <2>2. CASE s # r
      BY <2>2 DEF IInv, Routed, Shaped, Others, Stated
    <2> QED BY <2>1, <2>2
  <1>3. Dated' /\ Contiguous' /\ OneWriter'
    BY <1>1 DEF IInv, History, Dated, Contiguous, OneWriter
  <1>4. Wrote'
    <2> SUFFICES ASSUME NEW d \in done, d.by \in Requests
                 PROVE  /\ req'[d.by] # None /\ req'[d.by].pc \in {"note", "ok", "error"}
                        /\ d.part \in Stated(req'[d.by])
                              => d.version = req'[d.by].expected[d.part] + 1
      BY DEF Wrote, Stated
    <2>1. /\ req[d.by] # None /\ req[d.by].pc \in {"note", "ok", "error"}
          /\ d.part \in Stated(req[d.by]) => d.version = req[d.by].expected[d.part] + 1
      BY DEF IInv, History, Wrote
    <2>2. CASE d.by = r
      BY <2>1, <2>2 DEF Same, Stated
    <2>3. CASE d.by # r
      BY <2>1, <2>3 DEF Others
    <2> QED BY <2>2, <2>3
  <1>5. Succeeded'
    <2> SUFFICES ASSUME NEW s \in Requests, req'[s] # None, req'[s].pc \in {"note", "ok"},
                        req'[s].route.does # "delete"
                 PROVE  \E d \in done : d.by = s
      BY DEF Succeeded, Does
    <2>1. CASE s = r
      BY <2>1 DEF IInv, History, Succeeded, Same, Does
    <2>2. CASE s # r
      BY <2>2 DEF IInv, History, Succeeded, Others, Does
    <2> QED BY <2>1, <2>2
  <1> QED BY <1>2, <1>3, <1>4, <1>5 DEF IInv, History

\* The types, where the request changes and the rest is typed.
LEMMA Typed ==
    ASSUME IInv, NEW r \in Requests, TypedRequests', Others(r), req'[r] # None,
           Known(req'[r]) \subseteq req'[r].parts,
           UNCHANGED <<kind, row, seq, notices, done>>, faults' \in 0 .. MaxFaults
    PROVE  TypeOK'
  BY DEF IInv, TypeOK, TypedRequests, Others

\* A request begins, or begins again after a mismatch.
LEMMA Anew ==
    ASSUME IInv, NEW r \in Requests, req[r] = None \/ req[r].pc = "mismatch",
           NEW q \in Request, q.pc = "read", Shaped(q), Known(q) = {},
           req' = [req EXCEPT ![r] = q],
           UNCHANGED <<kind, row, seq, notices, faults, done>>
    PROVE  IInv'
  <1>1. TypedRequests' /\ Others(r) /\ req'[r] = q /\ q # None
    BY Replaced, RecordAssumption DEF IInv, TypeOK, TypedRequests
  <1>2. TypeOK'
    BY <1>1 DEF IInv, TypeOK, TypedRequests, Others
  <1>3. Routed'
    <2> SUFFICES ASSUME NEW s \in Requests, req'[s] # None
                 PROVE  Shaped(req[s])'
      BY DEF Routed
    <2>1. CASE s = r
      BY <1>1, <2>1 DEF Shaped, Stated
    <2>2. CASE s # r
      BY <1>1, <2>2 DEF IInv, Routed, Shaped, Others, Stated
    <2> QED BY <2>1, <2>2
  <1>4. Dated' /\ Contiguous' /\ OneWriter'
    BY DEF IInv, History, Dated, Contiguous, OneWriter
  <1>5. Wrote'
    <2> SUFFICES ASSUME NEW d \in done, d.by \in Requests
                 PROVE  req'[d.by] = req[d.by]
      BY DEF IInv, History, Wrote, Stated
    <2>1. d.by # r
      BY DEF IInv, History, Wrote
    <2> QED BY <1>1, <2>1 DEF Others
  <1>6. Succeeded'
    BY <1>1 DEF IInv, History, Succeeded, Others, Does
  <1> QED BY <1>2, <1>3, <1>4, <1>5, <1>6 DEF IInv, History

-----------------------------------------------------------------------------
(* Steps that write.                                                        *)

\* The write of an update or a creation: the next version of each of its
\* parts, or the first ones of a new life.
Written(r, life, ver) ==
    /\ req[r] # None /\ req[r].pc = "write" /\ req[r].route.does # "delete"
    /\ life \in Nat
    /\ \A p \in req[r].parts : ver[p] \in Nat
    /\ \A p \in Stated(req[r]) : ver[p] = req[r].expected[p] + 1
    /\ \/ /\ row.exists /\ life = row.life
          /\ \A p \in req[r].parts : ver[p] = row.ver[p] + 1
       \/ /\ life = row.life + 1 /\ req[r].parts = PartsOf(kind)
          /\ \A p \in req[r].parts : ver[p] = 1
    /\ Writes(r, life, ver, req[r].parts)
    /\ UNCHANGED <<kind, seq, notices, faults>>

\* The new records, one by one.
Entry(r, life, ver, p) == [life |-> life, part |-> p, version |-> ver[p], by |-> r]

LEMMA WrittenFacts ==
    ASSUME IInv, NEW r \in Requests, NEW life, NEW ver, Written(r, life, ver)
    PROVE  /\ req[r].parts \subseteq Parts /\ req[r].parts # {}
           /\ req[r].parts \subseteq PartsOf(kind)
           /\ row'.life = life /\ row'.exists
           /\ \A p \in Parts : row'.ver[p] = IF p \in req[r].parts THEN ver[p] ELSE row.ver[p]
           /\ row'.val \in [Parts -> Requests \cup {Original}]
           /\ row'.ver \in [Parts -> Nat]
           /\ row' \in [life : Nat, exists : BOOLEAN, ver : [Parts -> Nat],
                        val : [Parts -> Requests \cup {Original}]]
           /\ \A d : d \in done' <=> d \in done \/ \E p \in req[r].parts : d = Entry(r, life, ver, p)
  <1>1. req[r] \in Request /\ Shaped(req[r])
    BY DEF IInv, TypeOK, Routed, Written
  <1>2. req[r].route \in Routes
    BY <1>1 DEF Request
  <1>3. req[r].parts \subseteq Parts /\ req[r].parts # {} /\ req[r].parts \subseteq PartsOf(kind)
    BY <1>1, <1>2, RouteShape, RouteParts DEF Shaped
  <1>4. /\ row' = [life |-> life, exists |-> TRUE,
                   ver |-> [p \in Parts |-> IF p \in req[r].parts THEN ver[p] ELSE row.ver[p]],
                   val |-> [p \in Parts |-> IF p \in req[r].parts THEN r ELSE row.val[p]]]
        /\ done' = done \cup {Entry(r, life, ver, p) : p \in req[r].parts}
    BY DEF Written, Writes, Entry
  <1>5. row.ver \in [Parts -> Nat] /\ row.val \in [Parts -> Requests \cup {Original}]
    BY DEF IInv, TypeOK
  <1>6. row'.ver \in [Parts -> Nat] /\ row'.val \in [Parts -> Requests \cup {Original}]
    BY <1>4, <1>5 DEF Written
  <1>7. row'.life = life /\ row'.exists /\ life \in Nat
    BY <1>4 DEF Written
  <1>8. row' \in [life : Nat, exists : BOOLEAN, ver : [Parts -> Nat],
                  val : [Parts -> Requests \cup {Original}]]
    BY <1>4, <1>6, <1>7
  <1>9. \A p \in Parts : row'.ver[p] = IF p \in req[r].parts THEN ver[p] ELSE row.ver[p]
    BY <1>4
  <1>10. \A d : d \in done' <=> d \in done \/ \E p \in req[r].parts : d = Entry(r, life, ver, p)
    BY <1>4
  <1> QED BY <1>3, <1>6, <1>7, <1>8, <1>9, <1>10

\* What the request knows afterwards.
LEMMA WrittenRequest ==
    ASSUME IInv, NEW r \in Requests, NEW life, NEW ver, Written(r, life, ver)
    PROVE  /\ TypedRequests' /\ Others(r) /\ Same(r) /\ req'[r] # None
           /\ req'[r].pc \in {"note", "ok"} /\ Known(req'[r]) \subseteq req'[r].parts
  <1> DEFINE known == [p \in Parts |-> IF p \in req[r].parts
                           THEN [version |-> ver[p], by |-> r] ELSE None]
             pc == IF req[r].route.announces THEN "note" ELSE "ok"
  <1>1. known \in [Parts -> Value \cup {None}] /\ \A p \in Parts : known[p] # None => p \in req[r].parts
    BY DEF Written, Value
  <1>2. pc \in {"note", "ok"} /\ pc \in UnderWay \cup Ended \cup {"mismatch"}
    BY DEF UnderWay, Ended
  <1>3. Changes(r, pc, life, known)
    BY DEF Written, Writes, Changes
  <1>4. TypedRequests /\ req[r] # None /\ life \in Nat
    BY DEF IInv, TypeOK, TypedRequests, Written
  <1> HIDE DEF known, pc
  <1>5. /\ TypedRequests' /\ Others(r) /\ Same(r)
        /\ req'[r] # None /\ req'[r].pc = pc /\ req'[r].known = known
    BY <1>1, <1>2, <1>3, <1>4, GoesKnowing
  <1>6. Known(req'[r]) \subseteq req'[r].parts
    BY <1>1, <1>5 DEF Known, Same
  <1> QED BY <1>2, <1>5, <1>6

\* A write keeps the invariant.
LEMMA WrittenKeeps ==
    ASSUME IInv, NEW r \in Requests, NEW life, NEW ver, Written(r, life, ver)
    PROVE  IInv'
  <1> DEFINE parts == req[r].parts
             New(d) == \E p \in parts : d = Entry(r, life, ver, p)
  <1>1. /\ parts \subseteq Parts /\ parts # {} /\ parts \subseteq PartsOf(kind)
        /\ row'.life = life /\ row'.exists
        /\ \A p \in Parts : row'.ver[p] = IF p \in parts THEN ver[p] ELSE row.ver[p]
        /\ row' \in [life : Nat, exists : BOOLEAN, ver : [Parts -> Nat],
                     val : [Parts -> Requests \cup {Original}]]
        /\ \A d : d \in done' <=> d \in done \/ New(d)
    BY WrittenFacts
  <1>2. /\ TypedRequests' /\ Others(r) /\ Same(r) /\ req'[r] # None
        /\ req'[r].pc \in {"note", "ok"} /\ Known(req'[r]) \subseteq req'[r].parts
    BY WrittenRequest
  <1>3. /\ life \in Nat /\ req[r].pc = "write" /\ req[r] # None
        /\ \A p \in parts : ver[p] \in Nat
        /\ \A p \in Stated(req[r]) : ver[p] = req[r].expected[p] + 1
        /\ UNCHANGED <<kind, seq, notices, faults>>
    BY DEF Written
  <1>4. \/ life = row.life /\ row.exists /\ \A p \in parts : ver[p] = row.ver[p] + 1
        \/ life = row.life + 1 /\ parts = PartsOf(kind) /\ \A p \in parts : ver[p] = 1
    BY DEF Written
  <1>5. row.life \in Nat /\ row.ver \in [Parts -> Nat]
    BY DEF IInv, TypeOK
  <1>6. \A d \in done : /\ d.life \in Nat /\ d.part \in Parts /\ d.version \in Nat
                         /\ d.by \in Requests \cup {Original}
    BY DEF IInv, TypeOK
  <1>7. \A d : New(d) => /\ d.life = life /\ d.part \in parts /\ d.version = ver[d.part]
                         /\ d.by = r
                         /\ d \in [life : Nat, part : Parts, version : Nat,
                                   by : Requests \cup {Original}]
    BY <1>1, <1>3 DEF Entry
  <1>8. Shaped(req[r])
    BY <1>3 DEF IInv, Routed
  <1> HIDE DEF parts, New
  <1>10. TypeOK'
    <2>1. done' \subseteq [life : Nat, part : Parts, version : Nat, by : Requests \cup {Original}]
      BY <1>1, <1>7 DEF IInv, TypeOK
    <2>2. \A s \in Requests : req'[s] # None => Known(req'[s]) \subseteq req'[s].parts
      BY <1>2 DEF IInv, TypeOK, Others
    <2> QED BY <1>1, <1>2, <1>3, <2>1, <2>2 DEF IInv, TypeOK, TypedRequests
  <1>11. Routed'
    <2> SUFFICES ASSUME NEW s \in Requests, req'[s] # None
                 PROVE  Shaped(req[s])'
      BY DEF Routed
    <2>1. CASE s = r
      BY <1>2, <1>3, <1>8, <2>1 DEF Shaped, Same, Stated
    <2>2. CASE s # r
      BY <1>2, <1>3, <2>2 DEF IInv, Routed, Shaped, Others, Stated
    <2> QED BY <2>1, <2>2
  <1>12. Dated'
    <2> SUFFICES ASSUME NEW d \in done'
                 PROVE  /\ d.life <= row'.life /\ d.version >= 1
                        /\ d.life = row'.life => d.version <= row'.ver[d.part]
      BY DEF Dated
    <2>1. CASE d \in done
      <3>1. /\ d.life <= row.life /\ d.version >= 1
            /\ d.life = row.life => d.version <= row.ver[d.part]
        BY <2>1 DEF IInv, History, Dated
      <3>2. row'.ver[d.part] = IF d.part \in parts THEN ver[d.part] ELSE row.ver[d.part]
        BY <1>1, <1>6, <2>1
      <3>3. row.ver[d.part] \in Nat
        BY <1>5, <1>6, <2>1
      <3> QED BY <1>1, <1>4, <1>5, <1>6, <2>1, <3>1, <3>2, <3>3
    <2>2. CASE New(d)
      <3>1. ver[d.part] >= 1
        BY <1>1, <1>4, <1>5, <1>7, <2>2
      <3> QED BY <1>1, <1>3, <1>7, <2>2, <3>1
    <2> QED BY <1>1, <2>1, <2>2
  <1>13. Contiguous'
    <2> SUFFICES ASSUME NEW p \in PartsOf(kind), NEW n \in 1 .. row'.ver[p]
                 PROVE  \E d \in done' : d.life = row'.life /\ d.part = p /\ d.version = n
      BY <1>3 DEF Contiguous
    <2>1. CASE p \in parts /\ n = ver[p]
      <3>1. New(Entry(r, life, ver, p))
        BY <2>1 DEF New
      <3> QED BY <1>1, <2>1, <3>1 DEF Entry
    <2>2. CASE ~(p \in parts /\ n = ver[p])
      <3>1. p \in Parts
        BY RouteShape DEF PartsOf
      <3>2. row'.ver[p] = (IF p \in parts THEN ver[p] ELSE row.ver[p])
        BY <1>1, <3>1
      <3>3. row.exists /\ life = row.life /\ n \in 1 .. row.ver[p]
        BY <1>1, <1>4, <1>5, <2>2, <3>1, <3>2
      <3>4. \E d \in done : d.life = row.life /\ d.part = p /\ d.version = n
        BY <3>3 DEF IInv, History, Contiguous
      <3> QED BY <1>1, <3>3, <3>4
    <2> QED BY <2>1, <2>2
  <1>14. Wrote'
    <2> SUFFICES ASSUME NEW d \in done', d.by \in Requests
                 PROVE  /\ req'[d.by] # None /\ req'[d.by].pc \in {"note", "ok", "error"}
                        /\ d.part \in Stated(req'[d.by])
                              => d.version = req'[d.by].expected[d.part] + 1
      BY DEF Wrote, Stated
    <2>1. CASE d \in done
      <3>1. /\ req[d.by] # None /\ req[d.by].pc \in {"note", "ok", "error"}
            /\ d.part \in Stated(req[d.by]) => d.version = req[d.by].expected[d.part] + 1
        BY <2>1 DEF IInv, History, Wrote
      <3>2. req'[d.by] = req[d.by]
        BY <1>2, <1>3, <3>1 DEF Others
      <3> QED BY <3>1, <3>2
    <2>2. CASE New(d)
      <3>1. Stated(req'[r]) = Stated(req[r])
        BY <1>2 DEF Stated, Same
      <3> QED BY <1>2, <1>3, <1>7, <2>2, <3>1 DEF Same
    <2> QED BY <1>1, <2>1, <2>2
  <1>15. OneWriter'
    <2> SUFFICES ASSUME NEW d \in done', NEW e \in done',
                        d.life = e.life, d.part = e.part, d.version = e.version
                 PROVE  d.by = e.by
      BY DEF OneWriter
    <2>1. ASSUME NEW x \in done, NEW y, New(y)
          PROVE  ~(x.life = y.life /\ x.part = y.part /\ x.version = y.version)
      <3>1. x.life <= row.life /\ (x.life = row.life => x.version <= row.ver[x.part])
        BY DEF IInv, History, Dated
      <3>2. y.life = life /\ y.part \in parts /\ y.version = ver[y.part] /\ y.part \in Parts
        BY <1>1, <1>7, <2>1
      <3>3. row.ver[y.part] \in Nat
        BY <1>5, <3>2
      <3> QED BY <1>4, <1>5, <1>6, <3>1, <3>2, <3>3
    <2>2. CASE d \in done /\ e \in done
      BY <2>2 DEF IInv, History, OneWriter
    <2>3. CASE New(d) /\ New(e)
      BY <1>7, <2>3
    <2> QED BY <1>1, <2>1, <2>2, <2>3
  <1>16. Succeeded'
    <2> SUFFICES ASSUME NEW s \in Requests, req'[s] # None, req'[s].pc \in {"note", "ok"},
                        req'[s].route.does # "delete"
                 PROVE  \E d \in done' : d.by = s
      BY DEF Succeeded, Does
    <2>1. CASE s = r
      <3>1. PICK p \in parts : TRUE
        BY <1>1
      <3>2. New(Entry(r, life, ver, p))
        BY <3>1 DEF New
      <3> QED BY <1>1, <1>7, <2>1, <3>2
    <2>2. CASE s # r
      BY <1>1, <1>2, <2>2 DEF IInv, History, Succeeded, Others, Does
    <2> QED BY <2>1, <2>2
  <1> QED BY <1>10, <1>11, <1>12, <1>13, <1>14, <1>15, <1>16 DEF IInv, History

-----------------------------------------------------------------------------
(* The actions.                                                             *)

\* Where a request may be.
Everywhere == UnderWay \cup Ended \cup {"mismatch"}

\* A step that only moves a request on.
LEMMA MovesOn ==
    ASSUME IInv, NEW r \in Requests, req[r] # None, NEW pc \in Everywhere, Goes(r, pc),
           UNCHANGED <<kind, row, seq, notices, done>>, faults' \in 0 .. MaxFaults,
           req[r].pc \in {"read", "write", "reread"} \/ pc = "error",
           pc \notin {"note", "ok"}, pc \in {"reread", "mismatch"} => Does(r, "update")
    PROVE  IInv'
  <1>1. TypedRequests /\ Known(req[r]) \subseteq req[r].parts
    BY DEF IInv, TypeOK, TypedRequests
  <1>2. /\ TypedRequests' /\ Others(r) /\ Same(r)
        /\ req'[r] # None /\ req'[r].pc = pc /\ req'[r].known = req[r].known
    BY <1>1, GoesOn DEF Everywhere
  <1>3. Known(req'[r]) \subseteq req'[r].parts
    BY <1>1, <1>2 DEF Known, Same
  <1>4. TypeOK'
    BY <1>2, <1>3, Typed
  <1> QED BY <1>2, <1>4, Quiet

\* A step that reads.
LEMMA LearnsOn ==
    ASSUME IInv, NEW r \in Requests, req[r] # None, req[r].pc \in {"read", "reread"},
           NEW pc \in {"write", "mismatch"}, NEW parts, parts \subseteq req[r].parts,
           pc = "mismatch" => Does(r, "update"),
           Learns(r, pc, parts), UNCHANGED <<kind, row, seq, notices, faults, done>>
    PROVE  IInv'
  <1>1. /\ TypedRequests' /\ Others(r) /\ Same(r)
        /\ req'[r] # None /\ req'[r].pc = pc /\ Known(req'[r]) \subseteq req'[r].parts
    BY LearnsTyped DEF IInv
  <1>2. faults' \in 0 .. MaxFaults
    BY DEF IInv, TypeOK
  <1>3. TypeOK'
    BY <1>1, <1>2, Typed
  <1> QED BY <1>1, <1>3, Quiet

LEMMA BeginKeeps ==
    ASSUME Checks, IInv, NEW r \in Requests, Begin(r)
    PROVE  IInv'
  <1>1. PICK route \in {x \in Routes : x.of = kind} :
        \E parts \in IF route.does = "update" THEN (SUBSET route.parts) \ {{}} ELSE {route.parts} :
        \E stated \in CASE route.does # "update" -> {{}}
                        [] route.increments -> {{}, parts}
                        [] OTHER -> {parts} :
           req' = [req EXCEPT ![r] =
                     [pc |-> "read", route |-> route, parts |-> parts,
                      expected |-> [p \in Parts |-> IF p \in stated THEN row.ver[p] ELSE None],
                      known |-> [p \in Parts |-> None], life |-> 0]]
    BY DEF Begin
  <1>2. PICK parts \in IF route.does = "update" THEN (SUBSET route.parts) \ {{}} ELSE {route.parts} :
        \E stated \in CASE route.does # "update" -> {{}}
                        [] route.increments -> {{}, parts}
                        [] OTHER -> {parts} :
           req' = [req EXCEPT ![r] =
                     [pc |-> "read", route |-> route, parts |-> parts,
                      expected |-> [p \in Parts |-> IF p \in stated THEN row.ver[p] ELSE None],
                      known |-> [p \in Parts |-> None], life |-> 0]]
    BY <1>1
  <1>3. PICK stated \in CASE route.does # "update" -> {{}}
                         [] route.increments -> {{}, parts}
                         [] OTHER -> {parts} :
           req' = [req EXCEPT ![r] =
                     [pc |-> "read", route |-> route, parts |-> parts,
                      expected |-> [p \in Parts |-> IF p \in stated THEN row.ver[p] ELSE None],
                      known |-> [p \in Parts |-> None], life |-> 0]]
    BY <1>2
  <1>4. /\ route \in Routes /\ route.of = kind /\ ~route.increments
        /\ route.parts \subseteq Parts /\ route.parts # {}
    BY RouteShape
  <1>5. /\ parts # {} /\ parts \subseteq route.parts
        /\ stated = IF route.does = "update" THEN parts ELSE {}
        /\ route.does # "update" => parts = route.parts
    BY <1>2, <1>3, <1>4
  <1> DEFINE q == [pc |-> "read", route |-> route, parts |-> parts,
                   expected |-> [p \in Parts |-> IF p \in stated THEN row.ver[p] ELSE None],
                   known |-> [p \in Parts |-> None], life |-> 0]
  <1>6. /\ q \in Request /\ q.pc = "read" /\ q.route = route /\ q.parts = parts
        /\ q.expected = [p \in Parts |-> IF p \in stated THEN row.ver[p] ELSE None]
        /\ q.known = [p \in Parts |-> None]
    <2>1. [p \in Parts |-> IF p \in stated THEN row.ver[p] ELSE None] \in [Parts -> Nat \cup {None}]
      BY DEF IInv, TypeOK
    <2>2. [p \in Parts |-> None] \in [Parts -> Value \cup {None}]
      OBVIOUS
    <2> QED BY <1>4, <1>5, <2>1, <2>2 DEF Request, UnderWay
  <1>7. req' = [req EXCEPT ![r] = q]
    BY <1>3
  <1> HIDE DEF q
  <1>8. Known(q) = {}
    BY <1>6 DEF Known
  <1>9. Stated(q) = stated
    <2>1. \A p \in Parts : row.ver[p] # None
      BY RecordAssumption DEF IInv, TypeOK
    <2> QED BY <1>4, <1>5, <1>6, <2>1 DEF Stated
  <1>10. Shaped(q)
    BY <1>4, <1>5, <1>6, <1>9 DEF Shaped
  <1> QED BY <1>6, <1>7, <1>8, <1>10, Anew DEF Begin

LEMMA RetryKeeps ==
    ASSUME IInv, NEW r \in Requests, Retry(r)
    PROVE  IInv'
  <1> DEFINE expected == [p \in Parts |-> IF p \in Known(req[r]) THEN req[r].known[p].version
                                          ELSE req[r].expected[p]]
             known == [p \in Parts |-> None]
             q == [req[r] EXCEPT !.pc = "read", !.expected = expected, !.known = known]
  <1>1. req[r] \in Request /\ req[r] # None /\ req[r].pc = "mismatch" /\ Shaped(req[r])
        /\ Known(req[r]) \subseteq req[r].parts /\ Known(req[r]) # {}
    BY DEF IInv, TypeOK, Retry, At, Routed
  <1>2. expected \in [Parts -> Nat \cup {None}] /\ known \in [Parts -> Value \cup {None}]
    <2> SUFFICES ASSUME NEW p \in Parts, p \in Known(req[r])
                 PROVE  req[r].known[p].version \in Nat
      BY <1>1 DEF Request
    <2> QED BY <1>1 DEF Known, Request, Value
  <1>3. /\ q \in Request /\ q.pc = "read" /\ q.route = req[r].route /\ q.parts = req[r].parts
        /\ q.expected = expected /\ q.known = known
    BY <1>1, <1>2 DEF Request, UnderWay
  <1>4. req' = [req EXCEPT ![r] = q]
    BY DEF Retry
  <1>5. Known(q) = {}
    BY <1>3 DEF Known
  <1>6. Shaped(q)
    <2>1. req[r].route.does = "update" /\ Stated(req[r]) = req[r].parts
      BY <1>1 DEF Shaped
    <2>2. Stated(q) = Stated(req[r]) \cup Known(req[r])
      <3>1. \A p \in Known(req[r]) : p \in Parts /\ req[r].known[p].version \in Nat
        BY <1>1 DEF Known, Request, Value
      <3> QED BY <1>3, <3>1, RecordAssumption DEF Stated, Known
    <2>3. Stated(q) = q.parts
      BY <1>1, <1>3, <2>1, <2>2
    <2> HIDE DEF q, expected, known
    <2> QED BY <1>1, <1>3, <2>1, <2>3 DEF Shaped
  <1> HIDE DEF q, expected, known
  <1> QED BY <1>1, <1>3, <1>4, <1>5, <1>6, Anew DEF Retry

LEMMA ReadsKeep ==
    ASSUME IInv, NEW r \in Requests,
           NotFound(r) \/ AlreadyThere(r) \/ Mismatch(r) \/ Proceed(r) \/ Reread(r)
    PROVE  IInv'
  <1>1. req[r] # None /\ req[r].pc \in {"read", "reread"} /\ Shaped(req[r])
    BY DEF IInv, Routed, NotFound, AlreadyThere, Mismatch, Proceed, Reread, At
  <1>3. Stated(req[r]) \subseteq req[r].parts /\ Differing(req[r]) \subseteq req[r].parts
    BY <1>1 DEF Shaped, Differing
  <1>4. faults \in 0 .. MaxFaults
    BY DEF IInv, TypeOK
  <1>5. CASE NotFound(r)
    <2>1. PICK pc \in {"refused", "silent"} : Goes(r, pc)
      BY <1>5 DEF NotFound
    <2> QED BY <1>1, <1>4, <1>5, <2>1, MovesOn DEF NotFound, Everywhere, Ended
  <1>6. CASE AlreadyThere(r)
    BY <1>1, <1>4, <1>6, MovesOn DEF AlreadyThere, Everywhere, Ended
  <1>7. CASE Mismatch(r)
    BY <1>1, <1>3, <1>7, LearnsOn DEF Mismatch, Reported
  <1>8. CASE Proceed(r)
    BY <1>1, <1>3, <1>8, LearnsOn DEF Proceed
  <1>9. CASE Reread(r)
    <2>1. Does(r, "update")
      BY <1>1, <1>9 DEF Reread, At, Shaped, Does
    <2>2. PICK parts \in {req[r].parts, {}} : Learns(r, "mismatch", parts)
      BY <1>9 DEF Reread
    <2> QED BY <1>1, <1>9, <2>1, <2>2, LearnsOn DEF Reread
  <1> QED BY <1>5, <1>6, <1>7, <1>8, <1>9

\* An update that matches writes the next versions, a creation the first.
LEMMA WhoWrites ==
    ASSUME Checks, IInv, NEW r \in Requests
    PROVE  /\ Store(r) => Written(r, row.life, [p \in req[r].parts |-> NextVersion(req[r], p)])
           /\ Create(r) /\ ~row.exists => Written(r, row.life + 1, [p \in Parts |-> 1])
  <1> SUFFICES ASSUME At(r, "write")
               PROVE  /\ Store(r) => Written(r, row.life, [p \in req[r].parts |-> NextVersion(req[r], p)])
                      /\ Create(r) /\ ~row.exists => Written(r, row.life + 1, [p \in Parts |-> 1])
    BY DEF Store, Create
  <1>1. req[r] # None /\ req[r].pc = "write" /\ Shaped(req[r]) /\ req[r] \in Request
    BY DEF IInv, TypeOK, Routed, At
  <1>2. req[r].route \in Routes
    BY <1>1 DEF Request
  <1>3. req[r].route.compares /\ ~req[r].route.increments /\ req[r].parts \subseteq Parts
    BY <1>1, <1>2, RouteShape DEF Shaped
  <1>4. ASSUME Store(r)
        PROVE  Written(r, row.life, [p \in req[r].parts |-> NextVersion(req[r], p)])
    <2> DEFINE ver == [p \in req[r].parts |-> NextVersion(req[r], p)]
    <2>1. req[r].route.does = "update" /\ Stated(req[r]) = req[r].parts
      BY <1>1, <1>4 DEF Store, Does, Shaped
    <2>2. row.exists /\ \A p \in req[r].parts : row.ver[p] = req[r].expected[p]
      BY <1>3, <1>4 DEF Store, Matches
    <2>3. \A p \in req[r].parts : ver[p] = row.ver[p] + 1 /\ ver[p] = req[r].expected[p] + 1
      BY <1>3, <2>2 DEF NextVersion
    <2>4. row.life \in Nat /\ \A p \in req[r].parts : row.ver[p] \in Nat
      BY <1>3 DEF IInv, TypeOK
    <2>5. Writes(r, row.life, ver, req[r].parts) /\ UNCHANGED <<kind, seq, notices, faults>>
      BY <1>4 DEF Store
    <2> HIDE DEF ver
    <2>6. Written(r, row.life, ver)
      BY <1>1, <2>1, <2>2, <2>3, <2>4, <2>5 DEF Written
    <2> QED BY <2>6 DEF ver
  <1>5. ASSUME Create(r), ~row.exists
        PROVE  Written(r, row.life + 1, [p \in Parts |-> 1])
    <2>1. req[r].route.does = "create" /\ Stated(req[r]) = {} /\ req[r].parts = PartsOf(kind)
      BY <1>1, <1>2, <1>5, RouteParts DEF Create, Does, Shaped
    <2>2. row.life + 1 \in Nat
      BY DEF IInv, TypeOK
    <2>3. Writes(r, row.life + 1, [p \in Parts |-> 1], req[r].parts)
      BY <1>5 DEF Create
    <2> QED BY <1>1, <1>3, <1>5, <2>1, <2>2, <2>3 DEF Written, Create
  <1> QED BY <1>4, <1>5

LEMMA WritesKeep ==
    ASSUME Checks, IInv, NEW r \in Requests, Store(r) \/ Miss(r) \/ Create(r)
    PROVE  IInv'
  <1>1. req[r] # None /\ req[r].pc = "write" /\ faults \in 0 .. MaxFaults
    BY DEF IInv, TypeOK, Store, Miss, Create, At
  <1>2. CASE Store(r)
    BY <1>2, WhoWrites, WrittenKeeps
  <1>3. CASE Miss(r)
    <2>1. PICK pc \in {"error", "reread", "mismatch"} : Goes(r, pc)
      BY <1>3 DEF Miss
    <2> QED BY <1>1, <1>3, <2>1, MovesOn DEF Miss, Everywhere, UnderWay, Ended
  <1>4. CASE Create(r) /\ ~row.exists
    BY <1>4, WhoWrites, WrittenKeeps
  <1>5. CASE Create(r) /\ row.exists
    BY <1>1, <1>5, MovesOn DEF Create, Everywhere, Ended
  <1> QED BY <1>2, <1>3, <1>4, <1>5

LEMMA DeleteKeeps ==
    ASSUME IInv, NEW r \in Requests, Delete(r)
    PROVE  IInv'
  <1>1. req[r] # None /\ req[r].pc = "write" /\ Does(r, "delete") /\ TypedRequests
        /\ Known(req[r]) \subseteq req[r].parts
    BY DEF IInv, TypeOK, TypedRequests, Delete, At
  <1>2. PICK pc \in {"note", "error"} : Goes(r, pc)
    BY DEF Delete
  <1>3. /\ TypedRequests' /\ Others(r) /\ Same(r)
        /\ req'[r] # None /\ req'[r].pc = pc /\ req'[r].known = req[r].known
    BY <1>1, <1>2, GoesOn DEF UnderWay, Ended
  <1>4. row' = [row EXCEPT !.exists = FALSE] /\ UNCHANGED <<kind, seq, notices, faults, done>>
    BY DEF Delete
  <1>5. TypeOK'
    <2>1. Known(req'[r]) \subseteq req'[r].parts
      BY <1>1, <1>3 DEF Known, Same
    <2> QED BY <1>3, <1>4, <2>1 DEF IInv, TypeOK, TypedRequests, Others
  <1> QED BY <1>1, <1>3, <1>4, <1>5, Quiet

LEMMA AnnounceKeeps ==
    ASSUME IInv, NEW r \in Requests, Announce(r)
    PROVE  IInv'
  <1>1. /\ req[r] # None /\ req[r].pc = "note" /\ TypedRequests /\ req[r] \in Request
        /\ Known(req[r]) \subseteq req[r].parts
    BY DEF IInv, TypeOK, TypedRequests, Announce, At
  <1>2. /\ TypedRequests' /\ Others(r) /\ Same(r)
        /\ req'[r] # None /\ req'[r].pc = "ok" /\ req'[r].known = req[r].known
    BY <1>1, GoesOn DEF Announce, UnderWay, Ended
  <1>3. TypeOK'
    <2> DEFINE new == {[seq |-> seq + 1, life |-> req[r].life, part |-> p,
                        version |-> req[r].known[p].version, by |-> r] : p \in Announced(req[r])}
               Notice == [seq : Nat, life : Nat, part : Parts, version : Nat, by : Requests]
    <2>1. new \subseteq Notice
      <3> SUFFICES ASSUME NEW p \in Known(req[r])
                   PROVE  p \in Parts /\ req[r].known[p].version \in Nat /\ req[r].life \in Nat
                          /\ seq + 1 \in Nat
        BY DEF Announced
      <3>1. p \in Parts /\ req[r].known[p] \in Value
        BY <1>1 DEF Known, Request
      <3> QED BY <1>1, <3>1 DEF Value, Request, IInv, TypeOK
    <2>2. notices' \subseteq Notice
      <3>1. notices' \subseteq notices \cup new
        BY DEF Announce
      <3> QED BY <2>1, <3>1 DEF IInv, TypeOK
    <2>3. seq' \in Nat /\ UNCHANGED <<kind, row, faults, done>>
      BY DEF Announce, IInv, TypeOK
    <2>4. Known(req'[r]) \subseteq req'[r].parts
      BY <1>1, <1>2 DEF Known, Same
    <2> HIDE DEF new
    <2> QED BY <1>2, <2>2, <2>3, <2>4 DEF IInv, TypeOK, TypedRequests, Others
  <1>4. UNCHANGED <<kind, row, done>>
    BY DEF Announce
  <1> QED BY <1>1, <1>2, <1>3, <1>4, Quiet

LEMMA FailKeeps ==
    ASSUME IInv, NEW r \in Requests, Fail(r)
    PROVE  IInv'
  <1>1. faults' \in 0 .. MaxFaults
    BY RecordAssumption DEF IInv, TypeOK, Fail
  <1> QED BY <1>1, MovesOn DEF Fail, Everywhere, Ended

-----------------------------------------------------------------------------
(* The theorems.                                                            *)

LEMMA InitInv == Init => IInv
  <1> SUFFICES ASSUME Init PROVE IInv
    OBVIOUS
  <1>1. PICK exists \in {TRUE, ~MayBeAbsent(kind)} :
          /\ row = [life |-> IF exists THEN 1 ELSE 0, exists |-> exists,
                    ver |-> [p \in Parts |-> 1], val |-> [p \in Parts |-> Original]]
          /\ done = IF exists THEN [life : {1}, part : PartsOf(kind), version : {1},
                                   by : {Original}] ELSE {}
    BY DEF Init
  <1>2. exists \in BOOLEAN
    BY DEF MayBeAbsent
  <1>3. PartsOf(kind) \subseteq Parts
    BY RouteShape DEF PartsOf
  <1>4. \A d \in done : /\ d.life = 1 /\ d.part \in PartsOf(kind) /\ d.version = 1
                       /\ d.by = Original /\ exists
    BY <1>1
  <1>5. /\ row.life \in Nat /\ row.exists = exists /\ (exists => row.life = 1)
        /\ \A p \in Parts : row.ver[p] = 1
    BY <1>1
  <1>6. TypeOK
    <2>1. row \in [life : Nat, exists : BOOLEAN, ver : [Parts -> Nat],
                   val : [Parts -> Requests \cup {Original}]]
      BY <1>1, <1>2
    <2>2. done \subseteq [life : Nat, part : Parts, version : Nat, by : Requests \cup {Original}]
      BY <1>1, <1>3
    <2> QED BY <2>1, <2>2, RecordAssumption DEF Init, TypeOK
  <1>7. Routed /\ Succeeded
    BY DEF Init, Routed, Succeeded
  <1>8. Dated
    BY <1>3, <1>4, <1>5 DEF Dated
  <1>9. Contiguous
    <2> SUFFICES ASSUME row.exists, NEW p \in PartsOf(kind), NEW n \in 1 .. row.ver[p]
                 PROVE  \E d \in done : d.life = row.life /\ d.part = p /\ d.version = n
      BY DEF Contiguous
    <2>1. n = 1 /\ row.life = 1 /\ exists
      BY <1>3, <1>5
    <2>2. [life |-> 1, part |-> p, version |-> 1, by |-> Original] \in done
      BY <1>1, <2>1
    <2> QED BY <2>1, <2>2
  <1>10. Wrote /\ OneWriter
    BY <1>4, RecordAssumption DEF Wrote, OneWriter
  <1> QED BY <1>6, <1>7, <1>8, <1>9, <1>10 DEF IInv, History

LEMMA StepInv == Checks /\ IInv /\ [Next]_vars => IInv'
  <1> SUFFICES ASSUME Checks, IInv, [Next]_vars PROVE IInv'
    OBVIOUS
  <1>1. CASE UNCHANGED vars
    BY <1>1 DEF vars, IInv, TypeOK, Known, Routed, Shaped, Stated, History, Dated, Contiguous,
                Wrote, OneWriter, Succeeded, Does
  <1>2. ASSUME NEW r \in Requests, Begin(r) PROVE IInv'
    BY <1>2, BeginKeeps
  <1>3. ASSUME NEW r \in Requests, Retry(r) PROVE IInv'
    BY <1>3, RetryKeeps
  <1>4. ASSUME NEW r \in Requests, Fail(r) PROVE IInv'
    BY <1>4, FailKeeps
  <1>5. ASSUME NEW r \in Requests,
               NotFound(r) \/ AlreadyThere(r) \/ Mismatch(r) \/ Proceed(r) \/ Reread(r)
        PROVE  IInv'
    BY <1>5, ReadsKeep
  <1>6. ASSUME NEW r \in Requests, Store(r) \/ Miss(r) \/ Create(r) PROVE IInv'
    BY <1>6, WritesKeep
  <1>7. ASSUME NEW r \in Requests, Delete(r) PROVE IInv'
    BY <1>7, DeleteKeeps
  <1>8. ASSUME NEW r \in Requests, Announce(r) PROVE IInv'
    BY <1>8, AnnounceKeeps
  <1> QED BY <1>1, <1>2, <1>3, <1>4, <1>5, <1>6, <1>7, <1>8 DEF Next, Progress

LEMMA Invariance == Checks => (Spec => []IInv)
  <1> SUFFICES ASSUME Checks PROVE Spec => []IInv
    OBVIOUS
  <1>1. IInv /\ [Next]_vars => IInv'
    BY StepInv
  <1> QED BY InitInv, <1>1, PTL DEF Spec

\* The types hold however requests interleave, for the routes that compare
\* versions when they write.
THEOREM TypeCorrect == Checks => (Spec => []TypeOK)
  <1>1. IInv => TypeOK
    BY DEF IInv
  <1> QED BY <1>1, Invariance, PTL

\* The handlers that compare versions when they write
\* (sessionUpdateHandler.ts, machineUpdateHandler.ts, artifactUpdateHandler.ts,
\* accessKeysRoutes.ts, accountRoutes.ts) lose no update.
THEOREM NothingIsLost == Checks => (Spec => []NoLostUpdate)
  <1>1. IInv => NoLostUpdate
    <2> SUFFICES ASSUME IInv, NEW d \in done, NEW e \in done,
                        d.life = e.life, d.part = e.part,
                        d.by \in Requests, e.by \in Requests,
                        req[d.by].expected[d.part] # None,
                        req[d.by].expected[d.part] = req[e.by].expected[d.part]
                 PROVE  d.by = e.by
      BY DEF NoLostUpdate
    <2>1. d.part \in Parts
      BY DEF IInv, TypeOK
    <2>2. d.part \in Stated(req[d.by]) /\ e.part \in Stated(req[e.by])
      BY <2>1 DEF Stated
    <2>3. d.version = e.version
      BY <2>2 DEF IInv, History, Wrote
    <2> QED BY <2>3 DEF IInv, History, OneWriter
  <1> QED BY <1>1, Invariance, PTL

-----------------------------------------------------------------------------
(* The refinement.                                                          *)

\* A write of the handlers is a write of the register.
LEMMA WrittenMaps ==
    ASSUME IInv, NEW r \in Requests, NEW life, NEW ver, Written(r, life, ver)
    PROVE  Register!Write
  <1> DEFINE parts == req[r].parts
             New(d) == \E p \in parts : d = Entry(r, life, ver, p)
  <1>1. /\ parts \subseteq Parts /\ parts \subseteq PartsOf(kind)
        /\ \A d : d \in done' <=> d \in done \/ New(d)
    BY WrittenFacts
  <1>2. /\ life \in Nat /\ req[r].pc = "write" /\ \A p \in parts : ver[p] \in Nat
        /\ \/ life = row.life /\ row.exists /\ \A p \in parts : ver[p] = row.ver[p] + 1
           \/ life = row.life + 1 /\ parts = PartsOf(kind) /\ \A p \in parts : ver[p] = 1
    BY DEF Written
  <1>3. \A d : New(d) => d.life = life /\ d.part \in parts /\ d.version = ver[d.part] /\ d.by = r
    BY DEF Entry
  <1>4. \A d, e : New(d) /\ New(e) /\ d.part = e.part => d = e
    BY DEF Entry
  <1>5. row.life \in Nat /\ row.ver \in [Parts -> Nat]
    BY DEF IInv, TypeOK
  <1>6. \A d \in done : /\ d.life \in Nat /\ d.part \in Parts /\ d.version \in Nat
                       /\ d.by \in Requests \cup {Original}
    BY DEF IInv, TypeOK
  <1> HIDE DEF parts, New
  <1>7. ASSUME NEW d, New(d)
        PROVE  /\ d.version \in Nat \ {0}
               /\ Register!Versions(d.life, d.part) = 1 .. d.version - 1
    <2>1. d.life = life /\ d.part \in parts /\ d.version = ver[d.part] /\ row.ver[d.part] \in Nat
      BY <1>1, <1>3, <1>5, <1>7
    <2>2. d.version \in Nat \ {0}
      BY <1>2, <2>1
    <2>3. ASSUME NEW e \in done, e.life = d.life, e.part = d.part
          PROVE  e.version \in 1 .. d.version - 1
      <3>1. /\ e.life <= row.life /\ e.version >= 1
            /\ e.life = row.life => e.version <= row.ver[e.part]
        BY DEF IInv, History, Dated
      <3> QED BY <1>2, <1>5, <1>6, <2>1, <2>3, <3>1
    <2>4. ASSUME NEW n \in 1 .. d.version - 1
          PROVE  \E e \in done : e.life = d.life /\ e.part = d.part /\ e.version = n
      <3>1. life = row.life /\ row.exists /\ n \in 1 .. row.ver[d.part]
        BY <1>2, <2>1, <2>4
      <3> QED BY <1>1, <2>1, <3>1 DEF IInv, History, Contiguous
    <2>5. Register!Versions(d.life, d.part) = 1 .. d.version - 1
      BY <2>3, <2>4 DEF Register!Versions
    <2> QED BY <2>2, <2>5
  <1>8. ASSUME NEW d, New(d), NEW e \in done
        PROVE  e.by # d.by /\ e.life <= d.life
    <2>1. e.life <= row.life /\ d.life >= row.life
      BY <1>2, <1>3, <1>5, <1>8 DEF IInv, History, Dated
    <2>2. e.by # r
      BY <1>2 DEF IInv, History, Wrote
    <2> QED BY <1>2, <1>3, <1>5, <1>6, <1>8, <2>1, <2>2
  <1>9. ASSUME NEW d, New(d), NEW e, New(e)
        PROVE  e.by = d.by /\ e.life = d.life /\ (e.part = d.part => e = d)
    BY <1>3, <1>4, <1>9
  <1>10. done \subseteq done' /\ \A d \in done' \ done : New(d)
    BY <1>1
  <1> QED BY <1>7, <1>8, <1>9, <1>10 DEF Register!Write

LEMMA NothingWritten ==
    ASSUME done' = done
    PROVE  Register!Write
  BY DEF Register!Write

LEMMA StepWrites == Checks /\ IInv /\ [Next]_vars => Register!Write
  <1> SUFFICES ASSUME Checks, IInv, [Next]_vars PROVE Register!Write
    OBVIOUS
  <1>1. CASE UNCHANGED vars
    BY <1>1, NothingWritten DEF vars
  <1>2. ASSUME NEW r \in Requests, Store(r) PROVE Register!Write
    BY <1>2, WhoWrites, WrittenMaps
  <1>3. ASSUME NEW r \in Requests, Create(r) PROVE Register!Write
    <2>1. CASE row.exists
      BY <1>3, <2>1, NothingWritten DEF Create
    <2>2. CASE ~row.exists
      BY <1>3, <2>2, WhoWrites, WrittenMaps
    <2> QED BY <2>1, <2>2
  <1>4. ASSUME NEW r \in Requests,
               \/ Begin(r) \/ Fail(r) \/ Retry(r) \/ NotFound(r) \/ AlreadyThere(r) \/ Mismatch(r)
               \/ Proceed(r) \/ Reread(r) \/ Miss(r) \/ Delete(r) \/ Announce(r)
        PROVE  Register!Write
    BY <1>4, NothingWritten DEF Begin, Fail, Retry, NotFound, AlreadyThere, Mismatch, Proceed,
                Reread, Miss, Delete, Announce
  <1> QED BY <1>1, <1>2, <1>3, <1>4 DEF Next, Progress

\* Who was told of a success stays told: no action touches a request that
\* has ended.
LEMMA StaysTold ==
    ASSUME IInv, [Next]_vars, NEW r \in Requests, At(r, "ok")
    PROVE  req'[r] = req[r]
  <1>1. CASE UNCHANGED vars
    BY <1>1 DEF vars
  <1>2. ASSUME NEW s \in Requests, Begin(s) \/ Progress(s) \/ Fail(s) \/ Retry(s)
        PROVE  req'[r] = req[r]
    <2>1. s # r
      BY <1>2 DEF At, Begin, Progress, Fail, Retry, NotFound, AlreadyThere, Mismatch, Proceed,
                Store, Miss, Reread, Create, Delete, Announce, UnderWay
    <2>2. req \in [Requests -> {None} \cup Request]
      BY DEF IInv, TypeOK
    <2>3. \/ \E q : req' = [req EXCEPT ![s] = q]
          \/ \E pc : Goes(s, pc)
          \/ \E pc, parts : Learns(s, pc, parts)
          \/ \E life, ver, parts : Writes(s, life, ver, parts)
          \/ Retry(s)
      BY <1>2 DEF Begin, Progress, Fail, NotFound, AlreadyThere, Mismatch, Reported, Proceed,
                Store, Miss, Reread, Create, Delete, Announce
    <2> QED BY <2>1, <2>2, <2>3 DEF Goes, Learns, Writes, Retry
  <1> QED BY <1>1, <1>2 DEF Next

LEMMA StepMaps == Checks /\ IInv /\ IInv' /\ [Next]_vars => [Register!Next]_<<done, Told>>
  <1> SUFFICES ASSUME Checks, IInv, IInv', [Next]_vars PROVE Register!Next
    OBVIOUS
  <1>1. Register!Write
    BY StepWrites
  <1>2. Told \subseteq Told'
    BY StaysTold DEF Told, At, Does
  <1>3. Told' \subseteq {d.by : d \in done'}
    <2> SUFFICES ASSUME NEW r \in Requests, req'[r] # None, req'[r].pc = "ok",
                        req'[r].route.does # "delete"
                 PROVE  \E d \in done' : d.by = r
      BY DEF Told, At, Does
    <2> QED BY DEF IInv, History, Succeeded, Does
  <1> QED BY <1>1, <1>2, <1>3 DEF Register!Next

LEMMA InitMaps == Init => Register!Init
  <1> SUFFICES ASSUME Init PROVE Register!Init
    OBVIOUS
  <1>1. PartsOf(kind) \subseteq Parts
    BY RouteShape DEF PartsOf
  <1>2. done \subseteq [life : {1}, part : PartsOf(kind), version : {1}, by : {Original}]
    BY DEF Init
  <1>3. Told = {}
    BY DEF Init, Told, At
  <1> QED BY <1>1, <1>2, <1>3 DEF Register!Init

\* The handlers implement the versioned register: versions follow one
\* another in each life of the record, each by one request, and a request
\* that is told of a success has written.
THEOREM RegisterImplemented == Checks => (Spec => ImplementsRegister)
  <1> SUFFICES ASSUME Checks PROVE Spec => ImplementsRegister
    OBVIOUS
  <1>1. IInv /\ IInv' /\ [Next]_vars => [Register!Next]_<<done, Told>>
    BY StepMaps
  <1>2. Spec => []IInv
    BY Invariance
  <1> QED BY <1>1, <1>2, InitMaps, PTL DEF Spec, ImplementsRegister, Register!Spec

-----------------------------------------------------------------------------
(* Who lost a race can catch up.                                            *)

\* In the first life of a record no request names or knows a version that is
\* not there yet.
Behind(q) ==
    row.life <= 1 => /\ \A p \in Stated(q) : q.expected[p] <= row.ver[p]
                     /\ \A p \in Known(q) : q.known[p].version <= row.ver[p]

\* An update past its first read found the record; one that missed in the first
\* life missed to a newer version.
Missed(q) ==
    /\ q.route.does = "update" /\ q.pc \in {"write", "reread"} => row.life >= 1
    /\ q.pc = "reread" /\ row.exists /\ row.life <= 1
          => \E p \in Stated(q) : row.ver[p] > q.expected[p]

News(q) ==
    q.pc = "mismatch" /\ q.route.rereads /\ Known(q) # {}
    => \/ \E p \in Known(q) : q.known[p].version > q.expected[p]
       \/ q.life > 1

Reader(q) == Behind(q) /\ Missed(q) /\ News(q)

FirstLife ==
    /\ row.exists => row.life >= 1
    /\ row.life = 0 => \A p \in Parts : row.ver[p] <= 1

\* What the record holds was written by who its value is from, what was announced
\* was written, and what was written is announced unless a query failed.
Holds ==
    row.exists => \A p \in PartsOf(kind) :
        \E d \in done : d.life = row.life /\ d.part = p /\ d.version = row.ver[p] /\ d.by = row.val[p]
Says(n, d) == n.life = d.life /\ n.part = d.part /\ n.version = d.version /\ n.by = d.by
Sourced == \A n \in notices : \E d \in done : Says(n, d)
Spread(d) ==
    d.by \in Requests /\ req[d.by].route.announces =>
        /\ req[d.by].pc = "note" =>
              /\ req[d.by].life = d.life /\ d.part \in Known(req[d.by])
              /\ req[d.by].known[d.part].version = d.version /\ req[d.by].route.does # "delete"
        /\ req[d.by].pc = "ok" => \E n \in notices : Says(n, d)
        /\ req[d.by].pc = "error" => faults > 0
Speaks(r) ==
    At(r, "note") /\ ~Does(r, "delete") => \A p \in Known(req[r]) : \E d \in done :
        d.life = req[r].life /\ d.part = p /\ d.version = req[r].known[p].version /\ d.by = r
Noticed == Holds /\ Sourced /\ (\A d \in done : Spread(d)) /\ \A r \in Requests : Speaks(r)

CatchUpInv ==
    IInv /\ FirstLife /\ (\A r \in Requests : req[r] # None => Reader(req[r])) /\ Noticed
\* The record only moves on.
Grows ==
    /\ row'.life >= row.life /\ row'.life \in Nat
    /\ row'.life <= 1 => \A p \in Parts : row'.ver[p] \in Nat /\ row.ver[p] <= row'.ver[p]
    /\ row'.life <= 1 /\ row'.exists /\ row.life >= 1 => row.exists

LEMMA RowGrows ==
    ASSUME IInv, FirstLife, NEW r \in Requests,
           \/ row' = row \/ row' = [row EXCEPT !.exists = FALSE]
           \/ \E life, ver : Written(r, life, ver)
    PROVE  Grows /\ FirstLife'
  <1>1. row.life \in Nat /\ row.ver \in [Parts -> Nat]
    BY DEF IInv, TypeOK
  <1>2. CASE row' = row \/ row' = [row EXCEPT !.exists = FALSE]
    <2>1. row'.life = row.life /\ row'.ver = row.ver /\ (row'.exists => row.exists)
      BY <1>2 DEF IInv, TypeOK
    <2> QED BY <1>1, <2>1 DEF Grows, FirstLife
  <1>3. CASE \E life, ver : Written(r, life, ver)
    <2>1. PICK life, ver : Written(r, life, ver)
      BY <1>3
    <2>2. /\ row'.life = life /\ row'.exists
          /\ \A p \in Parts : row'.ver[p] = IF p \in req[r].parts THEN ver[p] ELSE row.ver[p]
      BY <2>1, WrittenFacts
    <2>3. /\ life \in Nat
          /\ \/ row.exists /\ life = row.life /\ \A p \in req[r].parts : ver[p] = row.ver[p] + 1
             \/ life = row.life + 1 /\ \A p \in req[r].parts : ver[p] = 1
      BY <2>1, Zenon DEF Written
    <2>4. CASE row.exists /\ life = row.life /\ \A p \in req[r].parts : ver[p] = row.ver[p] + 1
      <3>1. \A p \in Parts : row'.ver[p] \in Nat /\ row.ver[p] <= row'.ver[p]
        BY <1>1, <2>2, <2>4
      <3>2. row.life >= 1
        BY <2>4 DEF FirstLife
      <3> QED BY <1>1, <2>2, <2>4, <3>1, <3>2 DEF Grows, FirstLife
    <2>5. CASE life = row.life + 1 /\ \A p \in req[r].parts : ver[p] = 1
      <3>1. ASSUME row'.life <= 1, NEW p \in Parts
            PROVE  row'.ver[p] \in Nat /\ row.ver[p] <= row'.ver[p]
        <4>1. row.life = 0 /\ row.ver[p] <= 1 /\ row.ver[p] \in Nat
          BY <1>1, <2>2, <2>5, <3>1 DEF FirstLife
        <4> QED BY <2>2, <2>5, <4>1
      <3>2. row'.life >= 1 /\ row'.life >= row.life /\ row'.life \in Nat /\ (row.life >= 1 => row'.life > 1)
        BY <1>1, <2>2, <2>5
      <3>3. row'.life # 0 /\ ~(row'.life <= 1 /\ row.life >= 1)
        BY <1>1, <3>2
      <3> QED BY <3>1, <3>2, <3>3 DEF Grows, FirstLife
    <2> QED BY <2>3, <2>4, <2>5
  <1> QED BY <1>2, <1>3

\* What a request that stands still knows stays right.
LEMMA StillReader ==
    ASSUME IInv, FirstLife, Grows, NEW q \in Request, Reader(q),
           q.pc = "reread" => q.route.does = "update"
    PROVE  /\ Behind(q)' /\ News(q)
           /\ (q.route.does = "update" /\ q.pc \in {"write", "reread"} => row'.life >= 1)
           /\ Reader(q)'
  <1>1. /\ row.life \in Nat /\ row.ver \in [Parts -> Nat] /\ row'.life \in Nat
        /\ \A p \in Stated(q) : p \in Parts /\ q.expected[p] \in Nat
        /\ \A p \in Known(q) : p \in Parts /\ q.known[p].version \in Nat
    BY DEF IInv, TypeOK, Stated, Known, Request, Grows, Value
  <1>2. row'.life <= 1 => row.life <= 1 /\ \A p \in Parts : row'.ver[p] \in Nat /\ row.ver[p] \in Nat /\ row.ver[p] <= row'.ver[p]
    BY <1>1 DEF Grows
  <1>3. ASSUME row'.life <= 1, NEW p \in Stated(q)
        PROVE  q.expected[p] <= row'.ver[p]
    BY <1>1, <1>2, <1>3 DEF Reader, Behind
  <1>4. ASSUME row'.life <= 1, NEW p \in Known(q)
        PROVE  q.known[p].version <= row'.ver[p]
    BY <1>1, <1>2, <1>4 DEF Reader, Behind
  <1>5. Behind(q)'
    BY <1>3, <1>4 DEF Behind, Stated, Known
  <1>6. q.route.does = "update" /\ q.pc \in {"write", "reread"} => row'.life >= 1
    BY <1>1 DEF Reader, Missed, Grows
  <1>7. ASSUME q.pc = "reread", row'.exists, row'.life <= 1
        PROVE  \E p \in Stated(q) : row'.ver[p] > q.expected[p]
    <2>1. row.life <= 1 /\ (row.life >= 1 => row.exists)
      BY <1>2, <1>7 DEF Grows
    <2>2. CASE row.exists
      <3>1. PICK p \in Stated(q) : row.ver[p] > q.expected[p]
        BY <1>7, <2>1, <2>2 DEF Reader, Missed
      <3> QED BY <1>1, <1>2, <1>7, <3>1
    <2>3. CASE ~row.exists
      <3>1. q.route.does = "update" => row.life >= 1
        BY <1>7 DEF Reader, Missed
      <3>2. q.route.does # "update"
        BY <2>1, <2>3, <3>1
      <3> QED BY <1>7, <3>2
    <2> QED BY <2>2, <2>3
  <1> QED BY <1>5, <1>6, <1>7 DEF Reader, Missed, News, Stated, Known
LEMMA RequestOf ==
    ASSUME IInv, NEW r \in Requests, req[r] # None
    PROVE  /\ req[r] \in Request /\ TypedRequests /\ Shaped(req[r])
           /\ req[r].pc \in {"reread", "mismatch"} => req[r].route.does = "update"
           /\ req[r].route \in Routes /\ Stated(req[r]) \subseteq req[r].parts
           /\ Known(req[r]) \subseteq req[r].parts
  <1>1. req[r] \in Request /\ TypedRequests /\ Shaped(req[r]) /\ Known(req[r]) \subseteq req[r].parts
    BY DEF IInv, TypeOK, Routed, TypedRequests
  <1> QED BY <1>1 DEF Shaped, Request

\* A request moves on without learning.
LEMMA ReaderMoves ==
    ASSUME IInv, FirstLife, Grows, NEW r \in Requests, req[r] # None, Reader(req[r]),
           NEW pc \in Everywhere, Goes(r, pc), pc # "write",
           pc = "mismatch" => ~req[r].route.rereads,
           pc = "reread" => row' = row /\ Miss(r) /\ req[r].route.compares
    PROVE  Others(r) /\ Reader(req[r])'
  <1>1. TypedRequests /\ req[r] \in Request
    BY RequestOf
  <1>2. /\ TypedRequests' /\ Others(r) /\ Same(r)
        /\ req'[r] # None /\ req'[r].pc = pc /\ req'[r].known = req[r].known
    BY <1>1, GoesOn DEF Everywhere
  <1>3. Behind(req[r])'
    <2>1. (row.life <= 1)' => \A p \in Stated(req[r]) : req[r].expected[p] <= row'.ver[p]
      BY <1>1, RequestOf, StillReader DEF Behind, Stated
    <2>2. (row.life <= 1)' => \A p \in Known(req[r]) : req[r].known[p].version <= row'.ver[p]
      BY <1>1, RequestOf, StillReader DEF Behind, Known
    <2> QED BY <1>2, <2>1, <2>2 DEF Behind, Stated, Known, Same
  <1>4. News(req[r])'
    BY <1>2 DEF News, Same
  <1>5. CASE pc # "reread"
    BY <1>2, <1>3, <1>4, <1>5 DEF Reader, Missed
  <1>6. CASE pc = "reread"
    <2>1. req[r].pc = "write" /\ req[r].route.does = "update"
      BY <1>6 DEF Miss, At, Does
    <2>2. row.life >= 1 /\ Stated(req[r]) = req[r].parts
      BY <2>1, RequestOf DEF Reader, Missed, Shaped
    <2>3. ASSUME row.exists, row.life <= 1
          PROVE  \E p \in Stated(req[r]) : row.ver[p] > req[r].expected[p]
      <3>1. PICK p \in Stated(req[r]) : row.ver[p] # req[r].expected[p]
        BY <1>6, <2>2, <2>3 DEF Miss, Matches
      <3>2. req[r].expected[p] <= row.ver[p] /\ row.ver[p] \in Nat /\ req[r].expected[p] \in Nat
        BY <1>1, <2>3, <3>1 DEF Reader, Behind, Stated, Request, IInv, TypeOK
      <3> QED BY <3>1, <3>2
    <2>4. Missed(req[r])'
      BY <1>2, <1>6, <2>2, <2>3 DEF Missed, Stated, Same
    <2> QED BY <1>2, <1>3, <1>4, <2>4 DEF Reader
  <1> QED BY <1>2, <1>5, <1>6

\* A request reads.
LEMMA ReaderLearns ==
    ASSUME IInv, FirstLife, NEW r \in Requests, req[r] # None, Reader(req[r]), row' = row,
           NEW pc \in {"write", "mismatch"}, NEW parts, parts \subseteq req[r].parts,
           Learns(r, pc, parts),
           pc = "write" => row.exists = ~Does(r, "create"),
           pc = "mismatch" /\ row.life <= 1 /\ parts # {}
              => \E p \in parts : row.ver[p] > req[r].expected[p]
    PROVE  Others(r) /\ Reader(req[r])'
  <1> DEFINE known == [p \in Parts |-> IF p \in parts THEN Current(p) ELSE None]
             q == [req[r] EXCEPT !.pc = pc, !.life = row.life, !.known = known]
  <1>1. TypedRequests /\ req[r] \in Request /\ parts \subseteq Parts
    BY RequestOf, RouteShape DEF Shaped
  <1>2. req' = [req EXCEPT ![r] = q]
    BY DEF Learns
  <1>3. /\ q.pc = pc /\ q.life = row.life /\ q.known = known /\ q.route = req[r].route
        /\ q.expected = req[r].expected
    BY <1>1 DEF Request
  <1>4. \A p \in Parts : Current(p) # None /\ Current(p).version = row.ver[p]
    BY CurrentValue, RecordAssumption DEF Current, IInv
  <1>5. \A p \in parts : p \in Parts /\ known[p].version = row.ver[p]
    BY <1>1, <1>4
  <1>6. \A p \in Parts : known[p] # None <=> p \in parts
    BY <1>4
  <1> HIDE DEF q, known
  <1>7. req'[r] = q /\ Others(r)
    BY <1>1, <1>2 DEF TypedRequests, Others
  <1>8. Known(q) = parts /\ Stated(q) = Stated(req[r])
    BY <1>1, <1>3, <1>6 DEF Known, Stated
  <1>9. row.ver \in [Parts -> Nat] /\ row.life \in Nat
    BY DEF IInv, TypeOK
  <1>10. Behind(q)
    BY <1>3, <1>5, <1>8, <1>9 DEF Reader, Behind
  <1>11. Missed(q)
    BY <1>3 DEF Missed, FirstLife, Does
  <1>12. News(q)
    <2>1. row.life <= 1 \/ row.life > 1
      BY <1>9
    <2> QED BY <1>3, <1>5, <1>8, <2>1 DEF News
  <1> QED BY <1>7, <1>10, <1>11, <1>12 DEF Reader, Behind, Missed, News, Known, Stated
\* A request begins, or tries again with what it was told.
LEMMA ReaderBegins ==
    ASSUME IInv, FirstLife, NEW r \in Requests, row' = row,
           Begin(r) \/ (Retry(r) /\ Reader(req[r]))
    PROVE  Others(r) /\ Reader(req[r])'
  <1>1. TypedRequests /\ row.ver \in [Parts -> Nat]
    BY DEF IInv, TypeOK, TypedRequests
  <1>2. PICK q : /\ req' = [req EXCEPT ![r] = q] /\ q.pc = "read"
                 /\ q.known = [p \in Parts |-> None]
                 /\ row.life <= 1 => \A p \in Stated(q) : q.expected[p] <= row.ver[p]
    <2>1. CASE Begin(r)
      <3> DEFINE From(route, parts, stated) ==
                   req' = [req EXCEPT ![r] =
                     [pc |-> "read", route |-> route, parts |-> parts,
                      expected |-> [p \in Parts |-> IF p \in stated THEN row.ver[p] ELSE None],
                      known |-> [p \in Parts |-> None], life |-> 0]]
      <3>0. \E route \in {x \in Routes : x.of = kind} :
            \E parts \in IF route.does = "update" THEN (SUBSET route.parts) \ {{}} ELSE {route.parts} :
            \E stated \in CASE route.does # "update" -> {{}}
                            [] route.increments -> {{}, parts}
                            [] OTHER -> {parts} : From(route, parts, stated)
        BY <2>1 DEF Begin
      <3> HIDE DEF From
      <3>1. PICK route, parts, stated : From(route, parts, stated)
        BY <3>0
      <3> USE DEF From
      <3> DEFINE q == [pc |-> "read", route |-> route, parts |-> parts,
                       expected |-> [p \in Parts |-> IF p \in stated THEN row.ver[p] ELSE None],
                       known |-> [p \in Parts |-> None], life |-> 0]
      <3>2. \A p \in Stated(q) : q.expected[p] = row.ver[p] /\ row.ver[p] \in Nat
        BY <1>1 DEF Stated
      <3>3. \A p \in Stated(q) : q.expected[p] <= row.ver[p]
        BY <3>2
      <3>4. q.pc = "read" /\ q.known = [p \in Parts |-> None]
        OBVIOUS
      <3> HIDE DEF q
      <3> QED BY <3>1, <3>3, <3>4 DEF q
    <2>2. CASE Retry(r) /\ Reader(req[r])
      <3> DEFINE expected == [p \in Parts |-> IF p \in Known(req[r]) THEN req[r].known[p].version
                                              ELSE req[r].expected[p]]
                 known == [p \in Parts |-> None]
                 q == [req[r] EXCEPT !.pc = "read", !.expected = expected, !.known = known]
      <3>1. req[r] \in Request /\ req[r] # None
        BY <2>2 DEF IInv, TypeOK, Retry, At
      <3>2. q.pc = "read" /\ q.expected = expected /\ q.known = known
        BY <3>1 DEF Request
      <3>3. req' = [req EXCEPT ![r] = q]
        BY <2>2 DEF Retry
      <3>4. ASSUME row.life <= 1, NEW p \in Stated(q)
            PROVE  q.expected[p] <= row.ver[p]
        <4>1. p \in Parts /\ q.expected[p] # None
          BY <3>4 DEF Stated
        <4>2. CASE p \in Known(req[r])
          BY <2>2, <3>2, <3>4, <4>1, <4>2 DEF Reader, Behind
        <4>3. CASE p \notin Known(req[r])
          <5>1. q.expected[p] = req[r].expected[p] /\ p \in Stated(req[r])
            BY <3>2, <4>1, <4>3 DEF Stated
          <5> QED BY <2>2, <3>4, <5>1 DEF Reader, Behind
        <4> QED BY <4>2, <4>3
      <3> HIDE DEF q, expected
      <3> QED BY <3>2, <3>3, <3>4
    <2> QED BY <2>1, <2>2
  <1>3. req'[r] = q /\ Others(r)
    BY <1>1, <1>2 DEF TypedRequests, Others
  <1>4. Known(q) = {}
    BY <1>2 DEF Known
  <1> QED BY <1>2, <1>3, <1>4 DEF Reader, Behind, Missed, News, Known, Stated

\* What a request that writes holds afterwards.
LEMMA WriterHolds ==
    ASSUME IInv, NEW r \in Requests, NEW life, NEW ver, Written(r, life, ver)
    PROVE  /\ Others(r) /\ Same(r) /\ req'[r].life = life /\ req'[r] # None
           /\ req'[r].pc = IF req[r].route.announces THEN "note" ELSE "ok"
           /\ Known(req'[r]) = req[r].parts
           /\ \A p \in req[r].parts : p \in Parts /\ req'[r].known[p].version = ver[p]
  <1> DEFINE known == [p \in Parts |-> IF p \in req[r].parts
                           THEN [version |-> ver[p], by |-> r] ELSE None]
             pc == IF req[r].route.announces THEN "note" ELSE "ok"
             q == [req[r] EXCEPT !.pc = pc, !.life = life, !.known = known]
  <1>1. req[r] \in Request /\ TypedRequests /\ req[r].parts \subseteq Parts
    BY RequestOf, RouteShape DEF Shaped, Written
  <1>2. Others(r) /\ Same(r) /\ req'[r] # None
    BY WrittenRequest
  <1>3. req' = [req EXCEPT ![r] = q]
    BY DEF Written, Writes
  <1>4. q.pc = pc /\ q.life = life /\ q.known = known
    BY <1>1 DEF Request
  <1>5. \A p \in req[r].parts : known[p].version = ver[p]
    BY <1>1
  <1>6. ASSUME NEW p \in req[r].parts PROVE known[p] # None
    <2>1. [version |-> ver[p], by |-> r] \in Value
      BY DEF Value, Written
    <2> QED BY <1>1, <2>1, RecordAssumption
  <1> HIDE DEF q
  <1>7. req'[r] = q
    BY <1>1, <1>3 DEF TypedRequests
  <1>8. Known(q) = req[r].parts
    BY <1>1, <1>4, <1>6 DEF Known
  <1> QED BY <1>1, <1>2, <1>4, <1>5, <1>7, <1>8

LEMMA ReaderWrites ==
    ASSUME IInv, FirstLife, NEW r \in Requests, Reader(req[r]), NEW life, NEW ver, Written(r, life, ver)
    PROVE  Others(r) /\ Reader(req[r])'
  <1>1. /\ Others(r) /\ Same(r) /\ req'[r].life = life
        /\ req'[r].pc \in {"note", "ok"}
        /\ Known(req'[r]) = req[r].parts
        /\ \A p \in req[r].parts : p \in Parts /\ req'[r].known[p].version = ver[p]
    BY WriterHolds
  <1>2. \A p \in Parts : row'.ver[p] = IF p \in req[r].parts THEN ver[p] ELSE row.ver[p]
    BY WrittenFacts
  <1>3. req[r] # None /\ \A p \in req[r].parts : ver[p] \in Nat
    BY DEF Written
  <1>4. Grows
    BY RowGrows
  <1>5. row'.life <= 1 => \A p \in Stated(req[r]) : req[r].expected[p] <= row'.ver[p]
    BY <1>3, <1>4, RequestOf, StillReader DEF Behind, Stated
  <1>6. \A p \in Known(req'[r]) : req'[r].known[p].version <= row'.ver[p]
    BY <1>1, <1>2, <1>3
  <1>7. Behind(req[r])'
    BY <1>1, <1>5, <1>6 DEF Behind, Stated, Known, Same
  <1> QED BY <1>1, <1>7 DEF Reader, Missed, News
\* Before a request has written it is not in the history.
LEMMA NoticedStill ==
    ASSUME IInv, Noticed, NEW r \in Requests, Others(r), UNCHANGED <<kind, notices, done>>,
           row' = row \/ row' = [row EXCEPT !.exists = FALSE],
           faults \in Nat, faults' \in Nat, faults' >= faults,
           req[r] = None \/ req[r].pc \in {"read", "write", "reread", "mismatch"},
           At(r, "note")' => Does(r, "delete")'
    PROVE  Noticed'
  <1>1. row'.life = row.life /\ row'.ver = row.ver /\ row'.val = row.val /\ (row'.exists => row.exists)
    BY DEF IInv, TypeOK
  <1>2. Holds' /\ Sourced'
    BY <1>1 DEF Noticed, Holds, Sourced, Says, PartsOf
  <1>3. ASSUME NEW d \in done PROVE Spread(d)'
    <2> SUFFICES ASSUME d.by \in Requests PROVE Spread(d)'
      BY DEF Spread
    <2>1. req[d.by] # None /\ req[d.by].pc \in {"note", "ok", "error"}
      BY DEF IInv, History, Wrote
    <2>2. req'[d.by] = req[d.by]
      BY <2>1 DEF Others
    <2>3. faults > 0 => faults' > 0
      OBVIOUS
    <2> QED BY <2>2, <2>3 DEF Noticed, Spread, Says, Known
  <1>4. ASSUME NEW s \in Requests PROVE Speaks(s)'
    BY DEF Noticed, Speaks, Others, At, Does, Known
  <1> QED BY <1>2, <1>3, <1>4 DEF Noticed

LEMMA NoticedFails ==
    ASSUME IInv, Noticed, NEW r \in Requests, Fail(r)
    PROVE  Noticed'
  <1>1. /\ Others(r) /\ Same(r) /\ req'[r] # None /\ req'[r].pc = "error"
        /\ UNCHANGED <<kind, row, notices, done>>
    BY RequestOf, GoesOn DEF Fail, UnderWay, Ended
  <1>2. faults \in Nat /\ faults' = faults + 1 /\ faults' > 0
    BY RecordAssumption DEF IInv, TypeOK, Fail
  <1>3. Holds' /\ Sourced'
    BY <1>1 DEF Noticed, Holds, Sourced, Says, PartsOf
  <1>4. ASSUME NEW d \in done PROVE Spread(d)'
    <2>1. CASE d.by = r
      BY <1>1, <1>2, <2>1 DEF Spread
    <2>2. CASE d.by # r
      BY <1>1, <1>2, <2>2 DEF Noticed, Spread, Others, Says, Known
    <2> QED BY <2>1, <2>2
  <1>5. ASSUME NEW s \in Requests PROVE Speaks(s)'
    BY <1>1 DEF Noticed, Speaks, Others, At, Does, Known
  <1> QED BY <1>1, <1>3, <1>4, <1>5 DEF Noticed

LEMMA NoticedAnnounces ==
    ASSUME IInv, Noticed, NEW r \in Requests, Announce(r)
    PROVE  Noticed'
  <1> DEFINE Tells(p) == [seq |-> seq + 1, life |-> req[r].life, part |-> p,
                          version |-> req[r].known[p].version, by |-> r]
             new == IF Does(r, "delete") THEN {} ELSE {Tells(p) : p \in Known(req[r])}
  <1>0. req[r] # None /\ req[r].pc = "note" /\ TypedRequests
    BY RequestOf DEF Announce, At
  <1>1. /\ Others(r) /\ Same(r) /\ req'[r] # None /\ req'[r].pc = "ok"
        /\ UNCHANGED <<kind, row, faults, done>>
    BY <1>0, GoesOn DEF Announce, UnderWay, Ended
  <1>2. notices' = notices \cup new
    BY DEF Announce, Announced
  <1>3. Holds'
    BY <1>1 DEF Noticed, Holds, PartsOf
  <1>4. Sourced'
    <2> SUFFICES ASSUME NEW n \in notices' PROVE \E d \in done : Says(n, d)
      BY <1>1 DEF Sourced
    <2>1. CASE n \in notices
      BY <2>1 DEF Noticed, Sourced
    <2>2. CASE n \in new
      <3>1. PICK p \in Known(req[r]) : n = Tells(p)
        BY <2>2
      <3>2. PICK d \in done : d.life = req[r].life /\ d.part = p /\ d.version = req[r].known[p].version /\ d.by = r
        BY <1>0, <2>2 DEF Noticed, Speaks, At
      <3> QED BY <3>1, <3>2 DEF Says
    <2> QED BY <1>2, <2>1, <2>2
  <1>5. ASSUME NEW d \in done PROVE Spread(d)'
    <2>1. CASE d.by = r
      <3> SUFFICES ASSUME req[r].route.announces PROVE \E n \in notices' : Says(n, d)
        BY <1>1, <2>1 DEF Spread, Same, Says
      <3>1. /\ req[r].life = d.life /\ d.part \in Known(req[r])
            /\ req[r].known[d.part].version = d.version /\ req[r].route.does # "delete"
        BY <1>0, <2>1 DEF Noticed, Spread
      <3>2. Tells(d.part) \in new
        BY <3>1 DEF Does
      <3>3. Says(Tells(d.part), d)
        BY <2>1, <3>1 DEF Says
      <3> HIDE DEF Tells, new
      <3> QED BY <1>2, <3>2, <3>3
    <2>2. CASE d.by # r
      <3> HIDE DEF new
      <3>1. notices \subseteq notices'
        BY <1>2
      <3> QED BY <1>1, <2>2, <3>1 DEF Noticed, Spread, Others, Says, Known
    <2> QED BY <2>1, <2>2
  <1>6. ASSUME NEW s \in Requests PROVE Speaks(s)'
    BY <1>1 DEF Noticed, Speaks, Others, At, Does, Known
  <1> HIDE DEF new
  <1> QED BY <1>1, <1>3, <1>4, <1>5, <1>6 DEF Noticed

LEMMA NoticedWrites ==
    ASSUME IInv, Noticed, NEW r \in Requests, NEW life, NEW ver, Written(r, life, ver)
    PROVE  Noticed'
  <1> DEFINE parts == req[r].parts
             New(d) == \E p \in parts : d = Entry(r, life, ver, p)
  <1>1. /\ parts \subseteq Parts /\ parts \subseteq PartsOf(kind)
        /\ row'.life = life /\ row'.exists
        /\ \A p \in Parts : row'.ver[p] = IF p \in parts THEN ver[p] ELSE row.ver[p]
        /\ \A d : d \in done' <=> d \in done \/ New(d)
    BY WrittenFacts
  <1>2. /\ Others(r) /\ Same(r) /\ req'[r].life = life /\ req'[r] # None
        /\ req'[r].pc = IF req[r].route.announces THEN "note" ELSE "ok"
        /\ Known(req'[r]) = parts
        /\ \A p \in parts : p \in Parts /\ req'[r].known[p].version = ver[p]
    BY WriterHolds
  <1>3. /\ req[r] # None /\ req[r].pc = "write" /\ req[r].route.does # "delete"
        /\ UNCHANGED <<kind, notices, faults>>
        /\ (life = row.life /\ row.exists) \/ (life = row.life + 1 /\ parts = PartsOf(kind))
    BY Zenon DEF Written
  <1>4. \A p \in Parts : row'.val[p] = IF p \in parts THEN r ELSE row.val[p]
    BY DEF Written, Writes
  <1>5. \A d : New(d) => d.life = life /\ d.part \in parts /\ d.version = ver[d.part] /\ d.by = r
    BY DEF Entry
  <1>6. \A p \in parts : New(Entry(r, life, ver, p))
    OBVIOUS
  <1>7. PartsOf(kind) \subseteq Parts
    BY RouteShape DEF PartsOf
  <1> HIDE DEF parts, New
  <1>8. Holds'
    <2> SUFFICES ASSUME NEW p \in PartsOf(kind)
                 PROVE  \E d \in done' : /\ d.life = row'.life /\ d.part = p
                                        /\ d.version = row'.ver[p] /\ d.by = row'.val[p]
      BY <1>3 DEF Holds, PartsOf
    <2>1. CASE p \in parts
      <3>1. Entry(r, life, ver, p) \in done'
        BY <1>1, <1>6, <2>1
      <3> QED BY <1>1, <1>4, <1>7, <2>1, <3>1 DEF Entry
    <2>2. CASE p \notin parts
      <3>1. life = row.life /\ row.exists
        BY <1>3, <2>2
      <3>2. PICK d \in done : d.life = row.life /\ d.part = p /\ d.version = row.ver[p] /\ d.by = row.val[p]
        BY <3>1 DEF Noticed, Holds
      <3> QED BY <1>1, <1>4, <1>7, <2>2, <3>1, <3>2
    <2> QED BY <2>1, <2>2
  <1>9. Sourced'
    BY <1>1, <1>3 DEF Noticed, Sourced, Says
  <1>10. ASSUME NEW d \in done' PROVE Spread(d)'
    <2>1. CASE d \in done
      <3> SUFFICES ASSUME d.by \in Requests PROVE Spread(d)'
        BY DEF Spread
      <3>1. req[d.by] # None /\ req[d.by].pc \in {"note", "ok", "error"}
        BY <2>1 DEF IInv, History, Wrote
      <3>2. req'[d.by] = req[d.by]
        BY <1>2, <1>3, <3>1 DEF Others
      <3> QED BY <1>3, <2>1, <3>2 DEF Noticed, Spread, Says, Known
    <2>2. CASE New(d)
      <3>1. /\ d.life = life /\ d.part \in parts /\ d.version = ver[d.part] /\ d.by = r
        BY <1>5, <2>2
      <3>2. req'[r].route = req[r].route
        BY <1>2 DEF Same
      <3>3. Known(req[d.by])' = parts
        BY <1>2, <3>1 DEF Known
      <3> QED BY <1>2, <1>3, <3>1, <3>2, <3>3 DEF Spread
    <2> QED BY <1>1, <2>1, <2>2
  <1>11. ASSUME NEW s \in Requests PROVE Speaks(s)'
    <2>1. CASE s = r
      <3> SUFFICES ASSUME NEW p \in parts
                   PROVE  \E d \in done' : /\ d.life = req'[r].life /\ d.part = p
                                          /\ d.version = req'[r].known[p].version /\ d.by = r
        BY <1>2, <2>1 DEF Speaks, Known
      <3>1. Entry(r, life, ver, p) \in done'
        BY <1>1, <1>6
      <3> QED BY <1>2, <3>1 DEF Entry
    <2>2. CASE s # r
      BY <1>1, <1>2, <2>2 DEF Noticed, Speaks, Others, At, Does, Known
    <2> QED BY <2>1, <2>2
  <1> QED BY <1>8, <1>9, <1>10, <1>11 DEF Noticed
LEMMA CatchUpInit == Init => CatchUpInv
  <1> SUFFICES ASSUME Init PROVE CatchUpInv
    OBVIOUS
  <1>1. PICK exists \in {TRUE, ~MayBeAbsent(kind)} :
          /\ row = [life |-> IF exists THEN 1 ELSE 0, exists |-> exists,
                    ver |-> [p \in Parts |-> 1], val |-> [p \in Parts |-> Original]]
          /\ done = IF exists THEN [life : {1}, part : PartsOf(kind), version : {1},
                                   by : {Original}] ELSE {}
    BY DEF Init
  <1>2. /\ row.exists = exists /\ row.life = IF exists THEN 1 ELSE 0
        /\ \A p \in Parts : row.ver[p] = 1 /\ row.val[p] = Original
    BY <1>1
  <1>3. PartsOf(kind) \subseteq Parts
    BY RouteShape DEF PartsOf
  <1>4. exists \in BOOLEAN
    BY DEF MayBeAbsent
  <1>5. FirstLife
    BY <1>2, <1>4 DEF FirstLife
  <1>6. Holds
    <2> SUFFICES ASSUME row.exists, NEW p \in PartsOf(kind)
                 PROVE  \E d \in done : d.life = row.life /\ d.part = p /\ d.version = row.ver[p]
                                       /\ d.by = row.val[p]
      BY DEF Holds
    <2>1. [life |-> 1, part |-> p, version |-> 1, by |-> Original] \in done
      BY <1>1, <1>2
    <2> QED BY <1>2, <1>3, <2>1
  <1>7. \A d \in done : d.by = Original
    BY <1>1
  <1>8. Sourced /\ (\A d \in done : Spread(d)) /\ \A r \in Requests : Speaks(r)
    BY <1>7, RecordAssumption DEF Init, Sourced, Spread, Speaks, At
  <1>9. \A r \in Requests : req[r] = None
    BY DEF Init
  <1> QED BY <1>5, <1>6, <1>8, <1>9, InitInv DEF CatchUpInv, Noticed

LEMMA CatchUpStep == Checks /\ CatchUpInv /\ [Next]_vars => CatchUpInv'
  <1> SUFFICES ASSUME Checks, CatchUpInv, [Next]_vars PROVE CatchUpInv'
    OBVIOUS
  <1> DEFINE Readers == \A r \in Requests : req[r] # None => Reader(req[r])
  <1>1. IInv /\ FirstLife /\ Readers /\ Noticed /\ IInv'
    BY StepInv DEF CatchUpInv
  <1>2. faults \in Nat /\ faults' \in Nat
    BY <1>1, RecordAssumption DEF IInv, TypeOK
  <1>3. ASSUME NEW r \in Requests, Others(r), Grows, req'[r] # None => Reader(req[r])'
        PROVE  Readers'
    <2> SUFFICES ASSUME NEW s \in Requests, req'[s] # None PROVE Reader(req[s])'
      OBVIOUS
    <2>1. CASE s = r
      BY <1>3, <2>1
    <2>2. CASE s # r
      <3>1. req'[s] = req[s] /\ req[s] # None
        BY <1>3, <2>2 DEF Others
      <3>2. req[s] \in Request /\ Reader(req[s]) /\ (req[s].pc = "reread" => req[s].route.does = "update")
        BY <1>1, <3>1, RequestOf
      <3> DEFINE q == req[s]
      <3>3. \E x \in Request : x = req[s] /\ Reader(x) /\ (x.pc = "reread" => x.route.does = "update")
        BY <3>2
      <3>4. PICK x \in Request : x = req[s] /\ Reader(x) /\ (x.pc = "reread" => x.route.does = "update")
        BY <3>3
      <3>5. Reader(x)'
        BY <1>1, <1>3, <3>4, StillReader
      <3> QED BY <3>1, <3>4, <3>5 DEF Reader, Behind, Missed, News, Known, Stated
    <2> QED BY <2>1, <2>2
  <1>4. CASE UNCHANGED vars
    BY <1>1, <1>4 DEF vars, Reader, Behind, Missed, News, Known, Stated, FirstLife, Noticed, Holds,
                Sourced, Says, Spread, Speaks, At, Does, PartsOf, CatchUpInv
  <1>5. ASSUME NEW r \in Requests, row' = row, NEW pc \in Everywhere \ {"write"}, Goes(r, pc),
               req[r] # None, pc = "mismatch" => ~req[r].route.rereads,
               pc = "reread" => Miss(r) /\ req[r].route.compares
        PROVE  Others(r) /\ Grows /\ FirstLife' /\ Readers'
    <2>1. Grows /\ FirstLife'
      BY <1>1, <1>5, RowGrows
    <2>2. Others(r) /\ Reader(req[r])'
      BY <1>1, <1>5, <2>1, ReaderMoves
    <2> QED BY <1>3, <2>1, <2>2
  <1>6. ASSUME NEW r \in Requests, Begin(r) \/ Retry(r) PROVE FirstLife' /\ Readers' /\ Noticed'
    <2>1. /\ UNCHANGED <<kind, row, notices, faults, done>>
          /\ req[r] = None \/ (req[r].pc = "mismatch" /\ Reader(req[r]))
      BY <1>1, <1>6 DEF Begin, Retry, At
    <2>2. Grows /\ FirstLife'
      BY <1>1, <2>1, RowGrows
    <2>3. Retry(r) => Reader(req[r])
      BY <1>1 DEF Retry, At
    <2>4. Others(r) /\ Reader(req[r])'
      BY <1>1, <1>6, <2>1, <2>3, ReaderBegins
    <2>5. At(r, "note")' => Does(r, "delete")'
      <3>1. TypedRequests
        BY <1>1 DEF IInv, TypeOK, TypedRequests
      <3>2. CASE Begin(r)
        <4>1. req'[r].pc = "read"
          BY <3>1, <3>2 DEF Begin, TypedRequests
        <4> QED BY <4>1 DEF At
      <3>3. CASE Retry(r)
        <4>1. req[r] \in Request
          BY <3>1, <3>3 DEF Retry, At, TypedRequests
        <4>2. req'[r].pc = "read"
          BY <3>1, <3>3, <4>1 DEF Retry, TypedRequests, Request
        <4> QED BY <4>2 DEF At
      <3> QED BY <1>6, <3>2, <3>3
    <2>6. Noticed'
      BY <1>1, <1>2, <2>1, <2>4, <2>5, NoticedStill
    <2> QED BY <1>3, <2>2, <2>4, <2>6
  <1>7. ASSUME NEW r \in Requests, Fail(r) PROVE FirstLife' /\ Readers' /\ Noticed'
    <2>1. Noticed'
      BY <1>1, <1>7, NoticedFails
    <2>2. FirstLife' /\ Readers'
      BY <1>5, <1>7 DEF Fail, Everywhere, Ended
    <2> QED BY <2>1, <2>2
  <1>8. ASSUME NEW r \in Requests, NEW pc \in Everywhere \ {"write", "note", "ok"}, Goes(r, pc),
               UNCHANGED <<kind, row, notices, faults, done>>,
               req[r] # None, req[r].pc \in {"read", "write", "reread"},
               pc = "mismatch" => ~req[r].route.rereads,
               pc = "reread" => Miss(r) /\ req[r].route.compares
        PROVE  FirstLife' /\ Readers' /\ Noticed'
    <2>1. Others(r) /\ FirstLife' /\ Readers'
      BY <1>5, <1>8
    <2>2. req'[r].pc = pc
      BY <1>1, <1>8, GoesOn, RequestOf DEF Everywhere
    <2>3. Noticed'
      BY <1>1, <1>2, <1>8, <2>1, <2>2, NoticedStill DEF At
    <2> QED BY <2>1, <2>3
  <1>9. ASSUME NEW r \in Requests, NEW pc \in {"write", "mismatch"}, NEW parts, parts \subseteq req[r].parts,
               Learns(r, pc, parts), req[r] # None, req[r].pc \in {"read", "reread"},
               UNCHANGED <<kind, row, notices, faults, done>>,
               pc = "write" => row.exists = ~Does(r, "create"),
               pc = "mismatch" /\ row.life <= 1 /\ parts # {}
                  => \E p \in parts : row.ver[p] > req[r].expected[p]
        PROVE  FirstLife' /\ Readers' /\ Noticed'
    <2>1. Reader(req[r])
      BY <1>1, <1>9
    <2>2. Others(r) /\ Reader(req[r])'
      BY <1>1, <1>9, <2>1, ReaderLearns
    <2>3. Grows /\ FirstLife'
      BY <1>1, <1>9, RowGrows
    <2>4. req'[r].pc = pc
      BY <1>1, <1>9, LearnsTyped DEF IInv
    <2>5. Noticed'
      BY <1>1, <1>2, <1>9, <2>2, <2>4, NoticedStill DEF At
    <2> QED BY <1>3, <2>2, <2>3, <2>5
  <1>10. ASSUME NEW r \in Requests, NEW life, NEW ver, Written(r, life, ver)
         PROVE  FirstLife' /\ Readers' /\ Noticed'
    <2>1. Reader(req[r])
      BY <1>1, <1>10 DEF Written
    <2>2. Others(r) /\ Reader(req[r])'
      BY <1>1, <1>10, <2>1, ReaderWrites
    <2>3. Grows /\ FirstLife'
      BY <1>1, <1>10, RowGrows
    <2>4. Noticed'
      BY <1>1, <1>10, NoticedWrites
    <2> QED BY <1>3, <2>2, <2>3, <2>4
  <1> HIDE DEF Readers
  <1>11. ASSUME NEW r \in Requests, NotFound(r) \/ AlreadyThere(r) PROVE FirstLife' /\ Readers' /\ Noticed'
    <2>1. PICK pc \in {"refused", "silent", "found"} : Goes(r, pc)
      BY <1>11 DEF NotFound, AlreadyThere
    <2> QED BY <1>8, <1>11, <2>1 DEF NotFound, AlreadyThere, At, Everywhere, Ended
  <1>12. ASSUME NEW r \in Requests, Mismatch(r) PROVE FirstLife' /\ Readers' /\ Noticed'
    <2>1. req[r] # None /\ req[r].pc = "read" /\ Learns(r, "mismatch", Differing(req[r])) /\ row.exists
          /\ UNCHANGED <<kind, row, notices, faults, done>>
      BY <1>12 DEF Mismatch, Reported, At
    <2>2. Differing(req[r]) \subseteq req[r].parts
      BY <1>1, <2>1, RequestOf DEF Differing
    <2>3. ASSUME row.life <= 1, NEW p \in Differing(req[r])
          PROVE  row.ver[p] > req[r].expected[p]
      <3>1. p \in Stated(req[r]) /\ row.ver[p] # req[r].expected[p] /\ row.ver[p] \in Nat
            /\ req[r].expected[p] \in Nat
        BY <1>1, <2>1, RequestOf DEF Differing, Stated, Request, IInv, TypeOK
      <3>2. req[r].expected[p] <= row.ver[p]
        BY <1>1, <2>1, <2>3, <3>1 DEF Readers, Reader, Behind
      <3> QED BY <3>1, <3>2
    <2> QED BY <1>9, <2>1, <2>2, <2>3
  <1>13. ASSUME NEW r \in Requests, Proceed(r) PROVE FirstLife' /\ Readers' /\ Noticed'
    <2>1. Stated(req[r]) \subseteq req[r].parts
      BY <1>1, <1>13, RequestOf DEF Proceed, At
    <2> QED BY <1>9, <1>13, <2>1 DEF Proceed, At
  <1>14. ASSUME NEW r \in Requests, Reread(r) PROVE FirstLife' /\ Readers' /\ Noticed'
    <2> DEFINE parts == IF row.exists THEN req[r].parts ELSE {}
    <2>1. req[r] # None /\ req[r].pc = "reread" /\ Learns(r, "mismatch", parts)
          /\ UNCHANGED <<kind, row, notices, faults, done>>
      BY <1>14 DEF Reread, At
    <2>2. Stated(req[r]) \subseteq req[r].parts /\ Reader(req[r])
      BY <1>1, <2>1, RequestOf DEF Readers
    <2>3. ASSUME row.life <= 1, parts # {}
          PROVE  \E p \in parts : row.ver[p] > req[r].expected[p]
      BY <2>1, <2>2, <2>3 DEF Reader, Missed
    <2>4. parts \subseteq req[r].parts
      OBVIOUS
    <2> HIDE DEF parts
    <2> QED BY <1>9, <2>1, <2>3, <2>4
  <1>15. ASSUME NEW r \in Requests, Store(r) PROVE FirstLife' /\ Readers' /\ Noticed'
    BY <1>1, <1>10, <1>15, WhoWrites
  <1>16. ASSUME NEW r \in Requests, Miss(r) PROVE FirstLife' /\ Readers' /\ Noticed'
    <2>1. /\ req[r] # None /\ req[r].pc = "write" /\ req[r].route.does = "update"
          /\ UNCHANGED <<kind, row, notices, faults, done>>
      BY <1>16 DEF Miss, At, Does
    <2>2. req[r].route.compares
      BY <1>1, <2>1, RequestOf, RouteShape
    <2>3. Goes(r, IF req[r].route.rereads THEN "reread" ELSE "mismatch")
      BY <1>16, <2>2 DEF Miss
    <2> QED BY <1>8, <1>16, <2>1, <2>2, <2>3 DEF Everywhere, UnderWay
  <1>17. ASSUME NEW r \in Requests, Create(r) PROVE FirstLife' /\ Readers' /\ Noticed'
    <2>1. CASE row.exists
      BY <1>8, <1>17, <2>1 DEF Create, At, Everywhere, Ended
    <2>2. CASE ~row.exists
      BY <1>1, <1>10, <1>17, <2>2, WhoWrites
    <2> QED BY <2>1, <2>2
  <1>18. ASSUME NEW r \in Requests, Delete(r) PROVE FirstLife' /\ Readers' /\ Noticed'
    <2>1. /\ req[r] # None /\ req[r].pc = "write" /\ Does(r, "delete")
          /\ row' = [row EXCEPT !.exists = FALSE] /\ UNCHANGED <<kind, notices, faults, done>>
      BY <1>18 DEF Delete, At
    <2>2. PICK pc \in {"note", "error"} : Goes(r, pc)
      BY <1>18 DEF Delete
    <2>3. Grows /\ FirstLife'
      BY <1>1, <2>1, RowGrows
    <2>4. pc \in Everywhere
      BY DEF Everywhere, UnderWay, Ended
    <2>5. Reader(req[r])
      BY <1>1, <2>1 DEF Readers
    <2>6. Others(r) /\ Reader(req[r])'
      BY <1>1, <2>1, <2>2, <2>3, <2>4, <2>5, ReaderMoves
    <2>7. At(r, "note")' => Does(r, "delete")'
      BY <1>1, <2>1, <2>2, <2>4, GoesOn, RequestOf DEF Does, Same, Everywhere
    <2>8. Noticed'
      BY <1>1, <1>2, <2>1, <2>6, <2>7, NoticedStill
    <2> QED BY <1>3, <2>3, <2>6, <2>8
  <1>19. ASSUME NEW r \in Requests, Announce(r) PROVE FirstLife' /\ Readers' /\ Noticed'
    <2>1. Noticed'
      BY <1>1, <1>19, NoticedAnnounces
    <2> QED BY <1>5, <1>19, <2>1 DEF Announce, At, Everywhere, Ended
  <1> QED BY <1>1, <1>4, <1>6, <1>7, <1>11, <1>12, <1>13, <1>14, <1>15, <1>16, <1>17, <1>18, <1>19
          DEF Next, Progress, CatchUpInv, Readers

LEMMA CatchUpImplies == CatchUpInv => ClientsCanCatchUp
  <1> SUFFICES ASSUME CatchUpInv PROVE ClientsCanCatchUp
    OBVIOUS
  <1>1. IInv /\ Noticed
    BY DEF CatchUpInv
  <1>2. MismatchIsNews
    BY DEF MismatchIsNews, CatchUpInv, Reader, News, At
  <1>3. ASSUME \A r \in Requests : req[r] # None => req[r].pc \in Ended \cup {"mismatch"},
               faults = 0, row.exists, NEW p \in PartsOf(kind),
               row.val[p] # Original, req[row.val[p]].route.announces
        PROVE  LET now == {n \in notices : n.life = row.life /\ n.part = p /\ n.version >= row.ver[p]}
               IN {<<n.version, n.by>> : n \in now} = {<<row.ver[p], row.val[p]>>}
    <2> DEFINE now == {n \in notices : n.life = row.life /\ n.part = p /\ n.version >= row.ver[p]}
    <2>1. p \in Parts
      BY RouteShape DEF PartsOf
    <2>2. row.val[p] \in Requests /\ row.ver[p] \in Nat
      BY <1>1, <1>3, <2>1 DEF IInv, TypeOK
    <2>3. PICK e \in done : e.life = row.life /\ e.part = p /\ e.version = row.ver[p] /\ e.by = row.val[p]
      BY <1>1, <1>3 DEF Noticed, Holds
    <2>4. ASSUME NEW n \in now
          PROVE  n.version = row.ver[p] /\ n.by = row.val[p]
      <3>1. PICK d \in done : Says(n, d)
        BY <1>1 DEF Noticed, Sourced
      <3>2. d.life = row.life => d.version <= row.ver[d.part]
        BY <1>1 DEF IInv, History, Dated
      <3>3. d.version \in Nat
        BY <1>1 DEF IInv, TypeOK
      <3>4. d.life = row.life /\ d.part = p /\ d.version = row.ver[p] /\ d.by = n.by /\ d.version = n.version
        BY <2>2, <3>1, <3>2, <3>3 DEF Says
      <3>5. d.by = e.by
        BY <1>1, <2>3, <3>4 DEF IInv, History, OneWriter
      <3> QED BY <2>3, <3>4, <3>5
    <2>5. \E n \in now : TRUE
      <3>1. req[e.by] # None /\ req[e.by].pc \in {"note", "ok", "error"}
        BY <1>1, <2>2, <2>3 DEF IInv, History, Wrote
      <3>2. req[e.by].pc = "ok"
        <4>1. req[e.by].pc # "note"
          BY <1>3, <2>2, <2>3, <3>1 DEF Ended
        <4>2. Spread(e)
          BY <1>1 DEF Noticed
        <4>3. req[e.by].pc # "error"
          BY <1>3, <2>2, <2>3, <4>2 DEF Spread
        <4> QED BY <3>1, <4>1, <4>3
      <3>3. PICK n \in notices : Says(n, e)
        BY <1>1, <1>3, <2>2, <2>3, <3>2 DEF Noticed, Spread
      <3> QED BY <2>2, <2>3, <3>3 DEF Says
    <2> QED BY <2>4, <2>5
  <1> QED BY <1>2, <1>3 DEF ClientsCanCatchUp, NoticesAreTheRecord

\* Who lost a race catches up: the answer of a handler that read again (the
\* version-mismatch answers of sessionUpdateHandler.ts, machineUpdateHandler.ts,
\* artifactUpdateHandler.ts) names a newer version, and unless a query
\* failed the events name what the record holds and nothing newer.
THEOREM EveryoneCanCatchUp == Checks => (Spec => []ClientsCanCatchUp)
  <1> SUFFICES ASSUME Checks PROVE Spec => []ClientsCanCatchUp
    OBVIOUS
  <1>1. CatchUpInv /\ [Next]_vars => CatchUpInv'
    BY CatchUpStep
  <1> QED BY CatchUpInit, CatchUpImplies, <1>1, PTL DEF Spec

=============================================================================
