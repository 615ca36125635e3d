------------------------------- MODULE KvStore -------------------------------
(***************************************************************************)
(* The key-value store of one account.  A client changes several keys in   *)
(* one request, each against the version it knows; the request runs in a   *)
(* serializable transaction that is tried again when another transaction   *)
(* got in its way, and its notification is sent some time after the commit *)
(* (kvMutate, inTx).  A client learns values from reading, from answers of *)
(* its own requests, from refusals and from notifications, which arrive in *)
(* any order; it keeps the newest version it heard of, and either of two   *)
(* values it is told of one version.                                       *)
(***************************************************************************)
EXTENDS Absent, Integers, FiniteSets, Sequences

CONSTANTS
    Clients,        \* devices of the account
    EntryKeys,      \* keys of the store
    Values,         \* what a key may hold; None: the value was deleted
    Retries,        \* times a transaction is tried again (3 in the code)
    MaxRequests     \* bound of the model: requests that are ever sent

VARIABLES
    kv,             \* the row of each key: version -1 means no row
    known,          \* what each client takes each key to be
    tx,             \* the transaction each client waits for
    changes,        \* notifications that are not sent yet: the ways each may be taken
    alike,          \* history: what the last write of each key said of it
    requests        \* number of requests that were sent

kvVars == <<kv, known, tx, changes, alike, requests>>

NoEntry == [version |-> -1, value |-> None]

\* One or two mutations of a request; the two may name the same key.
Batches ==
    LET Mutations == [key : EntryKeys, value : Values \cup {None}]
    IN  {<<m>> : m \in Mutations} \cup {<<m, n>> : m, n \in Mutations}

KeysOf(batch) == {batch[i].key : i \in DOMAIN batch}

Restriction(entries, batch) == [k \in KeysOf(batch) |-> entries[k]]

\* A client knows more of a key when it hears of a higher version.
Learn(c, news) ==
    known' = [known EXCEPT ![c] = [k \in EntryKeys |->
                 IF k \in DOMAIN news /\ news[k].version > @[k].version THEN news[k] ELSE @[k]]]

\* kvGet, kvBulkGet and kvList tell nothing of a missing or deleted key.
Read(c, keys) ==
    /\ Learn(c, [k \in {k \in keys : kv[k].value # None} |-> kv[k]])
    /\ UNCHANGED <<kv, tx, changes, alike, requests>>

\* The transaction begins, and sees the store as it is now.
Begin(c, batch) ==
    /\ tx[c] = None /\ requests < MaxRequests
    /\ requests' = requests + 1
    /\ tx' = [tx EXCEPT ![c] = [batch |-> batch, expect |-> Restriction(known[c], batch),
                                   seen |-> Restriction(kv, batch), retries |-> 0]]
    /\ UNCHANGED <<kv, known, changes, alike>>

\* Variant: the transaction is not isolated from the others.
UndisturbedNever(c) == TRUE

\* No key of the request changed since the transaction began.
Undisturbed(c) == \A k \in KeysOf(tx[c].batch) : kv[k] = tx[c].seen[k]

Mismatching(c) == {k \in KeysOf(tx[c].batch) : tx[c].seen[k].version # tx[c].expect[k].version}

\* A key that is created twice in one request breaks the unique constraint.
CreatesTwice(c) ==
    \E i, j \in DOMAIN tx[c].batch :
        i # j /\ tx[c].batch[i].key = tx[c].batch[j].key /\ tx[c].expect[tx[c].batch[i].key].version = -1

\* The client is told the entries that do not have the version it expected.
Refuse(c) ==
    /\ tx[c] # None /\ Undisturbed(c) /\ Mismatching(c) # {}
    /\ Learn(c, [k \in Mismatching(c) |-> tx[c].seen[k]])
    /\ tx' = [tx EXCEPT ![c] = None]
    /\ UNCHANGED <<kv, changes, alike, requests>>

\* A new row has version 0, a changed one the next version.  A deleted value
\* leaves its row in the store.
Written(c, m) == [version |-> tx[c].expect[m.key].version + 1, value |-> m.value]

\* What a request says of a key: two values of one version, when it names the
\* key twice.
Said(c, batch, k) == {Written(c, batch[i]) : i \in {i \in DOMAIN batch : batch[i].key = k}}

\* The mutations are applied in turn: the last one of a key is the one that stays.
Effect(c, batch) ==
    [k \in KeysOf(batch) |->
        Written(c, batch[CHOOSE i \in DOMAIN batch :
                            batch[i].key = k /\ \A j \in DOMAIN batch : j > i => batch[j].key # k])]

\* All of them are answered and announced: who hears of it keeps one for each key.
Readings(c, batch) ==
    {r \in [KeysOf(batch) -> UNION {Said(c, batch, k) : k \in KeysOf(batch)}] :
        \A k \in KeysOf(batch) : r[k] \in Said(c, batch, k)}

Mutate(c) ==
    /\ tx[c] # None /\ Undisturbed(c) /\ Mismatching(c) = {} /\ ~CreatesTwice(c)
    /\ LET batch == tx[c].batch  effect == Effect(c, batch)
       IN  /\ kv' = [k \in EntryKeys |-> IF k \in DOMAIN effect THEN effect[k] ELSE kv[k]]
           /\ alike' = [k \in EntryKeys |-> IF k \in DOMAIN effect THEN Said(c, batch, k) ELSE alike[k]]
           /\ changes' = changes \cup {Readings(c, batch)}
           /\ \E reading \in Readings(c, batch) : Learn(c, reading)
    /\ tx' = [tx EXCEPT ![c] = None]
    /\ UNCHANGED requests

\* A conflict (P2034) starts the transaction over with the same request.
Retry(c) ==
    /\ tx[c] # None /\ ~Undisturbed(c) /\ tx[c].retries < Retries
    /\ tx' = [tx EXCEPT ![c].seen = Restriction(kv, tx[c].batch), ![c].retries = @ + 1]
    /\ UNCHANGED <<kv, known, changes, alike, requests>>

\* The request fails: one conflict too many, or the constraint.
Fail(c) ==
    /\ tx[c] # None
    /\ \/ ~Undisturbed(c) /\ tx[c].retries = Retries
       \/ Undisturbed(c) /\ Mismatching(c) = {} /\ CreatesTwice(c)
    /\ tx' = [tx EXCEPT ![c] = None]
    /\ UNCHANGED <<kv, known, changes, alike, requests>>

\* The callback after the commit tells the clients that are connected, each of
\* which takes the notification in one of its readings.
Notify(change, clients) ==
    /\ change \in changes /\ changes' = changes \ {change}
    /\ \E taken \in [clients -> change] :
        known' = [c \in Clients |->
                     IF c \in clients
                     THEN [k \in EntryKeys |->
                              IF k \in DOMAIN taken[c] /\ taken[c][k].version > known[c][k].version
                              THEN taken[c][k] ELSE known[c][k]]
                     ELSE known[c]]
    /\ UNCHANGED <<kv, tx, alike, requests>>

\* The keys were never used, hold a value, or were deleted.
KvInit ==
    /\ \E row \in {NoEntry, [version |-> 1, value |-> None]} \cup [version : {0}, value : Values] :
           kv = [k \in EntryKeys |-> row] /\ alike = [k \in EntryKeys |-> {row}]
    /\ known = [c \in Clients |-> [k \in EntryKeys |-> NoEntry]]
    /\ tx = [c \in Clients |-> None]
    /\ changes = {} /\ requests = 0

KvNext ==
    \/ \E c \in Clients :
        \/ \E keys \in SUBSET EntryKeys \ {{}} : Read(c, keys)
        \/ \E batch \in Batches : Begin(c, batch)
        \/ Mutate(c) \/ Refuse(c) \/ Retry(c) \/ Fail(c)
    \/ \E change \in changes : \E clients \in SUBSET Clients : Notify(change, clients)

KvSpec == KvInit /\ [][KvNext]_kvVars

-----------------------------------------------------------------------------
(* Properties.                                                              *)

\* What a client knows of the newest version of a key is what the last write said
\* of it.  That is the value of the key, unless one request named the key twice:
\* then it may be the value that the request itself replaced.
KnownVersionKnownValue ==
    \A c \in Clients, k \in EntryKeys : known[c][k].version = kv[k].version => known[c][k] \in alike[k]

\* So a request replaces no version its client had not heard of when it was sent,
\* and no value but one said together with that it knew, whatever was deleted,
\* retried or announced late.
NothingIsOverwrittenUnseen ==
    \A k \in EntryKeys : kv'[k] # kv[k] =>
        \E c \in Clients : tx[c] # None /\ tx'[c] = None /\ k \in KeysOf(tx[c].batch)
                           /\ tx[c].expect[k].version = kv[k].version /\ tx[c].expect[k] \in alike[k]

\* A write is made by who knows what it replaces.
WritersAreInformed == [][NothingIsOverwrittenUnseen /\ KnownVersionKnownValue']_kvVars

=============================================================================
