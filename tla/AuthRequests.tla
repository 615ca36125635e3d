---------------------------- MODULE AuthRequests ----------------------------
(***************************************************************************)
(* A terminal, or a new device of an account, asks to be let in under a    *)
(* fresh public key and polls until a device that is signed in answers.    *)
(* The two tables of requests (TerminalAuthRequest, AccountAuthRequest)    *)
(* are handled alike; a key of Newcomers stands for a row of either.       *)
(* A device looks at the request and answers it in two queries.            *)
(***************************************************************************)
EXTENDS Absent, Naturals, FiniteSets

CONSTANTS
    Newcomers,    \* public keys that ask to be let in
    Devices,      \* devices that may answer, each with its own response
    AccountOf     \* the account a device is signed in to

ASSUME RequestsAssumption == None \notin Newcomers

VARIABLES
    authRequest,  \* the row of each public key
    looked,       \* the request a device saw open and is about to answer
    learnt,       \* history: the answers each newcomer was told
    crossed       \* history: requests that several devices saw open

requestVars == <<authRequest, looked, learnt, crossed>>

Authorized(k) == authRequest[k] # None /\ authRequest[k].response # None

\* Polling creates the row, and tells the answer when there is one.
Request(k) ==
    /\ IF authRequest[k] = None
       THEN authRequest' = [authRequest EXCEPT ![k] = [response |-> None, responseAccount |-> None]]
       ELSE UNCHANGED authRequest
    /\ learnt' = IF Authorized(k) THEN [learnt EXCEPT ![k] = @ \cup {authRequest[k]}] ELSE learnt
    /\ UNCHANGED <<looked, crossed>>

IsOpen(k) == authRequest[k] # None /\ ~Authorized(k)

\* A device that finds the request answered is told of a success, and stops.
LookUp(d, k) ==
    /\ looked[d] = None /\ IsOpen(k)
    /\ looked' = [looked EXCEPT ![d] = k]
    /\ crossed' = crossed \cup {x \in {k} : \E e \in Devices : looked[e] = k}
    /\ UNCHANGED <<authRequest, learnt>>

AnsweredBy(d) == [response |-> d, responseAccount |-> AccountOf[d]]

Respond(d) ==
    /\ looked[d] # None
    /\ authRequest' = [authRequest EXCEPT ![looked[d]] = AnsweredBy(d)]
    /\ looked' = [looked EXCEPT ![d] = None]
    /\ UNCHANGED <<learnt, crossed>>

RequestsInit ==
    /\ authRequest = [k \in Newcomers |-> None]
    /\ looked = [d \in Devices |-> None]
    /\ learnt = [k \in Newcomers |-> {}]
    /\ crossed = {}

RequestsNext ==
    \/ \E k \in Newcomers : Request(k) \/ \E d \in Devices : LookUp(d, k)
    \/ \E d \in Devices : Respond(d)

RequestsSpec == RequestsInit /\ [][RequestsNext]_requestVars

-----------------------------------------------------------------------------
(* Properties.                                                              *)

\* The token a newcomer gets is for the account of the device whose response
\* comes with it, also when two devices of two accounts answer.
AnswerIsWhole ==
    \A k \in Newcomers : \A answer \in learnt[k] : answer.responseAccount = AccountOf[answer.response]

\* A newcomer that was told an answer is told the same one ever after, unless
\* two devices saw its request open.
AnswerIsStable ==
    \A k \in Newcomers \ crossed : Cardinality(learnt[k]) <= 1

\* A newcomer learns one answer, all of it from one device.
OneWholeAnswer == AnswerIsWhole /\ AnswerIsStable

=============================================================================
