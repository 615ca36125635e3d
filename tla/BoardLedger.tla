---------------------------- MODULE BoardLedger ----------------------------
(***************************************************************************)
(* What the callers of the task orchestrator may rely on: the stored board *)
(* accumulates mutations, none is lost, and a caller is told that its      *)
(* mutation is saved only when it is stored.                               *)
(***************************************************************************)
CONSTANTS Requests, Tries, Mutations

VARIABLES
    stored,  \* the mutations in the stored board
    told     \* the requests that were answered with success

Init == stored = {} /\ told = {}

\* A save stores mutations: its own, and those of others it found in the board.
Store ==
    /\ stored' \in SUBSET Mutations
    /\ stored \subseteq stored'
    /\ UNCHANGED told

Tell(r) ==
    /\ \E n \in Tries : <<r, n>> \in stored
    /\ told' = told \cup {r}
    /\ UNCHANGED stored

Next == Store \/ \E r \in Requests : Tell(r)

Spec == Init /\ [][Next]_<<stored, told>>
=============================================================================
