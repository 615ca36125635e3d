-------------------------- MODULE VersionedRegister --------------------------
(***************************************************************************)
(* What a record with versions promises to those who update it.  Each part *)
(* of each life of the record (it can be deleted and created again) takes  *)
(* the versions 1, 2, 3 ... one after the other; a version is written by   *)
(* one request, a request writes once, all its parts together, and it is   *)
(* only told of a success when it wrote.                                   *)
(***************************************************************************)
EXTENDS Naturals

CONSTANTS Parts, Original

VARIABLES
    done,    \* the versions that were written: in which life, of which part, by whom
    told     \* the requests that were told of their success

Versions(life, part) ==
    {d.version : d \in {x \in done : x.life = life /\ x.part = part}}

\* What is there from the beginning is the first version of the first life.
Init ==
    /\ done \subseteq [life : {1}, part : Parts, version : {1}, by : {Original}]
    /\ told = {}

\* One request writes the next version of some parts.
Write ==
    LET new == done' \ done IN
    /\ done \subseteq done'
    /\ \A d \in new :
          /\ d.version \in Nat \ {0}
          /\ Versions(d.life, d.part) = 1 .. d.version - 1
          /\ \A e \in done : e.by # d.by /\ e.life <= d.life
          /\ \A e \in new : e.by = d.by /\ e.life = d.life /\ (e.part = d.part => e = d)

Next == Write /\ told \subseteq told' /\ told' \subseteq {d.by : d \in done'}

Spec == Init /\ [][Next]_<<done, told>>
=============================================================================
