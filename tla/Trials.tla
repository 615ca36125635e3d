------------------------------- MODULE Trials -------------------------------
(***************************************************************************)
(* Trials of a genome or an agent by a session.  A session tries one thing  *)
(* at a time: starting a trial ends whatever is open, in a transaction that *)
(* holds an advisory lock of the session.  Ending a trial takes no lock and *)
(* ends the session's other trials in a second query.  The trials of one    *)
(* session, and those of none.                                              *)
(***************************************************************************)
EXTENDS Absent, Naturals, Sequences, FiniteSets

CONSTANTS
    Trialists,      \* clients with a request under way
    Subjects,       \* what is tried: an entity in a version, for a team
    MaxTrials

ASSUME TrialsAssumption == None \notin Trialists

VARIABLES
    trials,         \* the rows, in the order they were started
    trial,          \* the request of each client
    trialLock       \* the client whose transaction holds the session's lock

trialVars == <<trials, trial, trialLock>>

OpenTrials == {i \in DOMAIN trials : trials[i].inSession /\ trials[i].open}

NewTrial(of, inSession) == [of |-> of, inSession |-> inSession, open |-> TRUE]

\* A trial of no session: one insert, without a lock.
StartLoose(of) ==
    /\ Len(trials) < MaxTrials
    /\ trials' = Append(trials, NewTrial(of, FALSE))
    /\ UNCHANGED <<trial, trialLock>>

\* Variant: no lock.
LockIsFreeAlways == TRUE

LockIsFree == trialLock = None

\* The lock is taken and the open trials are read.
BeginStart(c, of) ==
    /\ trial[c] = None /\ LockIsFree
    /\ Len(trials) < MaxTrials
    /\ trialLock' = c
    /\ trial' = [trial EXCEPT ![c] = [does |-> "start", of |-> of, seen |-> OpenTrials]]
    /\ UNCHANGED trials

\* The latest is the one that counts.
Primary(seen) == CHOOSE i \in seen : \A j \in seen : j <= i

IsSame(of, seen) == seen # {} /\ trials[Primary(seen)].of = of

Ended(ids) == [i \in DOMAIN trials |-> IF i \in ids THEN [trials[i] EXCEPT !.open = FALSE] ELSE trials[i]]

\* What the transaction leaves, and the trial that the client is told.
Started(of, seen) ==
    IF IsSame(of, seen) THEN Ended(seen \ {Primary(seen)})
    ELSE Append(Ended(seen), NewTrial(of, TRUE))
Told(of, seen) == IF IsSame(of, seen) THEN Primary(seen) ELSE Len(trials) + 1

CommitStart(c) ==
    /\ trial[c] # None /\ trial[c].does = "start"
    /\ trials' = Started(trial[c].of, trial[c].seen)
    /\ trial' = [trial EXCEPT ![c] = None]
    /\ trialLock' = None

\* A query fails, or the transaction takes too long.
RollBackStart(c) ==
    /\ trial[c] # None /\ trial[c].does = "start"
    /\ trial' = [trial EXCEPT ![c] = None]
    /\ trialLock' = None
    /\ UNCHANGED trials

\* An open or ended trial is given its end; those of a session then end the others.
EndTrial(c, i) ==
    /\ trial[c] = None
    /\ trials' = Ended({i})
    /\ trial' = IF trials[i].inSession THEN [trial EXCEPT ![c] = [does |-> "end", id |-> i]] ELSE trial
    /\ UNCHANGED trialLock

EndOthers(c) ==
    /\ trial[c] # None /\ trial[c].does = "end"
    /\ trials' = Ended(OpenTrials \ {trial[c].id})
    /\ trial' = [trial EXCEPT ![c] = None]
    /\ UNCHANGED trialLock

\* Two trials of a session may be open from before there was a lock.
TrialsInit ==
    /\ trials \in {<<>>} \cup {<<NewTrial(o, TRUE), NewTrial(p, TRUE)>> : o \in Subjects, p \in Subjects}
    /\ trial = [c \in Trialists |-> None]
    /\ trialLock = None

TrialsNext ==
    \/ \E of \in Subjects : StartLoose(of) \/ \E c \in Trialists : BeginStart(c, of)
    \/ \E c \in Trialists :
          \/ CommitStart(c) \/ RollBackStart(c) \/ EndOthers(c)
          \/ \E i \in DOMAIN trials : EndTrial(c, i)

TrialsSpec == TrialsInit /\ [][TrialsNext]_trialVars

-----------------------------------------------------------------------------
(* Properties.                                                              *)

\* A start leaves no trial of the session open but the one it answers, however
\* many clients start and end trials at once (ensureSingleOpenSessionTrial).
StartLeavesOneOpen ==
    [][\A c \in Trialists : CommitStart(c) =>
          OpenTrials' \subseteq {Told(trial[c].of, trial[c].seen)}]_trialVars

=============================================================================
