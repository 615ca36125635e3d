------------------------------ MODULE TeamPosts ------------------------------
(***************************************************************************)
(* Posting a message to a team (POST /v1/teams/:teamId/messages): the      *)
(* sender is checked, the message is stored, and the sessions of the       *)
(* roster are told, in separate queries, while sessions are deleted and    *)
(* rosters change (see TeamRoster).  The event goes to connections of the  *)
(* team's owner only.                                                      *)
(***************************************************************************)
EXTENDS Absent, Naturals, FiniteSets, EventRouter

CONSTANTS
    Seats,          \* sessions that may be on the roster
    Homes,          \* the account of each session; None: the row is not there yet
    Chief,          \* the owner of the team
    Posters,        \* accounts that may post: the owner, and owners of sessions
    Posts           \* posts that ever arrive

\* A post under way.
Posted == [account : Posters, sender : Seats \cup {None}, at : {"store", "tell", "done", "refused"}]

ASSUME PostsAssumption == None \notin Seats \cup Posted

VARIABLES
    roster,         \* the sessions the team's artifact lists
    gone,           \* deleted sessions
    post,           \* each post: who posts in whose name, and how far it is
    stored,         \* the posts that were stored
    notified,       \* the posts each session was told of
    here,           \* history: the sessions that were on the roster all the time since
                    \* the post was received
    dead            \* history: posts whose sender was deleted before they arrived

postVars == <<roster, gone, post, stored, notified, here, dead>>

Row(s, account) == Homes[s] = account

\* A session of the poster's account that is not deleted, or else a session
\* on the roster; None: the account speaks itself.
MaySpeak(account, s) ==
    \/ s = None
    \/ Row(s, account) /\ s \notin gone
    \/ ~Row(s, account) /\ s \in roster

\* The access check of the poster's account is in TeamRoster.
ReceivePost(p, account, s) ==
    /\ post[p] = None
    /\ post' = [post EXCEPT ![p] = [account |-> account, sender |-> s,
                                    at |-> IF MaySpeak(account, s) THEN "store" ELSE "refused"]]
    /\ here' = [here EXCEPT ![p] = roster]
    /\ dead' = IF s \in gone /\ Row(s, account) THEN dead \cup {p} ELSE dead
    /\ UNCHANGED <<roster, gone, stored, notified>>

PersistPost(p) ==
    /\ post[p] # None /\ post[p].at = "store"
    /\ stored' = stored \cup {p}
    /\ post' = [post EXCEPT ![p].at = "tell"]
    /\ UNCHANGED <<roster, gone, notified, here, dead>>

\* The roster as it is now; while it is empty, all sessions of the owner.
Audience == IF roster = {} THEN {s \in Seats : Row(s, Chief)} ELSE roster

\* Every session is connected; the sender's connection is told, too.
Broadcast(p) ==
    /\ post[p] # None /\ post[p].at = "tell"
    /\ notified' = [s \in Seats |-> notified[s] \cup
                  IF s \in Recipients({m \in Seats : Row(m, Chief)},
                                      [m \in Seats |-> [scope |-> "session", subject |-> m]],
                                      [type |-> "specific-sessions", subjects |-> Audience], None)
                  THEN {p} ELSE {}]
    /\ post' = [post EXCEPT ![p].at = "done"]
    /\ UNCHANGED <<roster, gone, stored, here, dead>>

Recruit(s) == /\ roster' = roster \cup {s} /\ s \notin roster
              /\ UNCHANGED <<gone, post, stored, notified, here, dead>>

Dismiss(s) == /\ s \in roster /\ roster' = roster \ {s}
              /\ here' = [p \in Posts |-> here[p] \ {s}]
              /\ UNCHANGED <<gone, post, stored, notified, dead>>

Vanish(s) == /\ s \notin gone /\ gone' = gone \cup {s}
             /\ UNCHANGED <<roster, post, stored, notified, here, dead>>

PostsInit ==
    /\ roster \in SUBSET Seats
    /\ gone = {} /\ stored = {} /\ dead = {}
    /\ post = [p \in Posts |-> None]
    /\ notified = [s \in Seats |-> {}]
    /\ here = [p \in Posts |-> {}]

PostsNext ==
    \/ \E p \in Posts : \/ \E a \in Posters, s \in Seats \cup {None} : ReceivePost(p, a, s)
                        \/ PersistPost(p) \/ Broadcast(p)
    \/ \E s \in Seats : Recruit(s) \/ Dismiss(s) \/ Vanish(s)

PostsSpec == PostsInit /\ [][PostsNext]_postVars

-----------------------------------------------------------------------------
(* Properties.                                                              *)

\* Whatever happens to the roster and to sessions meanwhile, a session of the
\* team's owner that is on the roster all the time is told of the post.
RosterIsTold ==
    \A p \in Posts : post[p] # None /\ post[p].at = "done" =>
        \A s \in here[p] : Row(s, Chief) => p \in notified[s]

\* A session that its account deleted does not speak again, not even while it
\* is still on the roster.
DeletedAreSilent == dead \cap stored = {}

=============================================================================
