----------------------------- MODULE GithubLink -----------------------------
(***************************************************************************)
(* The GitHub user an account is connected to.  Connecting first           *)
(* disconnects the account that had it, then fetches and uploads the       *)
(* avatar, which takes long and may fail, and then links in a transaction. *)
(* The name of the account is the login of its GitHub user.  GithubUser    *)
(* rows are referenced by accounts: when one is deleted the reference is   *)
(* cleared.                                                                *)
(***************************************************************************)
EXTENDS Absent, Naturals, FiniteSets

CONSTANTS
    Members,        \* accounts
    Logins,         \* GitHub users
    Linkers,        \* slots for the calls that are under way
    MaxLinks        \* bound on the calls of a behaviour

VARIABLES
    linked,         \* githubUserId of each account
    username,       \* and its name, unique among accounts
    githubUser,     \* the account whose token each GitHub user's row holds
    linking,        \* the call in each slot
    links,          \* the number of calls so far
    stale           \* history: GitHub users whose row a late disconnection deleted

githubVars == <<linked, username, githubUser, linking, links, stale>>

LinkedTo(g) == {m \in Members : linked[m] = g}
NamedAs(g) == {m \in Members : username[m] = g}

Linking(i, pc) == linking[i] # None /\ linking[i].pc = pc
Turns(i, next) == linking' = [linking EXCEPT ![i] = next]

\* Nothing to do when the account has this GitHub user.
Connect(i, m, g) ==
    /\ linking[i] = None /\ links < MaxLinks
    /\ linked[m] # g
    /\ links' = links + 1
    /\ Turns(i, [account |-> m, login |-> g, pc |-> "find", other |-> None, found |-> None])
    /\ UNCHANGED <<linked, username, githubUser, stale>>

FindConnection(i) ==
    /\ Linking(i, "find")
    /\ LET others == LinkedTo(linking[i].login) \ {linking[i].account}
       IN  IF others = {} THEN Turns(i, [linking[i] EXCEPT !.pc = "upload"])
           ELSE \E m \in others : Turns(i, [linking[i] EXCEPT !.pc = "look", !.other = m])
    /\ UNCHANGED <<linked, username, githubUser, links, stale>>

\* githubDisconnect of the account itself.
Disconnect(i, m) ==
    /\ linking[i] = None /\ links < MaxLinks
    /\ links' = links + 1
    /\ Turns(i, [account |-> m, login |-> None, pc |-> "look", other |-> m, found |-> None])
    /\ UNCHANGED <<linked, username, githubUser, stale>>

Resumed(i) == IF linking[i].login = None THEN None ELSE [linking[i] EXCEPT !.pc = "upload"]

\* An account without a GitHub user is left as it is.
FindLink(i) ==
    /\ Linking(i, "look")
    /\ LET g == linked[linking[i].other]
       IN  Turns(i, IF g = None THEN Resumed(i) ELSE [linking[i] EXCEPT !.pc = "clear", !.found = g])
    /\ UNCHANGED <<linked, username, githubUser, links, stale>>

Unnamed(m) == username' = [username EXCEPT ![m] = None]

\* One transaction: it fails when the row it saw is gone.
ClearLink(i) ==
    /\ Linking(i, "clear")
    /\ LET m == linking[i].other g == linking[i].found
       IN  IF githubUser[g] = None THEN Turns(i, None) /\ UNCHANGED <<linked, username, githubUser, stale>>
           ELSE /\ Unnamed(m)
                /\ githubUser' = [githubUser EXCEPT ![g] = None]
                /\ linked' = [x \in Members |-> IF x = m \/ linked[x] = g THEN None ELSE linked[x]]
                /\ stale' = stale \cup {x \in {g} : LinkedTo(g) \ {m} # {}}
                /\ Turns(i, Resumed(i))
    /\ UNCHANGED links

\* The avatar cannot be fetched or uploaded, or a query fails.
GiveUp(i) ==
    /\ linking[i] # None
    /\ Turns(i, None)
    /\ UNCHANGED <<linked, username, githubUser, links, stale>>

\* Variant: the row is written on its own, and stays when the account fails.
KeptAnyway(m, g) == githubUser' = [githubUser EXCEPT ![g] = m]

RolledBack(m, g) == UNCHANGED githubUser

\* One transaction: the row with the caller's token, then the account.  It fails
\* when another account has the GitHub user or the name by now.
Persist(i) ==
    /\ Linking(i, "upload")
    /\ LET m == linking[i].account g == linking[i].login
       IN  IF (LinkedTo(g) \cup NamedAs(g)) \subseteq {m}
           THEN /\ githubUser' = [githubUser EXCEPT ![g] = m]
                /\ linked' = [linked EXCEPT ![m] = g]
                /\ username' = [username EXCEPT ![m] = g]
           ELSE RolledBack(m, g) /\ UNCHANGED <<linked, username>>
    /\ Turns(i, None)
    /\ UNCHANGED <<links, stale>>

GithubInit ==
    /\ linked = [m \in Members |-> None]
    /\ username = [m \in Members |-> None]
    /\ githubUser = [g \in Logins |-> None]
    /\ linking = [i \in Linkers |-> None]
    /\ links = 0
    /\ stale = {}

GithubNext ==
    \E i \in Linkers :
        \/ \E m \in Members : Disconnect(i, m) \/ \E g \in Logins : Connect(i, m, g)
        \/ FindConnection(i) \/ FindLink(i) \/ ClearLink(i) \/ GiveUp(i) \/ Persist(i)

GithubSpec == GithubInit /\ [][GithubNext]_githubVars

-----------------------------------------------------------------------------
(* Properties.                                                              *)

\* The name of an account is that of the GitHub user it is linked to: nobody
\* keeps a name he has no GitHub user for, which would bar its owner from
\* connecting.  Only a disconnection that looked before the user moved to
\* another account, and deletes its row after that, breaks this.
NameGoesWithLink ==
    \A m \in Members : username[m] = linked[m] \/ username[m] \in stale

\* The token stored for a GitHub user is that of the account linked to it.
TokenIsOfOwner ==
    \A m \in Members : linked[m] # None => githubUser[linked[m]] = m

\* However connections and disconnections overlap, name, link and token go together.
ConnectionIsWhole == NameGoesWithLink /\ TokenIsOfOwner

=============================================================================
