---------------------------- MODULE MCServices ----------------------------
(* The services around the board, one at a time.  They meet only in rows     *)
(* that one of them owns and the others merely read, so a behaviour is one    *)
(* of a single service: `part` names it, and the rest stands still.           *)
EXTENDS SignIn, TokenCache, Invitations, GithubLink, KvStore, Friends, Rpc,
        SessionLog, MachineRegistry, SessionEntry, TeamMail, WeixinBridge, Genomes,
        Trials, TaskRoutes, TLC

CONSTANTS a1, a2, b1, b2, n1, n2, n3, d1, d2, d3, k1, k2, s1, s2, s3

VARIABLE part

Parts == {"AccountKeys", "AuthRequests", "TokenCache", "Invitations", "GithubLink", "KvStore", "Friends",
          "Rpc", "SessionLog", "MachineRegistry", "SessionEntry", "TeamMessages", "TeamPosts", "WeixinBridge", "Genomes", "Trials", "TaskRoutes"}

\* Accounts that are there before: none, one with a key, one whose secret is kept.
TheRows == {None} \cup [publicKey : {k1}, supabaseUserId : {None}, secret : {None, k1}]

\* Two devices of one account and one of another.
TheDevices == d1 :> a1 @@ d2 :> a1 @@ d3 :> a2

\* A connection of the session, one of the whole user, one of another session.
TheScopes == n1 :> [scope |-> "session", subject |-> s1] @@ n2 :> [scope |-> "user", subject |-> None]
             @@ n3 :> [scope |-> "session", subject |-> s2]

\* A session of the team's owner, one of another account, one that has no row yet.
TheHomes == s1 :> a1 @@ s2 :> a2 @@ s3 :> None

\* A session of the owner, and one of a visitor that was deleted.
TheHelpers == s1 :> a1 @@ s2 :> a2
TheHelperRows == {s1 :> "live" @@ s2 :> "deleted"}

\* The two requests, or callers, of each kind are alike: all change places at once.
Slots == {Callers, Editors, Works, Linkers}
Symmetry ==
    {f \in Permutations(UNION Slots) :
        /\ \A S \in Slots : \A x \in S : f[x] \in S
        /\ \A x, y \in UNION Slots : f[x] = x <=> f[y] = y}

ServicesInit ==
    /\ part \in Parts
    /\ KeysInit /\ (part # "AccountKeys" => account = [a \in Accounts |-> None])
    /\ RequestsInit
    /\ TokensInit
    /\ InvitationsInit /\ (part # "Invitations" => invitation = [c \in InvitationCodes |-> None])
    /\ GithubInit
    /\ KvInit /\ (part # "KvStore" => kv = [k \in EntryKeys |-> NoEntry])
    /\ FriendsInit
    /\ RpcInit
    /\ LogInit
    /\ MachinesInit
    /\ EntryInit /\ (part # "SessionEntry" => row = [i \in SessionRows |-> None])
    /\ ChatInit /\ (part # "TeamMessages" => chat = <<>>)
    /\ PostsInit /\ (part # "TeamPosts" => roster = {})
    /\ WeixinInit
    /\ GenomesInit
    /\ TrialsInit /\ (part # "Trials" => trials = <<>>)
    /\ TasksInit /\ (part # "TaskRoutes" => crew = {} /\ jobs = <<>>)

KeysStep ==
    /\ part = "AccountKeys" /\ KeysNext
    /\ UNCHANGED <<part, requestVars, tokenVars, invitationVars, githubVars, kvVars,
                   friendVars, rpcVars, logVars, machineVars, entryVars, chatVars,
                   postVars, weixinVars, genomeVars, trialVars, taskVars>>

RequestsStep ==
    /\ part = "AuthRequests" /\ RequestsNext
    /\ UNCHANGED <<part, keysVars, tokenVars, invitationVars, githubVars, kvVars,
                   friendVars, rpcVars, logVars, machineVars, entryVars, chatVars,
                   postVars, weixinVars, genomeVars, trialVars, taskVars>>

TokensStep ==
    /\ part = "TokenCache" /\ TokensNext
    /\ UNCHANGED <<part, keysVars, requestVars, invitationVars, githubVars, kvVars,
                   friendVars, rpcVars, logVars, machineVars, entryVars, chatVars,
                   postVars, weixinVars, genomeVars, trialVars, taskVars>>

InvitationsStep ==
    /\ part = "Invitations" /\ InvitationsNext
    /\ UNCHANGED <<part, keysVars, requestVars, tokenVars, githubVars, kvVars,
                   friendVars, rpcVars, logVars, machineVars, entryVars, chatVars,
                   postVars, weixinVars, genomeVars, trialVars, taskVars>>

GithubStep ==
    /\ part = "GithubLink" /\ GithubNext
    /\ UNCHANGED <<part, keysVars, requestVars, tokenVars, invitationVars, kvVars,
                   friendVars, rpcVars, logVars, machineVars, entryVars, chatVars,
                   postVars, weixinVars, genomeVars, trialVars, taskVars>>

KvStep ==
    /\ part = "KvStore" /\ KvNext
    /\ UNCHANGED <<part, keysVars, requestVars, tokenVars, invitationVars, githubVars,
                   friendVars, rpcVars, logVars, machineVars, entryVars, chatVars,
                   postVars, weixinVars, genomeVars, trialVars, taskVars>>

FriendsStep ==
    /\ part = "Friends" /\ FriendsNext
    /\ UNCHANGED <<part, keysVars, requestVars, tokenVars, invitationVars, githubVars,
                   kvVars, rpcVars, logVars, machineVars, entryVars, chatVars, postVars,
                   weixinVars, genomeVars, trialVars, taskVars>>

RpcStep ==
    /\ part = "Rpc" /\ RpcNext
    /\ UNCHANGED <<part, keysVars, requestVars, tokenVars, invitationVars, githubVars,
                   kvVars, friendVars, logVars, machineVars, entryVars, chatVars,
                   postVars, weixinVars, genomeVars, trialVars, taskVars>>

LogStep ==
    /\ part = "SessionLog" /\ LogNext
    /\ UNCHANGED <<part, keysVars, requestVars, tokenVars, invitationVars, githubVars,
                   kvVars, friendVars, rpcVars, machineVars, entryVars, chatVars,
                   postVars, weixinVars, genomeVars, trialVars, taskVars>>

MachinesStep ==
    /\ part = "MachineRegistry" /\ MachinesNext
    /\ UNCHANGED <<part, keysVars, requestVars, tokenVars, invitationVars, githubVars,
                   kvVars, friendVars, rpcVars, logVars, entryVars, chatVars, postVars,
                   weixinVars, genomeVars, trialVars, taskVars>>

EntryStep ==
    /\ part = "SessionEntry" /\ EntryNext
    /\ UNCHANGED <<part, keysVars, requestVars, tokenVars, invitationVars, githubVars,
                   kvVars, friendVars, rpcVars, logVars, machineVars, chatVars, postVars,
                   weixinVars, genomeVars, trialVars, taskVars>>

ChatStep ==
    /\ part = "TeamMessages" /\ ChatNext
    /\ UNCHANGED <<part, keysVars, requestVars, tokenVars, invitationVars, githubVars,
                   kvVars, friendVars, rpcVars, logVars, machineVars, entryVars,
                   postVars, weixinVars, genomeVars, trialVars, taskVars>>

PostsStep ==
    /\ part = "TeamPosts" /\ PostsNext
    /\ UNCHANGED <<part, keysVars, requestVars, tokenVars, invitationVars, githubVars,
                   kvVars, friendVars, rpcVars, logVars, machineVars, entryVars,
                   chatVars, weixinVars, genomeVars, trialVars, taskVars>>

WeixinStep ==
    /\ part = "WeixinBridge" /\ WeixinNext
    /\ UNCHANGED <<part, keysVars, requestVars, tokenVars, invitationVars, githubVars,
                   kvVars, friendVars, rpcVars, logVars, machineVars, entryVars,
                   chatVars, postVars, genomeVars, trialVars, taskVars>>

GenomesStep ==
    /\ part = "Genomes" /\ GenomesNext
    /\ UNCHANGED <<part, keysVars, requestVars, tokenVars, invitationVars, githubVars,
                   kvVars, friendVars, rpcVars, logVars, machineVars, entryVars,
                   chatVars, postVars, weixinVars, trialVars, taskVars>>

TrialsStep ==
    /\ part = "Trials" /\ TrialsNext
    /\ UNCHANGED <<part, keysVars, requestVars, tokenVars, invitationVars, githubVars,
                   kvVars, friendVars, rpcVars, logVars, machineVars, entryVars,
                   chatVars, postVars, weixinVars, genomeVars, taskVars>>

TasksStep ==
    /\ part = "TaskRoutes" /\ TasksNext
    /\ UNCHANGED <<part, keysVars, requestVars, tokenVars, invitationVars, githubVars,
                   kvVars, friendVars, rpcVars, logVars, machineVars, entryVars,
                   chatVars, postVars, weixinVars, genomeVars, trialVars>>

ServicesNext ==
    \/ KeysStep \/ RequestsStep \/ TokensStep \/ InvitationsStep \/ GithubStep \/ KvStep \/ FriendsStep
    \/ RpcStep \/ LogStep \/ MachinesStep \/ EntryStep \/ ChatStep \/ PostsStep
    \/ WeixinStep \/ GenomesStep \/ TrialsStep \/ TasksStep

servicesVars == <<part, keysVars, requestVars, tokenVars, invitationVars, githubVars,
                  kvVars, friendVars, rpcVars, logVars, machineVars, entryVars, chatVars,
                  postVars, weixinVars, genomeVars, trialVars, taskVars>>

ServicesSpec == ServicesInit /\ [][ServicesNext]_servicesVars
=============================================================================
