---------------------------- MODULE AccountKeys ----------------------------
(***************************************************************************)
(* Accounts, the secret kept for their recovery, and the codes that let    *)
(* another device join.                                                    *)
(*                                                                         *)
(* A secret and the public key derived from it are one value of Keys.  A   *)
(* call makes its queries one by one; calls interleave between any two.    *)
(* Cryptography, tokens and profile fields are left out: a request comes   *)
(* with the account that its token names.                                  *)
(***************************************************************************)
EXTENDS Absent, Naturals, FiniteSets

CONSTANTS
    Callers,      \* slots for the calls that are under way
    Accounts,     \* ids of account rows
    SignIns,      \* identities of the external sign-in service
    Keys, JoinCodes,
    Rows0,        \* what the row of an account may be at the start
    MaxAsks       \* bound on the calls of a behaviour

\* A row of an account, a row of a join code, and what a call carries with it.
AccountRow == [publicKey : Keys, supabaseUserId : SignIns \cup {None}, secret : Keys \cup {None}]
CodeRow == [account : Accounts, used : BOOLEAN, expired : BOOLEAN]
Call == [kind : {"complete", "exchange", "recover", "material", "create", "join", "redeem", "created"},
         pc : {"signIn", "legacy", "link", "newKey", "insert", "account", "code", "proof", "secret", "material",
               "keep", "keepToo", "adopt", "clear", "issue", "spend", "answer"},
         signIn : SignIns \cup {None}, key : Keys \cup {None}, proof : Keys \cup {None},
         token : Accounts \cup {None}, code : JoinCodes \cup {None}, account : Accounts \cup {None},
         publicKey : Keys \cup {None}, got : Keys \cup {None}, alone : BOOLEAN, keys : SUBSET Keys]

\* Accounts of the time before sign-ins are linked to none.
ASSUME KeysAssumption ==
    /\ None \notin Accounts \cup Keys \cup SignIns \cup JoinCodes \cup AccountRow \cup CodeRow \cup Call
    /\ Rows0 \subseteq {None} \cup [publicKey : Keys, supabaseUserId : {None}, secret : Keys \cup {None}]

VARIABLES
    account,      \* the row of each account
    material,     \* the older table of recovery material
    joinCode,     \* the rows of the join codes
    ask,          \* the call in each slot
    asks,         \* the number of calls so far
    told,         \* history: the account each identity was told is its own
    raced         \* history: accounts two identities looked at before either linked

keysVars == <<account, material, joinCode, ask, asks, told, raced>>

Rows == {a \in Accounts : account[a] # None}
OfSignIn(u) == {a \in Rows : account[a].supabaseUserId = u}
OfKey(k) == {a \in Rows : account[a].publicKey = k}

\* supabaseUserId and publicKey are unique: other writes fail.
Unique(a, u, k) == OfSignIn(u) \subseteq {a} /\ OfKey(k) \subseteq {a}

Ready(a) ==
    account[a].publicKey = IF account[a].secret # None THEN account[a].secret ELSE material[a]

-----------------------------------------------------------------------------
(* Calls.                                                                   *)

AtStep(c, pc) == ask[c] # None /\ ask[c].pc = pc
Proceeds(c, next) == ask' = [ask EXCEPT ![c] = next]
To(c, pc) == Proceeds(c, [ask[c] EXCEPT !.pc = pc])
Refused(c) == Proceeds(c, None)

\* A write about an account is noted in the other calls about it (history).
Noted(c, a, next) == ask' = [d \in Callers |->
    IF d = c THEN next
    ELSE IF ask[d] = None \/ ask[d].account # a THEN ask[d]
    ELSE [ask[d] EXCEPT !.alone = FALSE, !.keys = @ \cup {account'[a].publicKey}]]

\* What a call goes on with when it has read the row r of account a.
Holding(q, a, r, pc) ==
    [q EXCEPT !.pc = pc, !.account = a, !.publicKey = r.publicKey, !.keys = {r.publicKey}, !.alone = TRUE]

Starts(c, kind, pc, u, k, proof, a, code) ==
    /\ ask[c] = None /\ asks < MaxAsks
    /\ asks' = asks + 1
    /\ Proceeds(c, [kind |-> kind, pc |-> pc, signIn |-> u, key |-> k, proof |-> proof, token |-> a,
                    code |-> code, account |-> None, publicKey |-> None, got |-> None,
                    alone |-> TRUE, keys |-> {}])
    /\ UNCHANGED <<account, material, joinCode, told, raced>>

\* A sign-in brings a new secret and the token of an older account, or neither.
SupabaseComplete(c, u, k, a) == Starts(c, "complete", "signIn", u, k, None, a, None)
\* An exchange brings a public key, and the secret behind it or not.
SupabaseExchange(c, u, k, proof) == Starts(c, "exchange", "signIn", u, k, proof, None, None)
SupabaseRecover(c, u) == Starts(c, "recover", "signIn", u, None, None, None, None)
RecoveryMaterial(c, a, k) == Starts(c, "material", "account", None, k, None, a, None)
JoincodeCreate(c, a) == Starts(c, "create", "account", None, None, None, a, None)
AccountJoin(c, code) == Starts(c, "join", "code", None, None, None, None, code)
JoincodeRedeem(c, code) == Starts(c, "redeem", "code", None, None, None, None, code)

\* POST /v1/auth: one upsert by public key.
AuthenticateSecretKey(k) ==
    /\ asks < MaxAsks /\ asks' = asks + 1
    /\ OfKey(k) = {}
    /\ \E a \in Accounts \ Rows :
          account' = [account EXCEPT ![a] = [publicKey |-> k, supabaseUserId |-> None, secret |-> None]]
    /\ UNCHANGED <<material, joinCode, ask, told, raced>>

-----------------------------------------------------------------------------
(* Who it is.                                                               *)

\* persistRecoveryMaterialForAccount: no secret, the wrong one, the right one.
Persisting(q) ==
    IF q.proof = None THEN [q EXCEPT !.pc = "answer"]
    ELSE IF q.proof # q.publicKey THEN None
    ELSE [q EXCEPT !.pc = "keep"]

WithoutAccount(q) ==
    IF q.kind = "recover" \/ q.key = None THEN None ELSE [q EXCEPT !.pc = "newKey"]

FindSignIn(c) ==
    /\ AtStep(c, "signIn")
    /\ LET q == ask[c]
       IN  \/ \E a \in OfSignIn(q.signIn) :
                 IF q.kind # "exchange" THEN Proceeds(c, Holding(q, a, account[a], "secret"))
                 ELSE Proceeds(c, IF account[a].publicKey # q.key THEN None
                                  ELSE Persisting(Holding(q, a, account[a], "proof")))
           \/ /\ OfSignIn(q.signIn) = {}
              /\ IF q.token # None THEN To(c, "legacy") ELSE Proceeds(c, WithoutAccount(q))
    /\ UNCHANGED <<account, material, joinCode, asks, told, raced>>

Linkable(u, a) == account[a].supabaseUserId = None

LookAtLegacy(c) ==
    /\ AtStep(c, "legacy")
    /\ LET q == ask[c] a == q.token
       IN  Proceeds(c, IF Linkable(q.signIn, a) THEN Holding(q, a, account[a], "link")
                       ELSE IF account[a].supabaseUserId = q.signIn THEN WithoutAccount(q)
                       ELSE None)
    /\ UNCHANGED <<account, material, joinCode, asks, told, raced>>

Link(c) ==
    /\ AtStep(c, "link")
    /\ LET q == ask[c] a == q.account
       IN  IF Unique(a, q.signIn, account[a].publicKey)
           THEN /\ account' = [account EXCEPT ![a].supabaseUserId = q.signIn]
                /\ Noted(c, a, Holding(q, a, account[a], "secret"))
                /\ raced' = raced \cup {x \in {a} : \E d \in Callers \ {c} :
                                            AtStep(d, "link") /\ ask[d].account = a}
           ELSE Refused(c) /\ UNCHANGED <<account, raced>>
    /\ UNCHANGED <<material, joinCode, asks, told>>

FindKey(c) ==
    /\ AtStep(c, "newKey")
    /\ IF OfKey(ask[c].key) # {} THEN Refused(c) ELSE To(c, "insert")
    /\ UNCHANGED <<account, material, joinCode, asks, told, raced>>

\* An account is inserted unless its identity or its key was taken meanwhile.
Insert(c) ==
    /\ AtStep(c, "insert")
    /\ LET q == ask[c] r == [publicKey |-> q.key, supabaseUserId |-> q.signIn, secret |-> None]
       IN  IF Unique(None, q.signIn, q.key)
           THEN \E a \in Accounts \ Rows :
                   /\ account' = [account EXCEPT ![a] = r]
                   /\ Proceeds(c, IF q.kind = "exchange" THEN Persisting(Holding(q, a, r, "proof"))
                                  ELSE Holding([q EXCEPT !.kind = "created"], a, r, "keep"))
           ELSE Refused(c) /\ UNCHANGED account
    /\ UNCHANGED <<material, joinCode, asks, told, raced>>

\* The row of the account a token or a code names.
FindAccount(c) ==
    /\ AtStep(c, "account")
    /\ LET q == ask[c] a == IF q.kind = "join" THEN q.account ELSE q.token
       IN  Proceeds(c, IF q.kind # "material" THEN Holding(q, a, account[a], "secret")
                       ELSE IF q.key # account[a].publicKey THEN None
                       ELSE Holding(q, a, account[a], "keep"))
    /\ UNCHANGED <<account, material, joinCode, asks, told, raced>>

FindCode(c) ==
    /\ AtStep(c, "code")
    /\ LET q == ask[c] row == joinCode[q.code]
       IN  Proceeds(c, IF row = None THEN None
                       ELSE IF row.used \/ row.expired THEN None
                       ELSE IF q.kind = "join" THEN [q EXCEPT !.account = row.account, !.pc = "account"]
                       ELSE Holding(q, row.account, account[row.account], "secret"))
    /\ UNCHANGED <<account, material, joinCode, asks, told, raced>>

-----------------------------------------------------------------------------
(* The secret.                                                              *)

Fits(q) == q.got = q.publicKey

\* Only a sign-in with a new secret can go on without a fitting one.
WithSecret(q) ==
    IF ~Fits(q) THEN IF q.kind = "complete" /\ q.key # None THEN [q EXCEPT !.pc = "keep"] ELSE None
    ELSE [q EXCEPT !.pc = CASE q.kind \in {"join", "redeem"} -> "spend"
                            [] q.kind = "create" -> "clear"
                            [] OTHER -> "answer"]

ReadSecret(c) ==
    /\ AtStep(c, "secret")
    /\ LET s == account[ask[c].account].secret
       IN  IF s = None THEN To(c, "material") ELSE Proceeds(c, WithSecret([ask[c] EXCEPT !.got = s]))
    /\ UNCHANGED <<account, material, joinCode, asks, told, raced>>

ReadMaterial(c) ==
    /\ AtStep(c, "material")
    /\ Proceeds(c, WithSecret([ask[c] EXCEPT !.got = material[ask[c].account]]))
    /\ UNCHANGED <<account, material, joinCode, asks, told, raced>>

Kept(q) == IF q.kind = "exchange" THEN q.proof ELSE q.key

\* upsertAccountRecoveryMaterial: the column of the account, then the older table.
KeepSecret(c) ==
    /\ AtStep(c, "keep")
    /\ account' = [account EXCEPT ![ask[c].account].secret = Kept(ask[c])]
    /\ Noted(c, ask[c].account, [ask[c] EXCEPT !.pc = "keepToo"])
    /\ UNCHANGED <<material, joinCode, asks, told, raced>>

KeepMaterial(c) ==
    /\ AtStep(c, "keepToo")
    /\ LET q == ask[c]
       IN  /\ material' = [material EXCEPT ![q.account] = Kept(q)]
           /\ UNCHANGED account
           /\ Noted(c, q.account, [q EXCEPT !.pc = IF q.kind = "complete" THEN "adopt" ELSE "answer"])
    /\ UNCHANGED <<joinCode, asks, told, raced>>

\* Variant: the account keeps its public key.
AdoptedNot(q) == account[q.account].publicKey

Adopted(q) == q.key

\* The new secret becomes that of the account, unless another account has it.
Adopt(c) ==
    /\ AtStep(c, "adopt")
    /\ LET q == ask[c]
       IN  IF Unique(q.account, account[q.account].supabaseUserId, q.key)
           THEN /\ account' = [account EXCEPT ![q.account].publicKey = Adopted(q)]
                /\ Noted(c, q.account, [q EXCEPT !.pc = "answer", !.got = q.key, !.keys = @ \cup {q.key}])
           ELSE Refused(c) /\ UNCHANGED account
    /\ UNCHANGED <<material, joinCode, asks, told, raced>>

-----------------------------------------------------------------------------
(* Join codes.                                                              *)

Open(a) == {x \in JoinCodes : joinCode[x] # None /\ joinCode[x].account = a /\ ~joinCode[x].used}

Cleared(a) == Open(a)

ClearCodes(c) ==
    /\ AtStep(c, "clear")
    /\ joinCode' = [x \in JoinCodes |-> IF x \in Cleared(ask[c].account) THEN None ELSE joinCode[x]]
    /\ UNCHANGED account
    /\ Noted(c, ask[c].account, [ask[c] EXCEPT !.pc = "issue"])
    /\ UNCHANGED <<material, asks, told, raced>>

\* A random code that no row has.
IssueCode(c) ==
    /\ AtStep(c, "issue")
    /\ \E x \in JoinCodes :
          /\ joinCode[x] = None /\ \A d \in Callers : ask[d] # None => ask[d].code # x
          /\ joinCode' = [joinCode EXCEPT ![x] = [account |-> ask[c].account, used |-> FALSE, expired |-> FALSE]]
    /\ UNCHANGED account
    /\ Noted(c, ask[c].account, [ask[c] EXCEPT !.pc = "answer"])
    /\ UNCHANGED <<material, asks, told, raced>>

\* The code is marked by its id, unless it was cleared away meanwhile.
SpendCode(c) ==
    /\ AtStep(c, "spend")
    /\ IF joinCode[ask[c].code] = None THEN Refused(c) /\ UNCHANGED joinCode
       ELSE /\ joinCode' = [joinCode EXCEPT ![ask[c].code].used = TRUE]
            /\ To(c, "answer")
    /\ UNCHANGED <<account, material, asks, told, raced>>

ExpireCode(x) ==
    /\ joinCode[x] # None /\ ~joinCode[x].expired
    /\ joinCode' = [joinCode EXCEPT ![x].expired = TRUE]
    /\ UNCHANGED <<account, material, ask, asks, told, raced>>

-----------------------------------------------------------------------------

Answer(c) ==
    /\ AtStep(c, "answer")
    /\ told' = IF ask[c].signIn = None THEN told ELSE [told EXCEPT ![ask[c].signIn] = ask[c].account]
    /\ Refused(c)
    /\ UNCHANGED <<account, material, joinCode, asks, raced>>

\* A query fails, or the process ends: the call goes no further.
Breaks(c) ==
    /\ ask[c] # None /\ ask[c].pc # "answer"
    /\ Refused(c)
    /\ UNCHANGED <<account, material, joinCode, asks, told, raced>>

KeysInit ==
    /\ account \in {r \in [Accounts -> Rows0] :
                       \A a, b \in Accounts : a # b /\ None \notin {r[a], r[b]} => r[a].publicKey # r[b].publicKey}
    /\ material = [a \in Accounts |-> IF account[a] = None THEN None ELSE account[a].secret]
    /\ joinCode = [x \in JoinCodes |-> None]
    /\ ask = [c \in Callers |-> None]
    /\ asks = 0
    /\ told = [u \in SignIns |-> None]
    /\ raced = {}

Ask(c) ==
    \/ \E u \in SignIns :
          \/ \E k \in Keys \cup {None}, a \in Rows \cup {None} : SupabaseComplete(c, u, k, a)
          \/ \E k \in Keys, proof \in Keys \cup {None} : SupabaseExchange(c, u, k, proof)
          \/ SupabaseRecover(c, u)
    \/ \E a \in Rows : JoincodeCreate(c, a) \/ \E k \in Keys : RecoveryMaterial(c, a, k)
    \/ \E x \in JoinCodes : AccountJoin(c, x) \/ JoincodeRedeem(c, x)

GoOn(c) ==
    \/ FindSignIn(c) \/ LookAtLegacy(c) \/ Link(c) \/ FindKey(c) \/ Insert(c) \/ FindAccount(c)
    \/ FindCode(c) \/ ReadSecret(c) \/ ReadMaterial(c) \/ KeepSecret(c) \/ KeepMaterial(c) \/ Adopt(c)
    \/ ClearCodes(c) \/ IssueCode(c) \/ SpendCode(c) \/ Answer(c) \/ Breaks(c)

KeysNext ==
    \/ \E c \in Callers : Ask(c) \/ GoOn(c)
    \/ \E k \in Keys : AuthenticateSecretKey(k)
    \/ \E x \in JoinCodes : ExpireCode(x)

KeysSpec == KeysInit /\ [][KeysNext]_keysVars

-----------------------------------------------------------------------------
(* Properties.                                                              *)

\* The types of the variables, and the unique columns of the table of accounts.
KeysTypeOK ==
    /\ \A a \in Rows : account[a] \in [publicKey : Keys, supabaseUserId : SignIns \cup {None},
                                       secret : Keys \cup {None}]
    /\ material \in [Accounts -> Keys \cup {None}]
    /\ \A x \in JoinCodes : joinCode[x] # None =>
          joinCode[x] \in [account : Rows, used : BOOLEAN, expired : BOOLEAN]
    /\ \A c \in Callers : ask[c] # None /\ ask[c].account # None => ask[c].account \in Rows
    /\ \A u \in SignIns : Cardinality(OfSignIn(u)) <= 1
    /\ \A k \in Keys : Cardinality(OfKey(k)) <= 1

\* After a sign-in with a secret the account can be recovered, whatever calls
\* broke off halfway before it and left a secret that does not fit the key.
SignInLeavesReady ==
    \A c \in Callers : AtStep(c, "answer") /\ ask[c].alone /\
        (ask[c].kind \in {"complete", "created", "material"} \/ ask[c].proof # None) => Ready(ask[c].account)

\* A device that is handed a secret is handed one that fitted the public key of
\* the account at some moment of its call, however many others sign in.
HandedSecretFits ==
    \A c \in Callers : AtStep(c, "answer") /\ ask[c].got # None => ask[c].got \in ask[c].keys

\* An identity that was told of an account keeps it, unless another one looked
\* at the same unlinked account before the first had linked it.
LinkStays ==
    \A u \in SignIns : told[u] # None =>
        account[told[u]].supabaseUserId = u \/ told[u] \in raced

\* A new code closes the earlier ones of its account, unless two are made at once.
OneOpenCode ==
    \A c \in Callers : AtStep(c, "answer") /\ ask[c].kind = "create" /\ ask[c].alone =>
        Cardinality(Open(ask[c].account)) <= 1

\* Sign-in, recovery and join codes, on several devices and broken off anywhere,
\* leave accounts that can be reached, opened and recovered by who owns them.
AccountsStayWhole ==
    KeysTypeOK /\ SignInLeavesReady /\ HandedSecretFits /\ LinkStays /\ OneOpenCode

=============================================================================
