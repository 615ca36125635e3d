--------------------------- MODULE AccountProofs ----------------------------
(***************************************************************************)
(* Accounts: signing in and joining, invitations, the connection to GitHub *)
(* and friendships are sound for any number of accounts, devices and calls *)
(* that interleave.  Each section proves an inductive invariant of one     *)
(* component and what it implies.                                          *)
(***************************************************************************)
EXTENDS SignIn, Invitations, GithubLink, Friends, FiniteSetTheorems, TLAPS

-----------------------------------------------------------------------------
(* Accounts and their keys.                                                 *)

TablesOK ==
    /\ account \in [Accounts -> AccountRow \cup {None}]
    /\ material \in [Accounts -> Keys \cup {None}]
    /\ joinCode \in [JoinCodes -> CodeRow \cup {None}]
    /\ \A x \in JoinCodes : joinCode[x] # None => joinCode[x].account \in Rows
    /\ ask = [c \in Callers |-> ask[c]] /\ told = [u \in SignIns |-> told[u]]

ColumnsAreUnique ==
    \A a \in Rows, b \in Rows :
        \/ account[a].publicKey = account[b].publicKey
        \/ account[a].supabaseUserId = account[b].supabaseUserId /\ account[a].supabaseUserId # None
        => a = b

\* The steps of a call that has read the row of its account.
HasRow(q) == q.pc \in {"link", "secret", "material", "keep", "keepToo", "adopt", "clear", "issue", "spend", "answer"}

\* What a call carries with it.
CallOK(q) ==
    /\ q \in Call /\ q.pc # "proof"
    /\ q.account # None => q.account \in Rows
    /\ q.token # None => q.token \in Rows
    /\ q.signIn # None <=> q.kind \in {"complete", "exchange", "recover", "created"}
    /\ q.proof # None => q.kind = "exchange"
    /\ q.pc \in {"signIn", "legacy", "link", "newKey", "insert"} => q.kind \in {"complete", "exchange", "recover"}
    /\ q.pc \in {"legacy", "link"} => q.kind = "complete" /\ q.token # None
    /\ q.token # None /\ q.signIn # None => q.kind \in {"complete", "created"}
    /\ q.pc \in {"newKey", "insert"} => q.kind \in {"complete", "exchange"} /\ q.key # None
    /\ q.pc = "account" => q.kind \in {"material", "create", "join"} /\ (IF q.kind = "join" THEN q.account ELSE q.token) # None
    /\ q.kind \in {"exchange", "created", "material"} => q.key # None
    /\ q.pc = "code" => q.kind \in {"join", "redeem"}
    /\ q.kind \in {"join", "redeem"} => q.code # None
    /\ q.pc \in {"secret", "material"} => q.kind \in {"complete", "recover", "create", "join", "redeem"}
    /\ q.pc \in {"keep", "keepToo"} =>
          /\ Kept(q) # None
          /\ q.kind \in {"complete", "exchange", "created", "material"}
          /\ q.kind # "complete" => Kept(q) = q.publicKey /\ q.got = None
    /\ q.pc = "adopt" => q.kind = "complete" /\ q.key # None
    /\ q.pc \in {"clear", "issue"} => q.kind = "create"
    /\ q.pc = "spend" => q.kind \in {"join", "redeem"}
    /\ HasRow(q) => q.account # None /\ q.publicKey # None /\ q.publicKey \in q.keys
    /\ q.got # None => q.pc \in {"keep", "keepToo", "adopt", "clear", "issue", "spend", "answer"}
    /\ q.got # None /\ q.pc \in {"clear", "issue", "spend", "answer"} => q.got \in q.keys

\* What a call knows that no other call disturbed.
AloneOK(q) ==
    q.alone /\ HasRow(q) =>
        /\ q.pc \in {"link", "secret", "material", "keep", "keepToo"} => account[q.account].publicKey = q.publicKey
        /\ q.pc = "material" => account[q.account].secret = None
        /\ q.pc \in {"keepToo", "adopt"} => account[q.account].secret = Kept(q)
        /\ q.pc = "answer" /\ (q.kind \in {"complete", "created", "material"} \/ q.proof # None) => Ready(q.account)
        /\ q.pc = "issue" => Open(q.account) = {}
        /\ q.pc = "answer" /\ q.kind = "create" => \A x \in Open(q.account), y \in Open(q.account) : x = y

\* An identity is the account's, or on its way to be the first that links it.
LinkOK(q) ==
    HasRow(q) /\ q.signIn # None =>
        \/ q.account \in raced
        \/ account[q.account].supabaseUserId = IF q.pc = "link" THEN None ELSE q.signIn

Fine(q) == CallOK(q) /\ AloneOK(q) /\ LinkOK(q)

ToldOK ==
    \A u \in SignIns : told[u] # None =>
        told[u] \in Rows /\ (told[u] \in raced \/ account[told[u]].supabaseUserId = u)

KeysInv ==
    TablesOK /\ ColumnsAreUnique /\ ToldOK /\ \A c \in Callers : ask[c] # None => Fine(ask[c])

LEMMA KeysInitInv == KeysInit => KeysInv
  <1> SUFFICES ASSUME KeysInit PROVE KeysInv
    OBVIOUS
  <1> USE KeysAssumption
  <1>1. account \in [Accounts -> Rows0]
        /\ \A a, b \in Accounts : a # b /\ None \notin {account[a], account[b]} => account[a].publicKey # account[b].publicKey
    BY DEF KeysInit
  <1>2. \A a \in Accounts : account[a] # None =>
           account[a] \in [publicKey : Keys, supabaseUserId : {None}, secret : Keys \cup {None}]
    BY <1>1
  <1>3. \A a \in Accounts : account[a] # None => account[a] \in AccountRow /\ account[a].supabaseUserId = None
    BY <1>2 DEF AccountRow
  <1>4. account \in [Accounts -> AccountRow \cup {None}]
    BY <1>1, <1>3
  <1>5. material \in [Accounts -> Keys \cup {None}]
    BY <1>3 DEF KeysInit, AccountRow
  <1>6. TablesOK
    BY <1>4, <1>5 DEF KeysInit, TablesOK
  <1>7. ColumnsAreUnique
    BY <1>1, <1>3 DEF ColumnsAreUnique, Rows
  <1>8. ToldOK
    BY DEF KeysInit, ToldOK
  <1> QED BY <1>6, <1>7, <1>8 DEF KeysInit, KeysInv

-----------------------------------------------------------------------------
(* What others do leaves a call as it is, or leaves it not alone.           *)

\* What a call alone relies on, of account b.
Untouched(b) == account'[b] = account[b] /\ material'[b] = material[b] /\ Open(b)' \subseteq Open(b)

LEMMA OthersStay ==
  ASSUME NEW q, Fine(q), Rows \subseteq Rows', raced \subseteq raced', q.account # None => Untouched(q.account)
  PROVE  Fine(q)'
  <1>1. CallOK(q)'
    BY DEF Fine, CallOK, HasRow, Kept
  <1>2. AloneOK(q)'
    BY DEF Fine, CallOK, AloneOK, HasRow, Untouched, Ready, Kept
  <1>3. LinkOK(q)'
    BY DEF Fine, CallOK, LinkOK, HasRow, Untouched
  <1> QED BY <1>1, <1>2, <1>3 DEF Fine

\* A call goes on, is over or begins; the tables stay.
LEMMA QuietStep ==
  ASSUME KeysInv, NEW c \in Callers, NEW q, ask' = [ask EXCEPT ![c] = q], q # None => Fine(q),
         UNCHANGED <<account, material, joinCode, told, raced>>
  PROVE  KeysInv'
  <1>1. ASSUME NEW r, Fine(r) PROVE Fine(r)'
    BY <1>1 DEF Fine, CallOK, AloneOK, LinkOK, Rows, Ready, Open, HasRow, Kept
  <1>2. TablesOK' /\ ColumnsAreUnique' /\ ToldOK'
    BY DEF KeysInv, TablesOK, ColumnsAreUnique, ToldOK, Rows
  <1>3. ASSUME NEW d \in Callers PROVE (ask[d] # None => Fine(ask[d]))'
    <2>1. PICK r : r = ask'[d]
      OBVIOUS
    <2>2. r # None => Fine(r)
      BY <2>1 DEF KeysInv, TablesOK
    <2> QED BY <1>1, <2>1, <2>2 DEF Fine, CallOK, AloneOK, LinkOK, HasRow, Kept
  <1> QED BY <1>2, <1>3 DEF KeysInv

\* A row of account a is written, and the other calls about a take note.
LEMMA NotedStep ==
  ASSUME KeysInv, NEW c \in Callers, NEW a \in Rows, NEW q, Noted(c, a, q), Fine(q)',
         TablesOK', ColumnsAreUnique', ToldOK', Rows' = Rows, raced \subseteq raced',
         account'[a].publicKey \in Keys,
         \A b \in Rows \ {a} : Untouched(b),
         \/ account'[a].supabaseUserId = account[a].supabaseUserId
         \/ a \in raced'
         \/ /\ account[a].supabaseUserId = None
            /\ \A d \in Callers \ {c} : ask[d] # None /\ ask[d].account = a => ask[d].pc # "link"
  PROVE  KeysInv'
  <1> USE KeysAssumption
  <1>1. ASSUME NEW d \in Callers PROVE (ask[d] # None => Fine(ask[d]))'
    <2>1. PICK r : r = ask[d]
      OBVIOUS
    <2>2. r # None => Fine(r)
      BY <2>1 DEF KeysInv
    <2>3. PICK s : s = ask'[d]
      OBVIOUS
    <2>4. s # None => Fine(s)'
      <3>1. CASE d = c
        <4>1. s = q
          BY <2>3, <3>1 DEF Noted
        <4> QED BY <4>1
      <3>2. CASE d # c /\ (r = None \/ r.account # a)
        <4>1. s = r
          BY <2>1, <2>3, <3>2 DEF Noted
        <4>2. r # None /\ r.account # None => r.account \in Rows \ {a}
          BY <2>2, <3>2 DEF Fine, CallOK
        <4> QED BY <2>2, <4>1, <4>2, OthersStay
      <3>3. CASE d # c /\ r # None /\ r.account = a
        <4>1. PICK k \in Keys : k = account'[a].publicKey
          OBVIOUS
        <4>2. s = [r EXCEPT !.alone = FALSE, !.keys = @ \cup {k}]
          BY <2>1, <2>3, <3>3, <4>1 DEF Noted
        <4>3. r \in Call
          BY <2>2, <3>3 DEF Fine, CallOK
        <4>4. /\ s \in Call /\ ~s.alone /\ s.keys = r.keys \cup {k} /\ s.kind = r.kind /\ s.pc = r.pc /\ s.signIn = r.signIn
              /\ s.key = r.key /\ s.proof = r.proof /\ s.token = r.token /\ s.code = r.code /\ s.account = a
              /\ s.publicKey = r.publicKey /\ s.got = r.got
          BY <3>3, <4>2, <4>3 DEF Call
        <4>5. CallOK(s)'
          BY <2>2, <3>3, <4>4 DEF Fine, CallOK, HasRow, Kept
        <4>6. AloneOK(s)'
          BY <4>4 DEF AloneOK
        <4>7. LinkOK(s)'
          BY <2>1, <2>2, <3>3, <4>4 DEF Fine, LinkOK, HasRow
        <4> QED BY <4>5, <4>6, <4>7 DEF Fine
      <3> QED BY <3>1, <3>2, <3>3
    <2> QED BY <2>3, <2>4 DEF Fine, CallOK, AloneOK, LinkOK, HasRow, Kept
  <1> QED BY <1>1 DEF KeysInv

\* A new account.
LEMMA NewAccount ==
  ASSUME KeysInv, NEW a \in Accounts \ Rows, NEW r \in AccountRow, account' = [account EXCEPT ![a] = r],
         UNCHANGED <<material, joinCode, told, raced>>,
         \A b \in Rows : account[b].publicKey # r.publicKey
                         /\ (r.supabaseUserId # None => account[b].supabaseUserId # r.supabaseUserId)
  PROVE  /\ account' \in [Accounts -> AccountRow \cup {None}] /\ Rows' = Rows \cup {a} /\ account'[a] = r
         /\ ColumnsAreUnique' /\ ToldOK' /\ (\A x \in JoinCodes : joinCode'[x] # None => joinCode'[x].account \in Rows')
         /\ \A q : Fine(q) => Fine(q)'
  <1> USE KeysAssumption
  <1>1. /\ account' \in [Accounts -> AccountRow \cup {None}] /\ account'[a] = r /\ r # None
        /\ \A b \in Accounts : b # a => account'[b] = account[b]
    BY DEF KeysInv, TablesOK
  <1>2. Rows' = Rows \cup {a} /\ Rows \subseteq Accounts /\ a \notin Rows
    BY <1>1 DEF Rows
  <1>3. \A b \in Rows : Untouched(b)
    BY <1>1, <1>2 DEF Untouched, Open
  <1>4. ASSUME NEW q, Fine(q) PROVE Fine(q)'
    <2>1. q.account # None => q.account \in Rows
      BY <1>4 DEF Fine, CallOK
    <2> QED BY <1>2, <1>3, <1>4, <2>1, OthersStay
  <1>5. ColumnsAreUnique'
    BY <1>1, <1>2 DEF KeysInv, ColumnsAreUnique
  <1>6. ToldOK'
    BY <1>1, <1>2 DEF KeysInv, ToldOK
  <1> QED BY <1>1, <1>2, <1>4, <1>5, <1>6 DEF KeysInv, TablesOK

-----------------------------------------------------------------------------
(* The actions.                                                             *)

LEMMA RowOf == ASSUME KeysInv, NEW a \in Rows PROVE a \in Accounts /\ a # None /\ account[a] # None /\ account[a] \in AccountRow
                                                   /\ account[a].publicKey \in Keys /\ account[a].publicKey # None
  BY KeysAssumption DEF KeysInv, TablesOK, Rows, AccountRow

LEMMA CallOf == ASSUME KeysInv, NEW c \in Callers, ask[c] # None PROVE Fine(ask[c]) /\ CallOK(ask[c]) /\ ask[c] \in Call
  BY DEF KeysInv, Fine, CallOK

LEMMA HoldingFields ==
  ASSUME NEW q \in Call, NEW a \in Accounts, NEW r \in AccountRow, NEW pc \in {"link", "secret", "proof", "keep"},
         NEW h, h = Holding(q, a, r, pc)
  PROVE  /\ h \in Call /\ h.pc = pc /\ h.account = a /\ h.publicKey = r.publicKey /\ h.keys = {r.publicKey} /\ h.alone
         /\ h.kind = q.kind /\ h.signIn = q.signIn /\ h.key = q.key /\ h.proof = q.proof /\ h.token = q.token
         /\ h.code = q.code /\ h.got = q.got
  BY DEF Holding, Call, AccountRow

LEMMA PcFields ==
  ASSUME NEW q \in Call, NEW pc \in {"legacy", "newKey", "insert", "material", "answer", "keep", "keepToo", "adopt", "clear",
                                     "issue", "spend"},
         NEW h, h = [q EXCEPT !.pc = pc]
  PROVE  /\ h \in Call /\ h.pc = pc /\ h.account = q.account /\ h.publicKey = q.publicKey /\ h.keys = q.keys /\ h.alone = q.alone
         /\ h.kind = q.kind /\ h.signIn = q.signIn /\ h.key = q.key /\ h.proof = q.proof /\ h.token = q.token
         /\ h.code = q.code /\ h.got = q.got
  BY DEF Call

LEMMA StartsPreserves ==
  ASSUME KeysInv, NEW c \in Callers, NEW kind, NEW pc, NEW u \in SignIns \cup {None}, NEW k \in Keys \cup {None},
         NEW proof \in Keys \cup {None}, NEW a \in Rows \cup {None}, NEW code \in JoinCodes \cup {None},
         \/ kind = "complete" /\ pc = "signIn" /\ u # None /\ proof = None
         \/ kind = "exchange" /\ pc = "signIn" /\ u # None /\ a = None /\ k # None
         \/ kind = "recover" /\ pc = "signIn" /\ u # None /\ a = None /\ proof = None
         \/ kind = "material" /\ pc = "account" /\ u = None /\ a # None /\ proof = None /\ k # None
         \/ kind = "create" /\ pc = "account" /\ u = None /\ a # None /\ proof = None
         \/ kind \in {"join", "redeem"} /\ pc = "code" /\ u = None /\ a = None /\ proof = None /\ code # None,
         Starts(c, kind, pc, u, k, proof, a, code)
  PROVE  KeysInv'
  <1> USE KeysAssumption
  <1>1. PICK q : q = [kind |-> kind, pc |-> pc, signIn |-> u, key |-> k, proof |-> proof, token |-> a,
                      code |-> code, account |-> None, publicKey |-> None, got |-> None, alone |-> TRUE, keys |-> {}]
    OBVIOUS
  <1>2. a # None => a \in Accounts
    BY DEF Rows
  <1>3. q \in Call
    BY <1>1, <1>2 DEF Call
  <1>4. /\ q.kind = kind /\ q.pc = pc /\ q.signIn = u /\ q.key = k /\ q.proof = proof /\ q.token = a /\ q.code = code
        /\ q.account = None /\ q.got = None
    BY <1>1
  <1>5. CallOK(q)
    BY <1>3, <1>4 DEF CallOK, HasRow
  <1>6. Fine(q)
    BY <1>4, <1>5 DEF Fine, AloneOK, LinkOK, HasRow
  <1> QED BY <1>1, <1>6, QuietStep DEF Starts, Proceeds

LEMMA AskPreserves == ASSUME KeysInv, NEW c \in Callers, Ask(c) PROVE KeysInv'
  <1> USE KeysAssumption
  <1>1. ASSUME NEW u \in SignIns, NEW k \in Keys \cup {None}, NEW a \in Rows \cup {None}, SupabaseComplete(c, u, k, a)
        PROVE  KeysInv'
    <2>1. Starts(c, "complete", "signIn", u, k, None, a, None) /\ u # None
      BY <1>1 DEF SupabaseComplete
    <2> QED BY <2>1, StartsPreserves
  <1>2. ASSUME NEW u \in SignIns, NEW k \in Keys, NEW proof \in Keys \cup {None}, SupabaseExchange(c, u, k, proof)
        PROVE  KeysInv'
    <2>1. Starts(c, "exchange", "signIn", u, k, proof, None, None) /\ u # None /\ k # None
      BY <1>2 DEF SupabaseExchange
    <2> QED BY <2>1, StartsPreserves
  <1>3. ASSUME NEW u \in SignIns, SupabaseRecover(c, u) PROVE KeysInv'
    <2>1. Starts(c, "recover", "signIn", u, None, None, None, None) /\ u # None
      BY <1>3 DEF SupabaseRecover
    <2> QED BY <2>1, StartsPreserves
  <1>4. ASSUME NEW a \in Rows, JoincodeCreate(c, a) PROVE KeysInv'
    <2>1. Starts(c, "create", "account", None, None, None, a, None) /\ a # None
      BY <1>4, RowOf DEF JoincodeCreate
    <2> QED BY <2>1, StartsPreserves
  <1>5. ASSUME NEW a \in Rows, NEW k \in Keys, RecoveryMaterial(c, a, k) PROVE KeysInv'
    <2>1. Starts(c, "material", "account", None, k, None, a, None) /\ a # None /\ k # None
      BY <1>5, RowOf DEF RecoveryMaterial
    <2> QED BY <2>1, StartsPreserves
  <1>6. ASSUME NEW x \in JoinCodes, AccountJoin(c, x) PROVE KeysInv'
    <2>1. Starts(c, "join", "code", None, None, None, None, x) /\ x # None
      BY <1>6 DEF AccountJoin
    <2> QED BY <2>1, StartsPreserves
  <1>7. ASSUME NEW x \in JoinCodes, JoincodeRedeem(c, x) PROVE KeysInv'
    <2>1. Starts(c, "redeem", "code", None, None, None, None, x) /\ x # None
      BY <1>7 DEF JoincodeRedeem
    <2> QED BY <2>1, StartsPreserves
  <1> QED BY <1>1, <1>2, <1>3, <1>4, <1>5, <1>6, <1>7 DEF Ask

LEMMA WithoutFine ==
  ASSUME KeysInv, NEW q, CallOK(q), q.pc \in {"signIn", "legacy"}, NEW h, h = WithoutAccount(q), h # None
  PROVE  Fine(h)
  <1>1. q \in Call /\ q.kind # "recover" /\ q.key # None /\ h = [q EXCEPT !.pc = "newKey"]
    BY DEF CallOK, WithoutAccount
  <1>2. /\ h \in Call /\ h.pc = "newKey" /\ h.account = q.account /\ h.kind = q.kind /\ h.signIn = q.signIn /\ h.key = q.key
        /\ h.proof = q.proof /\ h.token = q.token /\ h.code = q.code /\ h.got = q.got
    BY <1>1, PcFields
  <1>3. CallOK(h)
    BY <1>1, <1>2 DEF CallOK, HasRow
  <1> QED BY <1>2, <1>3 DEF Fine, AloneOK, LinkOK, HasRow

\* A call whose account proves to be its own.
LEMMA PersistingFine ==
  ASSUME KeysInv, NEW q \in Call, q.pc = "proof", q.kind = "exchange", q.signIn # None, q.key # None, q.token = None,
         q.got = None, q.account \in Rows, q.publicKey = account[q.account].publicKey, q.keys = {q.publicKey},
         account[q.account].supabaseUserId = q.signIn,
         NEW h, h = Persisting(q), h # None
  PROVE  Fine(h)
  <1> USE KeysAssumption
  <1>1. q.publicKey \in Keys /\ q.publicKey # None /\ q.account # None
    BY RowOf
  <1>2. CASE q.proof = None
    <2>1. h = [q EXCEPT !.pc = "answer"]
      BY <1>2 DEF Persisting
    <2>2. /\ h \in Call /\ h.pc = "answer" /\ h.account = q.account /\ h.kind = q.kind /\ h.signIn = q.signIn /\ h.key = q.key
          /\ h.proof = q.proof /\ h.token = q.token /\ h.code = q.code /\ h.got = q.got
          /\ h.publicKey = q.publicKey /\ h.keys = q.keys
      BY <2>1, PcFields
    <2>3. CallOK(h)
      BY <1>1, <1>2, <2>2 DEF CallOK, HasRow
    <2> QED BY <1>2, <2>2, <2>3 DEF Fine, AloneOK, LinkOK, HasRow
  <1>3. CASE q.proof # None
    <2>1. h = [q EXCEPT !.pc = "keep"] /\ q.proof = q.publicKey
      BY <1>3 DEF Persisting
    <2>2. /\ h \in Call /\ h.pc = "keep" /\ h.account = q.account /\ h.kind = q.kind /\ h.signIn = q.signIn /\ h.key = q.key
          /\ h.proof = q.proof /\ h.token = q.token /\ h.code = q.code /\ h.got = q.got
          /\ h.publicKey = q.publicKey /\ h.keys = q.keys
      BY <2>1, PcFields
    <2>3. CallOK(h)
      BY <1>1, <1>3, <2>1, <2>2 DEF CallOK, HasRow, Kept
    <2> QED BY <2>2, <2>3 DEF Fine, AloneOK, LinkOK, HasRow
  <1> QED BY <1>2, <1>3

\* A call that goes on to read the secret of its account.
LEMMA SecretFine ==
  ASSUME KeysInv, NEW q, CallOK(q), q.got = None, q.kind \in {"complete", "recover", "create", "join", "redeem"},
         NEW a \in Rows, q.signIn # None => a \in raced \/ account[a].supabaseUserId = q.signIn,
         NEW h, h = Holding(q, a, account[a], "secret")
  PROVE  Fine(h)
  <1> USE KeysAssumption
  <1>1. /\ h \in Call /\ h.pc = "secret" /\ h.account = a /\ h.publicKey = account[a].publicKey /\ h.keys = {account[a].publicKey}
        /\ h.kind = q.kind /\ h.signIn = q.signIn /\ h.key = q.key /\ h.proof = q.proof /\ h.token = q.token
        /\ h.code = q.code /\ h.got = q.got /\ account[a].publicKey # None /\ a # None
    BY RowOf, HoldingFields DEF CallOK
  <1>2. CallOK(h)
    BY <1>1 DEF CallOK, HasRow
  <1>3. AloneOK(h)
    BY <1>1 DEF AloneOK
  <1>4. LinkOK(h)
    BY <1>1 DEF LinkOK
  <1> QED BY <1>2, <1>3, <1>4 DEF Fine

LEMMA FindSignInPreserves == ASSUME KeysInv, NEW c \in Callers, FindSignIn(c) PROVE KeysInv'
  <1> USE KeysAssumption
  <1>1. PICK q : q = ask[c]
    OBVIOUS
  <1>2. q # None /\ q.pc = "signIn" /\ CallOK(q) /\ q \in Call /\ q.got = None /\ q.signIn # None
    BY <1>1, CallOf DEF FindSignIn, AtStep, CallOK
  <1>q. ASSUME NEW h, Proceeds(c, h), h # None => Fine(h) PROVE KeysInv'
    BY <1>q, QuietStep DEF FindSignIn, Proceeds
  <1>3. ASSUME NEW a \in OfSignIn(q.signIn), q.kind # "exchange", Proceeds(c, Holding(q, a, account[a], "secret")) PROVE KeysInv'
    <2>1. a \in Rows /\ account[a].supabaseUserId = q.signIn
      BY DEF OfSignIn
    <2>2. q.kind \in {"complete", "recover"}
      BY <1>2, <1>3 DEF CallOK
    <2>3. PICK h : h = Holding(q, a, account[a], "secret")
      OBVIOUS
    <2>4. Fine(h)
      BY <1>2, <2>1, <2>2, <2>3, SecretFine
    <2> QED BY <1>3, <2>3, <2>4, <1>q
  <1>4. ASSUME NEW a \in OfSignIn(q.signIn), q.kind = "exchange",
               Proceeds(c, IF account[a].publicKey # q.key THEN None ELSE Persisting(Holding(q, a, account[a], "proof")))
        PROVE  KeysInv'
    <2>1. a \in Rows /\ account[a].supabaseUserId = q.signIn
      BY DEF OfSignIn
    <2>2. PICK p : p = Holding(q, a, account[a], "proof")
      OBVIOUS
    <2>3. PICK h : h = Persisting(p)
      OBVIOUS
    <2>4. /\ p \in Call /\ p.pc = "proof" /\ p.account = a /\ p.publicKey = account[a].publicKey /\ p.keys = {account[a].publicKey}
          /\ p.kind = q.kind /\ p.signIn = q.signIn /\ p.key = q.key /\ p.token = q.token /\ p.got = q.got
      BY <1>2, <2>1, <2>2, RowOf, HoldingFields
    <2>5. q.key # None /\ q.token = None
      BY <1>2, <1>4 DEF CallOK
    <2>6. h # None => Fine(h)
      BY <1>2, <1>4, <2>1, <2>3, <2>4, <2>5, PersistingFine
    <2>7. Proceeds(c, None) \/ Proceeds(c, h)
      BY <1>4, <2>2, <2>3
    <2> QED BY <2>6, <2>7, <1>q
  <1>5. ASSUME q.token # None, To(c, "legacy") PROVE KeysInv'
    <2>1. PICK h : h = [q EXCEPT !.pc = "legacy"]
      OBVIOUS
    <2>2. /\ h \in Call /\ h.pc = "legacy" /\ h.account = q.account /\ h.kind = q.kind /\ h.signIn = q.signIn /\ h.key = q.key
          /\ h.proof = q.proof /\ h.token = q.token /\ h.code = q.code /\ h.got = q.got
      BY <1>2, <2>1, PcFields
    <2>3. q.kind = "complete"
      BY <1>2, <1>5 DEF CallOK
    <2>4. CallOK(h)
      BY <1>2, <1>5, <2>2, <2>3 DEF CallOK, HasRow
    <2>5. Fine(h)
      BY <2>2, <2>4 DEF Fine, AloneOK, LinkOK, HasRow
    <2> QED BY <1>1, <1>5, <2>1, <2>5, <1>q DEF To
  <1>6. ASSUME Proceeds(c, WithoutAccount(q)) PROVE KeysInv'
    <2>1. PICK h : h = WithoutAccount(q)
      OBVIOUS
    <2> QED BY <1>2, <1>6, <2>1, WithoutFine, <1>q
  <1> QED BY <1>1, <1>3, <1>4, <1>5, <1>6 DEF FindSignIn

LEMMA LegacyPreserves == ASSUME KeysInv, NEW c \in Callers, LookAtLegacy(c) PROVE KeysInv'
  <1> USE KeysAssumption
  <1>1. PICK q : q = ask[c]
    OBVIOUS
  <1>2. q # None /\ q.pc = "legacy" /\ CallOK(q) /\ q \in Call /\ q.got = None /\ q.signIn # None /\ q.kind = "complete"
        /\ q.token \in Rows
    BY <1>1, CallOf DEF LookAtLegacy, AtStep, CallOK
  <1>q. ASSUME NEW h, Proceeds(c, h), h # None => Fine(h) PROVE KeysInv'
    BY <1>q, QuietStep DEF LookAtLegacy, Proceeds
  <1>3. CASE Linkable(q.signIn, q.token)
    <2>1. PICK h : h = Holding(q, q.token, account[q.token], "link")
      OBVIOUS
    <2>2. /\ h \in Call /\ h.pc = "link" /\ h.account = q.token /\ h.publicKey = account[q.token].publicKey
          /\ h.keys = {account[q.token].publicKey}
          /\ h.kind = q.kind /\ h.signIn = q.signIn /\ h.key = q.key /\ h.proof = q.proof /\ h.token = q.token
          /\ h.code = q.code /\ h.got = q.got /\ account[q.token].publicKey # None /\ q.token # None
      BY <1>2, <2>1, RowOf, HoldingFields
    <2>3. CallOK(h)
      BY <1>2, <2>2 DEF CallOK, HasRow
    <2>4. AloneOK(h) /\ LinkOK(h)
      BY <1>3, <2>2 DEF AloneOK, LinkOK, Linkable
    <2>5. Proceeds(c, h)
      BY <1>1, <1>3, <2>1 DEF LookAtLegacy
    <2> QED BY <2>3, <2>4, <2>5, <1>q DEF Fine
  <1>4. CASE ~Linkable(q.signIn, q.token)
    <2>1. PICK h : h = WithoutAccount(q)
      OBVIOUS
    <2>2. Proceeds(c, None) \/ Proceeds(c, h)
      BY <1>1, <1>4, <2>1 DEF LookAtLegacy
    <2> QED BY <1>2, <2>1, <2>2, WithoutFine, <1>q
  <1> QED BY <1>3, <1>4

LEMMA FindKeyPreserves == ASSUME KeysInv, NEW c \in Callers, FindKey(c) PROVE KeysInv'
  <1>1. PICK q : q = ask[c]
    OBVIOUS
  <1>2. q # None /\ q.pc = "newKey" /\ CallOK(q) /\ q \in Call
    BY <1>1, CallOf DEF FindKey, AtStep
  <1>3. PICK h : h = [q EXCEPT !.pc = "insert"]
    OBVIOUS
  <1>4. /\ h \in Call /\ h.pc = "insert" /\ h.account = q.account /\ h.kind = q.kind /\ h.signIn = q.signIn /\ h.key = q.key
        /\ h.proof = q.proof /\ h.token = q.token /\ h.code = q.code /\ h.got = q.got
    BY <1>2, <1>3, PcFields
  <1>5. CallOK(h)
    BY <1>2, <1>4 DEF CallOK, HasRow
  <1>6. Fine(h)
    BY <1>4, <1>5 DEF Fine, AloneOK, LinkOK, HasRow
  <1>7. Proceeds(c, None) \/ Proceeds(c, h)
    BY <1>1, <1>3 DEF FindKey, Refused, To
  <1> QED BY <1>6, <1>7, QuietStep DEF FindKey, Proceeds

LEMMA FindAccountPreserves == ASSUME KeysInv, NEW c \in Callers, FindAccount(c) PROVE KeysInv'
  <1> USE KeysAssumption
  <1>1. PICK q : q = ask[c]
    OBVIOUS
  <1>2. q # None /\ q.pc = "account" /\ CallOK(q) /\ q \in Call /\ q.got = None /\ q.signIn = None
        /\ q.kind \in {"material", "create", "join"}
    BY <1>1, CallOf DEF FindAccount, AtStep, CallOK
  <1>q. ASSUME NEW h, Proceeds(c, h), h # None => Fine(h) PROVE KeysInv'
    BY <1>q, QuietStep DEF FindAccount, Proceeds
  <1>3. PICK a \in Rows : a = IF q.kind = "join" THEN q.account ELSE q.token
    BY <1>2 DEF CallOK
  <1>4. CASE q.kind # "material"
    <2>1. PICK h : h = Holding(q, a, account[a], "secret")
      OBVIOUS
    <2>2. Proceeds(c, h)
      BY <1>1, <1>3, <1>4, <2>1 DEF FindAccount
    <2> QED BY <1>2, <1>4, <2>1, <2>2, SecretFine, <1>q
  <1>5. CASE q.kind = "material"
    <2>1. PICK h : h = Holding(q, a, account[a], "keep")
      OBVIOUS
    <2>2. /\ h \in Call /\ h.pc = "keep" /\ h.account = a /\ h.publicKey = account[a].publicKey /\ h.keys = {account[a].publicKey}
          /\ h.kind = q.kind /\ h.signIn = q.signIn /\ h.key = q.key /\ h.proof = q.proof /\ h.token = q.token
          /\ h.code = q.code /\ h.got = q.got /\ account[a].publicKey # None /\ a # None
      BY <1>2, <2>1, RowOf, HoldingFields
    <2>3. q.key = account[a].publicKey => CallOK(h)
      BY <1>2, <1>5, <2>2 DEF CallOK, HasRow, Kept
    <2>4. AloneOK(h) /\ LinkOK(h)
      BY <1>2, <2>2 DEF AloneOK, LinkOK
    <2>5. Proceeds(c, None) \/ (Proceeds(c, h) /\ q.key = account[a].publicKey)
      BY <1>1, <1>3, <1>5, <2>1 DEF FindAccount
    <2> QED BY <2>3, <2>4, <2>5, <1>q DEF Fine
  <1> QED BY <1>4, <1>5

LEMMA FindCodePreserves == ASSUME KeysInv, NEW c \in Callers, FindCode(c) PROVE KeysInv'
  <1> USE KeysAssumption
  <1>1. PICK q : q = ask[c]
    OBVIOUS
  <1>2. q # None /\ q.pc = "code" /\ CallOK(q) /\ q \in Call /\ q.got = None /\ q.signIn = None
        /\ q.kind \in {"join", "redeem"} /\ q.code \in JoinCodes
    BY <1>1, CallOf DEF FindCode, AtStep, CallOK, Call
  <1>q. ASSUME NEW h, Proceeds(c, h), h # None => Fine(h) PROVE KeysInv'
    BY <1>q, QuietStep DEF FindCode, Proceeds
  <1>3. CASE joinCode[q.code] = None
    BY <1>1, <1>3, <1>q DEF FindCode
  <1>4. CASE joinCode[q.code] # None
    <2>1. PICK a \in Rows : a = joinCode[q.code].account
      BY <1>2, <1>4 DEF KeysInv, TablesOK
    <2>2. CASE q.kind = "join"
      <3>1. PICK h : h = [q EXCEPT !.account = a, !.pc = "account"]
        OBVIOUS
      <3>2. /\ h \in Call /\ h.pc = "account" /\ h.account = a /\ h.kind = q.kind /\ h.signIn = q.signIn /\ h.key = q.key
            /\ h.proof = q.proof /\ h.token = q.token /\ h.code = q.code /\ h.got = q.got /\ a # None
        BY <1>2, <3>1, RowOf DEF Call
      <3>3. CallOK(h)
        BY <1>2, <2>2, <3>2 DEF CallOK, HasRow
      <3>4. Fine(h)
        BY <3>2, <3>3 DEF Fine, AloneOK, LinkOK, HasRow
      <3>5. Proceeds(c, None) \/ Proceeds(c, h)
        BY <1>1, <1>4, <2>1, <2>2, <3>1 DEF FindCode
      <3> QED BY <3>4, <3>5, <1>q
    <2>3. CASE q.kind # "join"
      <3>1. PICK h : h = Holding(q, a, account[a], "secret")
        OBVIOUS
      <3>2. Proceeds(c, None) \/ Proceeds(c, h)
        BY <1>1, <1>4, <2>1, <2>3, <3>1 DEF FindCode
      <3> QED BY <1>2, <3>1, <3>2, SecretFine, <1>q
    <2> QED BY <2>2, <2>3
  <1> QED BY <1>3, <1>4

LEMMA BreaksPreserves == ASSUME KeysInv, NEW c \in Callers, Breaks(c) PROVE KeysInv'
  BY QuietStep DEF Breaks, Refused, Proceeds

\* What a call does with the secret it read.
GotFrom(g, q, s) ==
    /\ g \in Call /\ g.pc = q.pc /\ g.account = q.account /\ g.kind = q.kind /\ g.signIn = q.signIn /\ g.key = q.key
    /\ g.proof = q.proof /\ g.token = q.token /\ g.code = q.code /\ g.got = s
    /\ g.publicKey = q.publicKey /\ g.keys = q.keys /\ g.alone = q.alone

LEMMA GotFields ==
  ASSUME NEW q \in Call, NEW s \in Keys \cup {None}, NEW g, g = [q EXCEPT !.got = s]
  PROVE  GotFrom(g, q, s)
  BY DEF Call, GotFrom

LEMMA WithSecretFine ==
  ASSUME KeysInv, NEW q, Fine(q), q.pc \in {"secret", "material"}, NEW s \in Keys \cup {None}, NEW g, GotFrom(g, q, s),
         q.pc = "secret" => s # None /\ s = account[q.account].secret,
         q.pc = "material" => s = material[q.account],
         NEW h, h = WithSecret(g), h # None
  PROVE  Fine(h)
  <1> USE KeysAssumption
  <1>1. /\ CallOK(q) /\ q \in Call /\ q.account # None /\ q.publicKey # None /\ q.publicKey \in q.keys
        /\ q.kind \in {"complete", "recover", "create", "join", "redeem"}
    BY DEF Fine, CallOK, HasRow
  <1>2. /\ g \in Call /\ g.pc = q.pc /\ g.account = q.account /\ g.kind = q.kind /\ g.signIn = q.signIn /\ g.key = q.key
        /\ g.proof = q.proof /\ g.token = q.token /\ g.code = q.code /\ g.got = s
        /\ g.publicKey = q.publicKey /\ g.keys = q.keys /\ g.alone = q.alone
    BY <1>1 DEF GotFrom
  <1>3. q.signIn # None => q.account \in raced \/ account[q.account].supabaseUserId = q.signIn
    BY DEF Fine, LinkOK, HasRow
  <1>4. CASE ~Fits(g)
    <2>1. g.kind = "complete" /\ g.key # None /\ h = [g EXCEPT !.pc = "keep"]
      BY <1>4 DEF WithSecret
    <2>g. /\ h \in Call /\ h.pc = "keep" /\ h.account = g.account /\ h.kind = g.kind /\ h.signIn = g.signIn /\ h.key = g.key
          /\ h.proof = g.proof /\ h.token = g.token /\ h.code = g.code /\ h.got = g.got
          /\ h.publicKey = g.publicKey /\ h.keys = g.keys /\ h.alone = g.alone
      BY <1>2, <2>1, PcFields
    <2>2. /\ h \in Call /\ h.pc = "keep" /\ h.account = q.account /\ h.kind = q.kind /\ h.signIn = q.signIn /\ h.key = q.key
          /\ h.proof = q.proof /\ h.token = q.token /\ h.code = q.code /\ h.got = s
          /\ h.publicKey = q.publicKey /\ h.keys = q.keys /\ h.alone = q.alone
      BY <1>2, <2>g
    <2>3. CallOK(h)
      BY <1>1, <1>2, <2>1, <2>2 DEF CallOK, HasRow, Kept
    <2>4. AloneOK(h)
      BY <2>2 DEF Fine, AloneOK, HasRow
    <2>5. LinkOK(h)
      BY <1>3, <2>2 DEF LinkOK
    <2> QED BY <2>3, <2>4, <2>5 DEF Fine
  <1>5. CASE Fits(g)
    <2>0. s = q.publicKey
      BY <1>2, <1>5 DEF Fits
    <2>1. PICK pc \in {"spend", "clear", "answer"} :
             /\ h = [g EXCEPT !.pc = pc]
             /\ pc = "spend" <=> g.kind \in {"join", "redeem"}
             /\ pc = "clear" <=> g.kind = "create"
      BY <1>5 DEF WithSecret
    <2>g. /\ h \in Call /\ h.pc = pc /\ h.account = g.account /\ h.kind = g.kind /\ h.signIn = g.signIn /\ h.key = g.key
          /\ h.proof = g.proof /\ h.token = g.token /\ h.code = g.code /\ h.got = g.got
          /\ h.publicKey = g.publicKey /\ h.keys = g.keys /\ h.alone = g.alone
      BY <1>2, <2>1, PcFields
    <2>2. /\ h \in Call /\ h.pc = pc /\ h.account = q.account /\ h.kind = q.kind /\ h.signIn = q.signIn /\ h.key = q.key
          /\ h.proof = q.proof /\ h.token = q.token /\ h.code = q.code /\ h.got = s
          /\ h.publicKey = q.publicKey /\ h.keys = q.keys /\ h.alone = q.alone
      BY <1>2, <2>g
    <2>3. CallOK(h)
      BY <1>1, <1>2, <2>0, <2>1, <2>2 DEF CallOK, HasRow
    <2>4. q.alone => Ready(q.account)
      BY <1>1, <2>0 DEF Fine, AloneOK, HasRow, Ready
    <2>5. AloneOK(h)
      BY <1>1, <1>2, <2>1, <2>2, <2>4 DEF AloneOK
    <2>6. LinkOK(h)
      BY <1>3, <2>1, <2>2 DEF LinkOK
    <2> QED BY <2>3, <2>5, <2>6 DEF Fine
  <1> QED BY <1>4, <1>5

LEMMA ReadSecretPreserves == ASSUME KeysInv, NEW c \in Callers, ReadSecret(c) PROVE KeysInv'
  <1> USE KeysAssumption
  <1>1. PICK q : q = ask[c]
    OBVIOUS
  <1>2. q # None /\ q.pc = "secret" /\ Fine(q) /\ CallOK(q) /\ q \in Call /\ q.account \in Rows
    BY <1>1, CallOf DEF ReadSecret, AtStep, CallOK, HasRow
  <1>q. ASSUME NEW h, Proceeds(c, h), h # None => Fine(h) PROVE KeysInv'
    BY <1>q, QuietStep DEF ReadSecret, Proceeds
  <1>3. PICK s \in Keys \cup {None} : s = account[q.account].secret
    BY <1>2, RowOf DEF AccountRow
  <1>4. CASE s = None
    <2>1. PICK h : h = [q EXCEPT !.pc = "material"]
      OBVIOUS
    <2>2. /\ h \in Call /\ h.pc = "material" /\ h.account = q.account /\ h.kind = q.kind /\ h.signIn = q.signIn /\ h.key = q.key
          /\ h.proof = q.proof /\ h.token = q.token /\ h.code = q.code /\ h.got = q.got
          /\ h.publicKey = q.publicKey /\ h.keys = q.keys /\ h.alone = q.alone
      BY <1>2, <2>1, PcFields
    <2>3. CallOK(h)
      BY <1>2, <2>2 DEF CallOK, HasRow
    <2>4. AloneOK(h)
      BY <1>2, <1>3, <1>4, <2>2 DEF Fine, AloneOK, HasRow
    <2>5. LinkOK(h)
      BY <1>2, <2>2 DEF Fine, LinkOK, HasRow
    <2>6. Proceeds(c, h)
      BY <1>1, <1>3, <1>4, <2>1 DEF ReadSecret, To
    <2> QED BY <2>3, <2>4, <2>5, <2>6, <1>q DEF Fine
  <1>5. CASE s # None
    <2>1. PICK g : g = [q EXCEPT !.got = s]
      OBVIOUS
    <2>2. PICK h : h = WithSecret(g)
      OBVIOUS
    <2>3. Proceeds(c, h)
      BY <1>1, <1>3, <1>5, <2>1, <2>2 DEF ReadSecret
    <2>4. h # None => Fine(h)
      <3>1. GotFrom(g, q, s)
        BY <1>2, <2>1, GotFields
      <3> QED BY <1>2, <1>3, <1>5, <2>2, <3>1, WithSecretFine
    <2> QED BY <2>3, <2>4, <1>q
  <1> QED BY <1>4, <1>5

LEMMA ReadMaterialPreserves == ASSUME KeysInv, NEW c \in Callers, ReadMaterial(c) PROVE KeysInv'
  <1> USE KeysAssumption
  <1>1. PICK q : q = ask[c]
    OBVIOUS
  <1>2. q # None /\ q.pc = "material" /\ Fine(q) /\ CallOK(q) /\ q \in Call /\ q.account \in Rows
    BY <1>1, CallOf DEF ReadMaterial, AtStep, CallOK, HasRow
  <1>3. PICK s \in Keys \cup {None} : s = material[q.account]
    BY <1>2, RowOf DEF KeysInv, TablesOK
  <1>4. PICK g : g = [q EXCEPT !.got = s]
    OBVIOUS
  <1>5. PICK h : h = WithSecret(g)
    OBVIOUS
  <1>6. Proceeds(c, h)
    BY <1>1, <1>3, <1>4, <1>5 DEF ReadMaterial
  <1>7. h # None => Fine(h)
    <2>1. GotFrom(g, q, s)
      BY <1>2, <1>4, GotFields
    <2> QED BY <1>2, <1>3, <1>5, <2>1, WithSecretFine
  <1> QED BY <1>6, <1>7, QuietStep DEF ReadMaterial, Proceeds

\* A row of the table of accounts is written.
LEMMA RowWritten ==
  ASSUME KeysInv, NEW a \in Rows, NEW r \in AccountRow, account' = [account EXCEPT ![a] = r]
  PROVE  /\ account' \in [Accounts -> AccountRow \cup {None}] /\ Rows' = Rows /\ account'[a] = r
         /\ \A b \in Rows \ {a} : account'[b] = account[b]
  BY KeysAssumption DEF KeysInv, TablesOK, Rows

LEMMA KeepSecretPreserves == ASSUME KeysInv, NEW c \in Callers, KeepSecret(c) PROVE KeysInv'
  <1> USE KeysAssumption
  <1>1. PICK q : q = ask[c]
    OBVIOUS
  <1>2. q # None /\ q.pc = "keep" /\ Fine(q) /\ CallOK(q) /\ q \in Call
    BY <1>1, CallOf DEF KeepSecret, AtStep
  <1>3. PICK a \in Rows : a = q.account
    BY <1>2 DEF CallOK, HasRow
  <1>4. PICK k \in Keys : k = Kept(q)
    BY <1>2 DEF CallOK, Kept, Call
  <1>5. PICK x \in AccountRow : x = account[a]
    BY RowOf
  <1>6. PICK r : r = [x EXCEPT !.secret = k]
    OBVIOUS
  <1>7. r \in AccountRow /\ r.publicKey = x.publicKey /\ r.supabaseUserId = x.supabaseUserId /\ r.secret = k /\ r.publicKey \in Keys
    BY <1>6 DEF AccountRow
  <1>8. account' = [account EXCEPT ![a] = r]
    BY <1>1, <1>3, <1>4, <1>5, <1>6 DEF KeepSecret
  <1>9. /\ account' \in [Accounts -> AccountRow \cup {None}] /\ Rows' = Rows /\ account'[a] = r
        /\ \A b \in Rows \ {a} : account'[b] = account[b]
    BY <1>7, <1>8, RowWritten
  <1>10. PICK h : h = [q EXCEPT !.pc = "keepToo"]
    OBVIOUS
  <1>11. /\ h \in Call /\ h.pc = "keepToo" /\ h.account = a /\ h.kind = q.kind /\ h.signIn = q.signIn /\ h.key = q.key
         /\ h.proof = q.proof /\ h.token = q.token /\ h.code = q.code /\ h.got = q.got
         /\ h.publicKey = q.publicKey /\ h.keys = q.keys /\ h.alone = q.alone
    BY <1>2, <1>3, <1>10, PcFields
  <1>12. Noted(c, a, h) /\ UNCHANGED <<material, joinCode, told, raced>>
    BY <1>1, <1>3, <1>10 DEF KeepSecret
  <1>13. CallOK(h)'
    BY <1>2, <1>3, <1>9, <1>11 DEF CallOK, HasRow, Kept
  <1>14. AloneOK(h)'
    BY <1>2, <1>3, <1>4, <1>5, <1>7, <1>9, <1>11 DEF Fine, AloneOK, HasRow, Kept
  <1>15. LinkOK(h)'
    BY <1>2, <1>3, <1>5, <1>7, <1>9, <1>11, <1>12 DEF Fine, LinkOK, HasRow
  <1>16. TablesOK'
    BY <1>9, <1>12 DEF KeysInv, TablesOK, Noted
  <1>17. ColumnsAreUnique' /\ ToldOK'
    BY <1>5, <1>7, <1>9, <1>12 DEF KeysInv, ColumnsAreUnique, ToldOK
  <1>18. \A b \in Rows \ {a} : Untouched(b)
    BY <1>9, <1>12 DEF Untouched, Open
  <1> QED BY <1>5, <1>7, <1>9, <1>12, <1>13, <1>14, <1>15, <1>16, <1>17, <1>18, NotedStep DEF Fine

LEMMA KeepMaterialPreserves == ASSUME KeysInv, NEW c \in Callers, KeepMaterial(c) PROVE KeysInv'
  <1> USE KeysAssumption
  <1>1. PICK q : q = ask[c]
    OBVIOUS
  <1>2. q # None /\ q.pc = "keepToo" /\ Fine(q) /\ CallOK(q) /\ q \in Call
    BY <1>1, CallOf DEF KeepMaterial, AtStep
  <1>3. PICK a \in Rows : a = q.account
    BY <1>2 DEF CallOK, HasRow
  <1>4. PICK k \in Keys : k = Kept(q)
    BY <1>2 DEF CallOK, Kept, Call
  <1>5. PICK pc \in {"adopt", "answer"} : pc = "adopt" <=> q.kind = "complete"
    OBVIOUS
  <1>6. PICK h : h = [q EXCEPT !.pc = pc]
    OBVIOUS
  <1>7. /\ h \in Call /\ h.pc = pc /\ h.account = a /\ h.kind = q.kind /\ h.signIn = q.signIn /\ h.key = q.key
        /\ h.proof = q.proof /\ h.token = q.token /\ h.code = q.code /\ h.got = q.got
        /\ h.publicKey = q.publicKey /\ h.keys = q.keys /\ h.alone = q.alone
    BY <1>2, <1>3, <1>6, PcFields
  <1>8. Noted(c, a, h) /\ UNCHANGED <<account, joinCode, told, raced>> /\ material' = [material EXCEPT ![a] = k]
    BY <1>1, <1>3, <1>4, <1>5, <1>6 DEF KeepMaterial
  <1>9. Rows' = Rows /\ a \in Accounts
    BY <1>8 DEF Rows
  <1>10. CallOK(h)'
    BY <1>2, <1>3, <1>4, <1>5, <1>7, <1>9 DEF CallOK, HasRow, Kept
  <1>11. q.alone => account[a].publicKey = q.publicKey /\ account[a].secret = Kept(q)
    BY <1>2, <1>3 DEF Fine, AloneOK, HasRow
  <1>12. Kept(h) = Kept(q)
    BY <1>7 DEF Kept
  <1>13. q.kind # "complete" => Kept(q) = q.publicKey
    BY <1>2 DEF CallOK
  <1>14. AloneOK(h)'
    BY <1>2, <1>4, <1>5, <1>7, <1>8, <1>11, <1>12, <1>13 DEF CallOK, AloneOK, Ready, Kept
  <1>15. LinkOK(h)'
    BY <1>2, <1>3, <1>5, <1>7, <1>8 DEF Fine, LinkOK, HasRow
  <1>16. TablesOK'
    BY <1>8, <1>9 DEF KeysInv, TablesOK, Noted
  <1>17. ColumnsAreUnique' /\ ToldOK'
    BY <1>8, <1>9 DEF KeysInv, ColumnsAreUnique, ToldOK
  <1>18. \A b \in Rows \ {a} : Untouched(b)
    BY <1>8 DEF KeysInv, TablesOK, Rows, Untouched, Open
  <1> QED BY <1>8, <1>9, <1>10, <1>14, <1>15, <1>16, <1>17, <1>18, RowOf, NotedStep DEF Fine

LEMMA AdoptPreserves == ASSUME KeysInv, NEW c \in Callers, Adopt(c) PROVE KeysInv'
  <1> USE KeysAssumption
  <1>1. PICK q : q = ask[c]
    OBVIOUS
  <1>2. q # None /\ q.pc = "adopt" /\ Fine(q) /\ CallOK(q) /\ q \in Call /\ q.kind = "complete"
    BY <1>1, CallOf DEF Adopt, AtStep, CallOK
  <1>3. PICK a \in Rows : a = q.account
    BY <1>2 DEF CallOK, HasRow
  <1>4. PICK k \in Keys : k = q.key
    BY <1>2 DEF CallOK, Call
  <1>5. CASE ~Unique(a, account[a].supabaseUserId, k)
    BY <1>1, <1>3, <1>4, <1>5, QuietStep DEF Adopt, Refused, Proceeds
  <1>6. CASE Unique(a, account[a].supabaseUserId, k)
    <2>1. PICK x \in AccountRow : x = account[a]
      BY RowOf
    <2>2. PICK r : r = [x EXCEPT !.publicKey = k]
      OBVIOUS
    <2>3. r \in AccountRow /\ r.publicKey = k /\ r.supabaseUserId = x.supabaseUserId /\ r.secret = x.secret
      BY <2>2 DEF AccountRow
    <2>4. account' = [account EXCEPT ![a] = r]
      BY <1>1, <1>3, <1>4, <1>6, <2>1, <2>2 DEF Adopt, Adopted
    <2>5. /\ account' \in [Accounts -> AccountRow \cup {None}] /\ Rows' = Rows /\ account'[a] = r
          /\ \A b \in Rows \ {a} : account'[b] = account[b]
      BY <2>3, <2>4, RowWritten
    <2>6. PICK h : h = [q EXCEPT !.pc = "answer", !.got = k, !.keys = @ \cup {k}]
      OBVIOUS
    <2>7. /\ h \in Call /\ h.pc = "answer" /\ h.account = a /\ h.kind = q.kind /\ h.signIn = q.signIn /\ h.key = q.key
          /\ h.proof = q.proof /\ h.token = q.token /\ h.code = q.code /\ h.got = k
          /\ h.publicKey = q.publicKey /\ h.keys = q.keys \cup {k} /\ h.alone = q.alone
      BY <1>2, <1>3, <2>6 DEF Call
    <2>8. Noted(c, a, h) /\ UNCHANGED <<material, joinCode, told, raced>>
      BY <1>1, <1>3, <1>4, <1>6, <2>6 DEF Adopt
    <2>9. CallOK(h)'
      BY <1>2, <1>3, <2>5, <2>7 DEF CallOK, HasRow
    <2>10. q.alone => x.secret = k
      BY <1>2, <1>3, <1>4, <2>1 DEF Fine, AloneOK, HasRow, Kept
    <2>11. AloneOK(h)'
      BY <1>2, <2>3, <2>5, <2>7, <2>10 DEF AloneOK, Ready
    <2>12. LinkOK(h)'
      BY <1>2, <1>3, <2>1, <2>3, <2>5, <2>7, <2>8 DEF Fine, LinkOK, HasRow
    <2>13. TablesOK'
      BY <2>5, <2>8 DEF KeysInv, TablesOK, Noted
    <2>14. ColumnsAreUnique'
      BY <1>6, <2>1, <2>3, <2>5 DEF KeysInv, ColumnsAreUnique, Unique, OfKey
    <2>15. ToldOK'
      BY <2>1, <2>3, <2>5, <2>8 DEF KeysInv, ToldOK
    <2>16. \A b \in Rows \ {a} : Untouched(b)
      BY <2>5, <2>8 DEF Untouched, Open
    <2> QED BY <2>1, <2>3, <2>5, <2>8, <2>9, <2>11, <2>12, <2>13, <2>14, <2>15, <2>16, NotedStep DEF Fine
  <1> QED BY <1>5, <1>6


LEMMA LinkPreserves == ASSUME KeysInv, NEW c \in Callers, Link(c) PROVE KeysInv'
  <1> USE KeysAssumption
  <1>1. PICK q : q = ask[c]
    OBVIOUS
  <1>2. /\ q # None /\ q.pc = "link" /\ Fine(q) /\ CallOK(q) /\ q \in Call /\ q.kind = "complete" /\ q.got = None
        /\ q.signIn \in SignIns /\ q.token # None
    BY <1>1, CallOf DEF Link, AtStep, CallOK, Call
  <1>3. PICK a \in Rows : a = q.account
    BY <1>2 DEF CallOK, HasRow
  <1>4. PICK x \in AccountRow : x = account[a]
    BY RowOf
  <1>5. CASE ~Unique(a, q.signIn, x.publicKey)
    BY <1>1, <1>3, <1>4, <1>5, QuietStep DEF Link, Refused, Proceeds
  <1>6. CASE Unique(a, q.signIn, x.publicKey)
    <2>1. PICK r : r = [x EXCEPT !.supabaseUserId = q.signIn]
      OBVIOUS
    <2>2. /\ r \in AccountRow /\ r.publicKey = x.publicKey /\ r.supabaseUserId = q.signIn /\ r.secret = x.secret
          /\ r.publicKey \in Keys
      BY <1>2, <2>1 DEF AccountRow
    <2>3. account' = [account EXCEPT ![a] = r]
      BY <1>1, <1>3, <1>4, <1>6, <2>1 DEF Link
    <2>4. /\ account' \in [Accounts -> AccountRow \cup {None}] /\ Rows' = Rows /\ account'[a] = r
          /\ \A b \in Rows \ {a} : account'[b] = account[b]
      BY <2>2, <2>3, RowWritten
    <2>5. PICK h : h = Holding(q, a, x, "secret")
      OBVIOUS
    <2>6. /\ h \in Call /\ h.pc = "secret" /\ h.account = a /\ h.publicKey = x.publicKey /\ h.keys = {x.publicKey}
          /\ h.kind = q.kind /\ h.signIn = q.signIn /\ h.key = q.key /\ h.proof = q.proof /\ h.token = q.token
          /\ h.code = q.code /\ h.got = q.got
      BY <1>2, <2>5, RowOf, HoldingFields
    <2>7. /\ Noted(c, a, h) /\ UNCHANGED <<material, joinCode, told>>
          /\ raced' = raced \cup {b \in {a} : \E d \in Callers \ {c} : AtStep(d, "link") /\ ask[d].account = a}
      BY <1>1, <1>3, <1>4, <1>6, <2>5 DEF Link
    <2>8. CallOK(h)'
      BY <1>2, <1>3, <1>4, <2>4, <2>6, RowOf DEF CallOK, HasRow
    <2>9. AloneOK(h)'
      BY <2>2, <2>4, <2>6 DEF AloneOK
    <2>10. LinkOK(h)'
      BY <2>2, <2>4, <2>6 DEF LinkOK
    <2>11. a \in raced \/ x.supabaseUserId = None
      BY <1>2, <1>3, <1>4 DEF Fine, LinkOK, HasRow
    <2>12. a \in raced' \/ \A d \in Callers \ {c} : ask[d] # None /\ ask[d].account = a => ask[d].pc # "link"
      BY <2>7 DEF AtStep
    <2>13. TablesOK'
      BY <2>4, <2>7 DEF KeysInv, TablesOK, Noted
    <2>14. ColumnsAreUnique'
      BY <1>4, <1>6, <2>2, <2>4 DEF KeysInv, ColumnsAreUnique, Unique, OfSignIn
    <2>15. ToldOK'
      BY <1>4, <2>4, <2>7, <2>11 DEF KeysInv, ToldOK
    <2>16. \A b \in Rows \ {a} : Untouched(b)
      BY <2>4, <2>7 DEF Untouched, Open
    <2>17. raced \subseteq raced'
      BY <2>7
    <2> QED BY <1>4, <2>2, <2>4, <2>7, <2>8, <2>9, <2>10, <2>11, <2>12, <2>13, <2>14, <2>15, <2>16, <2>17, NotedStep DEF Fine
  <1> QED BY <1>4, <1>5, <1>6

LEMMA InsertPreserves == ASSUME KeysInv, NEW c \in Callers, Insert(c) PROVE KeysInv'
  <1> USE KeysAssumption
  <1>1. PICK q : q = ask[c]
    OBVIOUS
  <1>2. /\ q # None /\ q.pc = "insert" /\ Fine(q) /\ CallOK(q) /\ q \in Call /\ q.kind \in {"complete", "exchange"}
        /\ q.got = None /\ q.signIn \in SignIns /\ q.signIn # None /\ q.key \in Keys /\ q.key # None
    BY <1>1, CallOf DEF Insert, AtStep, CallOK, Call
  <1>3. CASE ~Unique(None, q.signIn, q.key)
    BY <1>1, <1>3, QuietStep DEF Insert, Refused, Proceeds
  <1>4. CASE Unique(None, q.signIn, q.key)
    <2>1. PICK r : r = [publicKey |-> q.key, supabaseUserId |-> q.signIn, secret |-> None]
      OBVIOUS
    <2>2. r \in AccountRow /\ r.publicKey = q.key /\ r.supabaseUserId = q.signIn /\ r.secret = None
      BY <1>2, <2>1 DEF AccountRow
    <2>3. PICK a \in Accounts \ Rows :
             /\ account' = [account EXCEPT ![a] = r]
             /\ Proceeds(c, IF q.kind = "exchange" THEN Persisting(Holding(q, a, r, "proof"))
                            ELSE Holding([q EXCEPT !.kind = "created"], a, r, "keep"))
      BY <1>1, <1>4, <2>1 DEF Insert
    <2>4. \A b \in Rows : account[b].publicKey # q.key /\ account[b].supabaseUserId # q.signIn
      BY <1>4 DEF Unique, OfSignIn, OfKey, Rows
    <2>5. UNCHANGED <<material, joinCode, told, raced>>
      BY DEF Insert
    <2>6. /\ account' \in [Accounts -> AccountRow \cup {None}] /\ Rows' = Rows \cup {a} /\ account'[a] = r
          /\ ColumnsAreUnique' /\ ToldOK' /\ (\A x \in JoinCodes : joinCode'[x] # None => joinCode'[x].account \in Rows')
          /\ \A p : Fine(p) => Fine(p)'
      BY <2>2, <2>3, <2>4, <2>5, NewAccount
    <2>7. ASSUME NEW h, Proceeds(c, h), h # None => Fine(h)' PROVE KeysInv'
      <3>1. TablesOK'
        BY <2>5, <2>6, <2>7 DEF KeysInv, TablesOK, Proceeds
      <3>2. ASSUME NEW d \in Callers PROVE (ask[d] # None => Fine(ask[d]))'
        <4>1. PICK s : s = ask'[d]
          OBVIOUS
        <4>2. s # None => Fine(s)'
          <5>1. CASE d = c
            BY <2>7, <4>1, <5>1 DEF KeysInv, TablesOK, Proceeds
          <5>2. CASE d # c
            <6>1. s = ask[d]
              BY <2>7, <4>1, <5>2 DEF KeysInv, TablesOK, Proceeds
            <6> QED BY <2>6, <6>1 DEF KeysInv
          <5> QED BY <5>1, <5>2
        <4> QED BY <4>1, <4>2 DEF Fine, CallOK, AloneOK, LinkOK, HasRow, Kept
      <3> QED BY <2>6, <3>1, <3>2 DEF KeysInv
    <2>8. ASSUME NEW h, h \in Call, h.account = a, h.publicKey = q.key, h.publicKey \in h.keys,
                 h.signIn = q.signIn, h.got = None, h.key = q.key, h.token = q.token,
                 \/ h.pc = "answer" /\ h.kind = "exchange" /\ h.proof = None
                 \/ h.pc = "keep" /\ h.kind = "exchange" /\ h.proof = q.key
                 \/ h.pc = "keep" /\ h.kind = "created" /\ h.proof = None,
                 h.kind = "exchange" => q.kind = "exchange"
          PROVE  Fine(h)'
      <3>0. a # None
        OBVIOUS
      <3>t. q.kind = "exchange" => q.token = None
        BY <1>2 DEF CallOK
      <3>1. CallOK(h)'
        <4>1. q.token # None => q.token \in Rows'
          BY <1>2, <2>6 DEF CallOK
        <4> QED BY <1>2, <2>6, <2>8, <3>0, <3>t, <4>1 DEF CallOK, HasRow, Kept
      <3>2. AloneOK(h)'
        BY <2>2, <2>6, <2>8 DEF AloneOK
      <3>3. LinkOK(h)'
        BY <2>2, <2>6, <2>8 DEF LinkOK
      <3> QED BY <3>1, <3>2, <3>3 DEF Fine
    <2>9. CASE q.kind = "exchange"
      <3>1. PICK p : p = Holding(q, a, r, "proof")
        OBVIOUS
      <3>2. /\ p \in Call /\ p.account = a /\ p.publicKey = q.key /\ p.keys = {q.key}
            /\ p.kind = q.kind /\ p.signIn = q.signIn /\ p.key = q.key /\ p.proof = q.proof /\ p.token = q.token /\ p.got = None
        BY <1>2, <2>2, <3>1, HoldingFields
      <3>3. PICK h : h = Persisting(p)
        OBVIOUS
      <3>4. Proceeds(c, h)
        BY <2>3, <2>9, <3>1, <3>3
      <3>5. CASE h # None
        <4>1. PICK pc \in {"answer", "keep"} :
                h = [p EXCEPT !.pc = pc] /\ (IF pc = "answer" THEN p.proof = None ELSE p.proof = p.publicKey)
          BY <3>3, <3>5 DEF Persisting
        <4>2. /\ h \in Call /\ h.pc = pc /\ h.account = p.account /\ h.publicKey = p.publicKey /\ h.keys = p.keys
              /\ h.kind = p.kind /\ h.signIn = p.signIn /\ h.key = p.key /\ h.proof = p.proof /\ h.token = p.token
              /\ h.got = p.got
          BY <3>2, <4>1, PcFields
        <4>3. Fine(h)'
          BY <2>8, <2>9, <3>2, <4>1, <4>2
        <4> QED BY <2>7, <3>4, <4>3
      <3> QED BY <2>7, <3>4, <3>5
    <2>10. CASE q.kind = "complete"
      <3>1. PICK p : p = [q EXCEPT !.kind = "created"]
        OBVIOUS
      <3>2. /\ p \in Call /\ p.kind = "created" /\ p.signIn = q.signIn /\ p.key = q.key /\ p.proof = q.proof /\ p.token = q.token
            /\ p.got = None
        BY <1>2, <3>1 DEF Call
      <3>3. PICK h : h = Holding(p, a, r, "keep")
        OBVIOUS
      <3>4. /\ h \in Call /\ h.pc = "keep" /\ h.account = a /\ h.publicKey = q.key /\ h.keys = {q.key}
            /\ h.kind = "created" /\ h.signIn = q.signIn /\ h.key = q.key /\ h.proof = q.proof /\ h.token = q.token /\ h.got = None
        BY <2>2, <3>2, <3>3, HoldingFields
      <3>5. q.proof = None
        BY <1>2, <2>10 DEF CallOK
      <3>6. Fine(h)'
        BY <2>8, <3>4, <3>5
      <3>7. Proceeds(c, h)
        BY <2>3, <2>10, <3>1, <3>3
      <3> QED BY <2>7, <3>6, <3>7
    <2> QED BY <1>2, <2>9, <2>10
  <1> QED BY <1>3, <1>4

LEMMA SecretKeyPreserves == ASSUME KeysInv, NEW k \in Keys, AuthenticateSecretKey(k) PROVE KeysInv'
  <1> USE KeysAssumption
  <1>1. PICK r : r = [publicKey |-> k, supabaseUserId |-> None, secret |-> None]
    OBVIOUS
  <1>2. r \in AccountRow /\ r.publicKey = k /\ r.supabaseUserId = None
    BY <1>1 DEF AccountRow
  <1>3. PICK a \in Accounts \ Rows : account' = [account EXCEPT ![a] = r]
    BY <1>1 DEF AuthenticateSecretKey
  <1>4. \A b \in Rows : account[b].publicKey # k
    BY DEF AuthenticateSecretKey, OfKey
  <1>5. UNCHANGED <<material, joinCode, ask, told, raced>>
    BY DEF AuthenticateSecretKey
  <1>6. /\ account' \in [Accounts -> AccountRow \cup {None}] /\ Rows' = Rows \cup {a} /\ account'[a] = r
        /\ ColumnsAreUnique' /\ ToldOK' /\ (\A x \in JoinCodes : joinCode'[x] # None => joinCode'[x].account \in Rows')
        /\ \A p : Fine(p) => Fine(p)'
    BY <1>2, <1>3, <1>4, <1>5, NewAccount
  <1>7. TablesOK'
    BY <1>5, <1>6 DEF KeysInv, TablesOK
  <1>8. ASSUME NEW d \in Callers PROVE (ask[d] # None => Fine(ask[d]))'
    <2>1. PICK s : s = ask[d]
      OBVIOUS
    <2>2. s # None => Fine(s)'
      BY <1>6, <2>1 DEF KeysInv
    <2> QED BY <1>5, <2>1, <2>2 DEF Fine, CallOK, AloneOK, LinkOK, HasRow, Kept
  <1> QED BY <1>6, <1>7, <1>8 DEF KeysInv

LEMMA ClearPreserves == ASSUME KeysInv, NEW c \in Callers, ClearCodes(c) PROVE KeysInv'
  <1> USE KeysAssumption
  <1>1. PICK q : q = ask[c]
    OBVIOUS
  <1>2. q # None /\ q.pc = "clear" /\ Fine(q) /\ CallOK(q) /\ q \in Call
    BY <1>1, CallOf DEF ClearCodes, AtStep
  <1>3. PICK a \in Rows : a = q.account
    BY <1>2 DEF CallOK, HasRow
  <1>4. PICK h : h = [q EXCEPT !.pc = "issue"]
    OBVIOUS
  <1>5. /\ h \in Call /\ h.pc = "issue" /\ h.account = a /\ h.kind = q.kind /\ h.signIn = q.signIn /\ h.key = q.key
        /\ h.proof = q.proof /\ h.token = q.token /\ h.code = q.code /\ h.got = q.got
        /\ h.publicKey = q.publicKey /\ h.keys = q.keys /\ h.alone = q.alone
    BY <1>2, <1>3, <1>4, PcFields
  <1>6. /\ Noted(c, a, h) /\ UNCHANGED <<account, material, told, raced>>
        /\ joinCode' = [x \in JoinCodes |-> IF x \in Open(a) THEN None ELSE joinCode[x]]
    BY <1>1, <1>3, <1>4 DEF ClearCodes, Cleared
  <1>7. Rows' = Rows
    BY <1>6 DEF Rows
  <1>8. CallOK(h)'
    BY <1>2, <1>3, <1>5, <1>7 DEF CallOK, HasRow
  <1>9. AloneOK(h)'
    BY <1>5, <1>6 DEF AloneOK, Open
  <1>10. LinkOK(h)'
    BY <1>2, <1>3, <1>5, <1>6 DEF Fine, LinkOK, HasRow
  <1>11. TablesOK'
    BY <1>6, <1>7 DEF KeysInv, TablesOK, Noted
  <1>12. ColumnsAreUnique' /\ ToldOK'
    BY <1>6, <1>7 DEF KeysInv, ColumnsAreUnique, ToldOK
  <1>13. \A b \in Rows \ {a} : Untouched(b)
    BY <1>6 DEF Untouched, Open
  <1> QED BY <1>6, <1>7, <1>8, <1>9, <1>10, <1>11, <1>12, <1>13, RowOf, NotedStep DEF Fine

LEMMA IssuePreserves == ASSUME KeysInv, NEW c \in Callers, IssueCode(c) PROVE KeysInv'
  <1> USE KeysAssumption
  <1>1. PICK q : q = ask[c]
    OBVIOUS
  <1>2. q # None /\ q.pc = "issue" /\ Fine(q) /\ CallOK(q) /\ q \in Call /\ q.kind = "create" /\ q.proof = None
    BY <1>1, CallOf DEF IssueCode, AtStep, CallOK
  <1>3. PICK a \in Rows : a = q.account
    BY <1>2 DEF CallOK, HasRow
  <1>4. PICK h : h = [q EXCEPT !.pc = "answer"]
    OBVIOUS
  <1>5. /\ h \in Call /\ h.pc = "answer" /\ h.account = a /\ h.kind = q.kind /\ h.signIn = q.signIn /\ h.key = q.key
        /\ h.proof = q.proof /\ h.token = q.token /\ h.code = q.code /\ h.got = q.got
        /\ h.publicKey = q.publicKey /\ h.keys = q.keys /\ h.alone = q.alone
    BY <1>2, <1>3, <1>4, PcFields
  <1>6. PICK n : n = [account |-> a, used |-> FALSE, expired |-> FALSE]
    OBVIOUS
  <1>c. n \in CodeRow /\ n.account = a
    BY <1>3, <1>6, RowOf DEF CodeRow
  <1>7. n \in CodeRow /\ n.account = a /\ n # None
    BY <1>c
  <1>8. PICK x \in JoinCodes : joinCode[x] = None /\ joinCode' = [joinCode EXCEPT ![x] = n]
    BY <1>1, <1>3, <1>6 DEF IssueCode
  <1>9. Noted(c, a, h) /\ UNCHANGED <<account, material, told, raced>>
    BY <1>1, <1>3, <1>4 DEF IssueCode
  <1>10. Rows' = Rows
    BY <1>9 DEF Rows
  <1>11. joinCode' \in [JoinCodes -> CodeRow \cup {None}] /\ joinCode'[x] = n /\ \A y \in JoinCodes : y # x => joinCode'[y] = joinCode[y]
    BY <1>7, <1>8 DEF KeysInv, TablesOK
  <1>12. CallOK(h)'
    BY <1>2, <1>3, <1>5, <1>10 DEF CallOK, HasRow
  <1>13. Open(a)' \subseteq Open(a) \cup {x} /\ \A b \in Rows \ {a} : Open(b)' = Open(b)
    BY <1>7, <1>8, <1>11 DEF Open
  <1>14. AloneOK(h)'
    <2>1. q.alone => Open(a) = {}
      BY <1>2, <1>3 DEF Fine, AloneOK, HasRow
    <2>2. h.alone => \A y \in Open(a)', z \in Open(a)' : y = z
      BY <1>5, <1>13, <2>1
    <2> QED BY <1>2, <1>5, <2>2 DEF AloneOK
  <1>15. LinkOK(h)'
    BY <1>2, <1>3, <1>5, <1>9 DEF Fine, LinkOK, HasRow
  <1>16. TablesOK'
    BY <1>7, <1>8, <1>9, <1>10, <1>11 DEF KeysInv, TablesOK, Noted
  <1>17. ColumnsAreUnique' /\ ToldOK'
    BY <1>9, <1>10 DEF KeysInv, ColumnsAreUnique, ToldOK
  <1>18. \A b \in Rows \ {a} : Untouched(b)
    BY <1>9, <1>13 DEF Untouched
  <1> QED BY <1>9, <1>10, <1>12, <1>14, <1>15, <1>16, <1>17, <1>18, RowOf, NotedStep DEF Fine

\* A code is spent or expires: no account has more open codes.
LEMMA CodeWritten ==
  ASSUME KeysInv, NEW x \in JoinCodes, joinCode[x] # None, NEW n \in CodeRow, n.account = joinCode[x].account,
         joinCode[x].used => n.used, joinCode' = [joinCode EXCEPT ![x] = n], UNCHANGED <<account, material, told, raced>>,
         ask' = [c \in Callers |-> ask'[c]],
         \A d \in Callers : ask'[d] # None => Fine(ask'[d])
  PROVE  KeysInv'
  <1> USE KeysAssumption
  <1>1. joinCode' \in [JoinCodes -> CodeRow \cup {None}] /\ joinCode'[x] = n /\ n # None
        /\ \A y \in JoinCodes : y # x => joinCode'[y] = joinCode[y]
    BY DEF KeysInv, TablesOK
  <1>2. Rows' = Rows
    BY DEF Rows
  <1>3. \A b : Open(b)' \subseteq Open(b)
    BY <1>1 DEF Open
  <1>4. ASSUME NEW q, Fine(q) PROVE Fine(q)'
    BY <1>2, <1>3, <1>4, OthersStay DEF Untouched
  <1>5. ASSUME NEW d \in Callers PROVE (ask[d] # None => Fine(ask[d]))'
    <2>1. PICK s : s = ask'[d]
      OBVIOUS
    <2>2. s # None => Fine(s)'
      BY <1>4, <2>1
    <2> QED BY <2>1, <2>2 DEF Fine, CallOK, AloneOK, LinkOK, HasRow, Kept
  <1>6. TablesOK'
    BY <1>1, <1>2 DEF KeysInv, TablesOK
  <1>7. ColumnsAreUnique' /\ ToldOK'
    BY <1>2 DEF KeysInv, ColumnsAreUnique, ToldOK
  <1> QED BY <1>5, <1>6, <1>7 DEF KeysInv

LEMMA SpendPreserves == ASSUME KeysInv, NEW c \in Callers, SpendCode(c) PROVE KeysInv'
  <1> USE KeysAssumption
  <1>1. PICK q : q = ask[c]
    OBVIOUS
  <1>2. /\ q # None /\ q.pc = "spend" /\ Fine(q) /\ CallOK(q) /\ q \in Call /\ q.kind \in {"join", "redeem"} /\ q.code \in JoinCodes
        /\ q.signIn = None /\ q.proof = None
    BY <1>1, CallOf DEF SpendCode, AtStep, CallOK, Call
  <1>3. CASE joinCode[q.code] = None
    BY <1>1, <1>3, QuietStep DEF SpendCode, Refused, Proceeds
  <1>4. CASE joinCode[q.code] # None
    <2>1. PICK y \in CodeRow : y = joinCode[q.code]
      BY <1>2, <1>4 DEF KeysInv, TablesOK
    <2>2. PICK n : n = [y EXCEPT !.used = TRUE]
      OBVIOUS
    <2>3. n \in CodeRow /\ n.account = y.account /\ n.used
      BY <2>2 DEF CodeRow
    <2>4. PICK h : h = [q EXCEPT !.pc = "answer"]
      OBVIOUS
    <2>5. joinCode' = [joinCode EXCEPT ![q.code] = n] /\ Proceeds(c, h) /\ UNCHANGED <<account, material, told, raced>>
      BY <1>1, <1>4, <2>1, <2>2, <2>4 DEF SpendCode, To
    <2>6. /\ h \in Call /\ h.pc = "answer" /\ h.account = q.account /\ h.kind = q.kind /\ h.signIn = q.signIn /\ h.key = q.key
          /\ h.proof = q.proof /\ h.token = q.token /\ h.code = q.code /\ h.got = q.got
          /\ h.publicKey = q.publicKey /\ h.keys = q.keys /\ h.alone = q.alone
      BY <1>2, <2>4, PcFields
    <2>7. CallOK(h)
      BY <1>2, <2>6 DEF CallOK, HasRow
    <2>8. Fine(h)
      BY <1>2, <2>6, <2>7 DEF Fine, AloneOK, LinkOK
    <2>9. \A d \in Callers : ask'[d] # None => Fine(ask'[d])
      BY <2>5, <2>8 DEF Proceeds, KeysInv, TablesOK
    <2>10. ask' = [d \in Callers |-> ask'[d]]
      BY <2>5 DEF Proceeds, KeysInv, TablesOK
    <2> QED BY <1>2, <1>4, <2>1, <2>3, <2>5, <2>9, <2>10, CodeWritten
  <1> QED BY <1>3, <1>4

LEMMA ExpirePreserves == ASSUME KeysInv, NEW x \in JoinCodes, ExpireCode(x) PROVE KeysInv'
  <1> USE KeysAssumption
  <1>1. PICK y \in CodeRow : y = joinCode[x]
    BY DEF ExpireCode, KeysInv, TablesOK
  <1>2. PICK n : n = [y EXCEPT !.expired = TRUE]
    OBVIOUS
  <1>3. n \in CodeRow /\ n.account = y.account
    BY <1>2 DEF CodeRow
  <1>4. y.used => n.used
    BY <1>2 DEF CodeRow
  <1>5. joinCode' = [joinCode EXCEPT ![x] = n] /\ UNCHANGED <<account, material, ask, told, raced>> /\ joinCode[x] # None
    BY <1>1, <1>2 DEF ExpireCode
  <1>6. (\A d \in Callers : ask'[d] # None => Fine(ask'[d])) /\ ask' = [d \in Callers |-> ask'[d]]
    BY <1>5 DEF KeysInv, TablesOK
  <1> QED BY <1>1, <1>3, <1>4, <1>5, <1>6, CodeWritten

LEMMA AnswerPreserves == ASSUME KeysInv, NEW c \in Callers, Answer(c) PROVE KeysInv'
  <1> USE KeysAssumption
  <1>1. PICK q : q = ask[c]
    OBVIOUS
  <1>2. q # None /\ q.pc = "answer" /\ Fine(q) /\ CallOK(q) /\ q \in Call
    BY <1>1, CallOf DEF Answer, AtStep
  <1>3. PICK a \in Rows : a = q.account
    BY <1>2 DEF CallOK, HasRow
  <1>4. /\ Refused(c) /\ UNCHANGED <<account, material, joinCode, raced>>
        /\ told' = IF q.signIn = None THEN told ELSE [told EXCEPT ![q.signIn] = a]
    BY <1>1, <1>3 DEF Answer
  <1>5. q.signIn # None => a \in raced \/ account[a].supabaseUserId = q.signIn
    BY <1>2, <1>3 DEF Fine, LinkOK, HasRow
  <1>6. Rows' = Rows
    BY <1>4 DEF Rows
  <1>7. ASSUME NEW r, Fine(r) PROVE Fine(r)'
    BY <1>4, <1>7 DEF Fine, CallOK, AloneOK, LinkOK, Rows, Ready, Open, HasRow, Kept
  <1>8. ASSUME NEW d \in Callers PROVE (ask[d] # None => Fine(ask[d]))'
    <2>1. PICK r : r = ask'[d]
      OBVIOUS
    <2>2. r # None => Fine(r)
      BY <1>4, <2>1 DEF KeysInv, TablesOK, Refused, Proceeds
    <2> QED BY <1>7, <2>1, <2>2 DEF Fine, CallOK, AloneOK, LinkOK, HasRow, Kept
  <1>9. TablesOK'
    BY <1>4, <1>6 DEF KeysInv, TablesOK, Refused, Proceeds
  <1>10. ColumnsAreUnique'
    BY <1>4, <1>6 DEF KeysInv, ColumnsAreUnique
  <1>11. ToldOK'
    BY <1>3, <1>4, <1>5, <1>6 DEF KeysInv, TablesOK, ToldOK
  <1> QED BY <1>8, <1>9, <1>10, <1>11 DEF KeysInv

LEMMA KeysNextInv == KeysInv /\ [KeysNext]_keysVars => KeysInv'
  <1> SUFFICES ASSUME KeysInv, [KeysNext]_keysVars PROVE KeysInv'
    OBVIOUS
  <1>1. ASSUME NEW c \in Callers, GoOn(c) PROVE KeysInv'
    BY <1>1, FindSignInPreserves, LegacyPreserves, LinkPreserves, FindKeyPreserves, InsertPreserves, FindAccountPreserves,
       FindCodePreserves, ReadSecretPreserves, ReadMaterialPreserves, KeepSecretPreserves, KeepMaterialPreserves,
       AdoptPreserves, ClearPreserves, IssuePreserves, SpendPreserves, AnswerPreserves, BreaksPreserves DEF GoOn
  <1>2. CASE UNCHANGED keysVars
    BY <1>2 DEF keysVars, KeysInv, TablesOK, ColumnsAreUnique, ToldOK, Fine, CallOK, AloneOK, LinkOK, Rows, Ready, Open,
                HasRow, Kept
  <1> QED BY <1>1, <1>2, AskPreserves, SecretKeyPreserves, ExpirePreserves DEF KeysNext

\* At most one member, counted.
LEMMA AtMostOne == ASSUME NEW S, \A x \in S, y \in S : x = y PROVE Cardinality(S) <= 1
  <1>1. CASE S = {}
    BY <1>1, FS_EmptySet
  <1>2. CASE S # {}
    <2>1. PICK x \in S : S = {x}
      BY <1>2
    <2> QED BY <2>1, FS_Singleton
  <1> QED BY <1>1, <1>2

LEMMA KeysInvImplies == KeysInv => AccountsStayWhole
  <1> SUFFICES ASSUME KeysInv PROVE AccountsStayWhole
    OBVIOUS
  <1> USE KeysAssumption
  <1>1. ASSUME NEW c \in Callers, ask[c] # None PROVE Fine(ask[c]) /\ CallOK(ask[c]) /\ AloneOK(ask[c])
    BY <1>1 DEF KeysInv, Fine
  <1>2. \A u \in SignIns : Cardinality(OfSignIn(u)) <= 1
    <2>1. ASSUME NEW u \in SignIns PROVE \A a \in OfSignIn(u), b \in OfSignIn(u) : a = b
      BY DEF KeysInv, ColumnsAreUnique, OfSignIn
    <2> QED BY <2>1, AtMostOne
  <1>3. \A k \in Keys : Cardinality(OfKey(k)) <= 1
    <2>1. ASSUME NEW k \in Keys PROVE \A a \in OfKey(k), b \in OfKey(k) : a = b
      BY DEF KeysInv, ColumnsAreUnique, OfKey
    <2> QED BY <2>1, AtMostOne
  <1>4. \A c \in Callers : ask[c] # None /\ ask[c].account # None => ask[c].account \in Rows
    BY <1>1 DEF CallOK
  <1>5. \A x \in JoinCodes : joinCode[x] # None => joinCode[x] \in [account : Rows, used : BOOLEAN, expired : BOOLEAN]
    BY DEF KeysInv, TablesOK, CodeRow
  <1>6. KeysTypeOK
    BY <1>2, <1>3, <1>4, <1>5, RowOf DEF KeysTypeOK, KeysInv, TablesOK, AccountRow
  <1>7. SignInLeavesReady
    BY <1>1 DEF SignInLeavesReady, AtStep, AloneOK, HasRow
  <1>8. HandedSecretFits
    BY <1>1 DEF HandedSecretFits, AtStep, CallOK
  <1>9. LinkStays
    BY DEF KeysInv, ToldOK, LinkStays
  <1>10. OneOpenCode
    <2>1. ASSUME NEW c \in Callers, AtStep(c, "answer"), ask[c].kind = "create", ask[c].alone
          PROVE  \A x \in Open(ask[c].account), y \in Open(ask[c].account) : x = y
      BY <1>1, <2>1 DEF AtStep, AloneOK, HasRow
    <2> QED BY <2>1, AtMostOne DEF OneOpenCode
  <1> QED BY <1>6, <1>7, <1>8, <1>9, <1>10 DEF AccountsStayWhole

\* Accounts stay whole, however sign-ins, recoveries and codes interleave.
LEMMA AccountsAreWhole == KeysSpec => []AccountsStayWhole
  <1>1. KeysInit => KeysInv
    BY KeysInitInv
  <1>2. KeysInv /\ [KeysNext]_keysVars => KeysInv'
    BY KeysNextInv
  <1>3. KeysInv => AccountsStayWhole
    BY KeysInvImplies
  <1> QED BY <1>1, <1>2, <1>3, PTL DEF KeysSpec

-----------------------------------------------------------------------------
(* Requests to be let in.                                                   *)

RequestsTypeOK ==
    /\ authRequest = [k \in Newcomers |-> authRequest[k]]
    /\ looked = [d \in Devices |-> looked[d]]
    /\ learnt = [k \in Newcomers |-> learnt[k]]

\* Every answer in a row is of one device.
RowsAreWhole ==
    \A k \in Newcomers : Authorized(k) => authRequest[k].responseAccount = AccountOf[authRequest[k].response]

\* Of a request that no two devices saw open one device is about to answer it,
\* or the newcomer was told nothing but what is in the row.
Answering(k) ==
    /\ \A d, e \in Devices : looked[d] = k /\ looked[e] = k => d = e
    /\ Authorized(k) => \A d \in Devices : looked[d] # k
    /\ learnt[k] # {} => Authorized(k)
    /\ learnt[k] \subseteq {authRequest[k]}

RequestsInv ==
    /\ RequestsTypeOK /\ RowsAreWhole /\ AnswerIsWhole
    /\ \A k \in Newcomers \ crossed : Answering(k)

LEMMA RequestsInitInv == RequestsInit => RequestsInv
  <1> SUFFICES ASSUME RequestsInit PROVE RequestsInv
    OBVIOUS
  <1> USE DEF RequestsInit, Authorized
  <1>1. RequestsTypeOK
    BY DEF RequestsTypeOK
  <1>2. RowsAreWhole /\ AnswerIsWhole
    BY DEF RowsAreWhole, AnswerIsWhole
  <1>3. \A k \in Newcomers : Answering(k)
    BY RequestsAssumption DEF Answering
  <1> QED BY <1>1, <1>2, <1>3 DEF RequestsInv

LEMMA RequestsNextInv == RequestsInv /\ [RequestsNext]_requestVars => RequestsInv'
  <1> SUFFICES ASSUME RequestsInv, [RequestsNext]_requestVars PROVE RequestsInv'
    OBVIOUS
  <1> USE DEF RequestsInv, RequestsTypeOK, RowsAreWhole, AnswerIsWhole, Answering, Authorized
  <1>1. ASSUME NEW k \in Newcomers, Request(k) PROVE RequestsInv'
    <2>1. UNCHANGED <<looked, crossed>>
      BY <1>1 DEF Request
    <2>2. \/ UNCHANGED authRequest
          \/ /\ authRequest[k] = None
             /\ authRequest' = [authRequest EXCEPT ![k] = [response |-> None, responseAccount |-> None]]
      BY <1>1 DEF Request
    <2>3. \/ UNCHANGED learnt
          \/ Authorized(k) /\ learnt' = [learnt EXCEPT ![k] = @ \cup {authRequest[k]}] /\ UNCHANGED authRequest
      BY <1>1 DEF Request
    <2>4. RequestsTypeOK'
      BY <2>1, <2>2, <2>3
    <2>5. RowsAreWhole'
      BY <2>2
    <2>6. AnswerIsWhole'
      BY <2>3
    <2>7. ASSUME NEW n \in Newcomers \ crossed PROVE Answering(n)'
      BY <2>1, <2>2, <2>3
    <2> QED BY <2>1, <2>4, <2>5, <2>6, <2>7
  <1>2. ASSUME NEW k \in Newcomers, NEW d \in Devices, LookUp(d, k) PROVE RequestsInv'
    <2>1. /\ UNCHANGED <<authRequest, learnt>> /\ ~Authorized(k) /\ looked' = [looked EXCEPT ![d] = k]
          /\ crossed' = crossed \cup {x \in {k} : \E e \in Devices : looked[e] = k}
      BY <1>2 DEF LookUp, IsOpen
    <2>2. ASSUME NEW n \in Newcomers \ crossed' PROVE Answering(n)'
      <3>1. CASE n = k
        BY <2>1, <3>1
      <3>2. CASE n # k
        BY <2>1, <3>2
      <3> QED BY <3>1, <3>2
    <2> QED BY <2>1, <2>2
  <1>3. ASSUME NEW d \in Devices, Respond(d) PROVE RequestsInv'
    <2> DEFINE row == AnsweredBy(d)
    <2>1. /\ UNCHANGED <<learnt, crossed>> /\ looked[d] # None
          /\ authRequest' = [authRequest EXCEPT ![looked[d]] = row]
          /\ looked' = [looked EXCEPT ![d] = None]
      BY <1>3 DEF Respond
    <2>2. row.responseAccount = AccountOf[row.response]
      BY DEF AnsweredBy
    <2> HIDE DEF row
    <2>3. RowsAreWhole'
      BY <2>1, <2>2
    <2>4. ASSUME NEW n \in Newcomers \ crossed PROVE Answering(n)'
      <3>1. CASE n = looked[d]
        BY <2>1, <3>1, RequestsAssumption
      <3>2. CASE n # looked[d]
        BY <2>1, <3>2, RequestsAssumption
      <3> QED BY <3>1, <3>2
    <2> QED BY <2>1, <2>3, <2>4
  <1>4. CASE UNCHANGED requestVars
    BY <1>4 DEF requestVars
  <1> QED BY <1>1, <1>2, <1>3, <1>4 DEF RequestsNext

\* A newcomer learns one answer, from one device.
LEMMA AnswersAreWhole == RequestsSpec => []OneWholeAnswer
  <1>1. RequestsInv => OneWholeAnswer
    <2> SUFFICES ASSUME RequestsInv, NEW k \in Newcomers \ crossed PROVE Cardinality(learnt[k]) <= 1
      BY DEF RequestsInv, OneWholeAnswer, AnswerIsStable
    <2>1. learnt[k] = {} \/ learnt[k] = {authRequest[k]}
      BY DEF RequestsInv, Answering
    <2>2. CASE learnt[k] = {}
      BY <2>2, FS_EmptySet
    <2>3. CASE learnt[k] = {authRequest[k]}
      <3>1. Cardinality({authRequest[k]}) = 1
        BY FS_Singleton
      <3> QED BY <2>3, <3>1
    <2> QED BY <2>1, <2>2, <2>3
  <1> QED BY <1>1, RequestsInitInv, RequestsNextInv, PTL DEF RequestsSpec

-----------------------------------------------------------------------------
(* Signing in.                                                              *)

\* However sign-ins, recoveries, join codes (the routes of authRoutes and
\* supabaseAuth) and answers to newcomers interleave and break off, accounts stay
\* whole and newcomers learn one answer, for any accounts, identities, keys,
\* devices and calls at once.
THEOREM SigningInIsSound == KeysSpec /\ RequestsSpec => []SignInIsSound
  <1>1. AccountsStayWhole /\ OneWholeAnswer => SignInIsSound
    BY DEF SignInIsSound
  <1> QED BY <1>1, AccountsAreWhole, AnswersAreWhole, PTL

-----------------------------------------------------------------------------
(* Invitations.                                                             *)

\* The accounts that redeemed a code.
Redeemers(code) == {a \in Guests : <<code, a>> \in redemption}

RowsTypeOK ==
    /\ invitation \in [InvitationCodes -> Invitation \cup {None}]
    /\ redeeming = [i \in Invitees |-> redeeming[i]]

\* A code that is not made has no redemptions; one that is counts them.
Counted(code) ==
    /\ IsFiniteSet(Redeemers(code))
    /\ invitation[code] = None => Redeemers(code) = {}
    /\ invitation[code] # None =>
          /\ invitation[code].used = Cardinality(Redeemers(code))
          /\ invitation[code].used <= invitation[code].maxUses

\* A redemption is of an account and a code; once it has looked, the code is made.
Redeeming(i) ==
    redeeming[i] # None =>
        /\ redeeming[i].account \in Guests /\ redeeming[i].code \in InvitationCodes
        /\ redeeming[i].looked => invitation[redeeming[i].code] # None

InvitationsInv ==
    /\ RowsTypeOK
    /\ \A code \in InvitationCodes : Counted(code)
    /\ \A i \in Invitees : Redeeming(i)

-----------------------------------------------------------------------------

\* One more redemption of a code is one more account that redeemed it.
LEMMA OneMoreRedeemer ==
    ASSUME NEW code \in InvitationCodes, NEW a \in Guests, <<code, a>> \notin redemption,
           redemption' = redemption \cup {<<code, a>>}, IsFiniteSet(Redeemers(code))
    PROVE  /\ IsFiniteSet(Redeemers(code)')
           /\ Cardinality(Redeemers(code)') = Cardinality(Redeemers(code)) + 1
           /\ \A other \in InvitationCodes : other # code => Redeemers(other)' = Redeemers(other)
  <1>1. Redeemers(code)' = Redeemers(code) \cup {a} /\ a \notin Redeemers(code)
    BY DEF Redeemers
  <1>2. \A other \in InvitationCodes : other # code => Redeemers(other)' = Redeemers(other)
    BY DEF Redeemers
  <1> QED BY <1>1, <1>2, FS_AddElement

LEMMA InvitationsInitInv == InvitationsInit => InvitationsInv
  <1> SUFFICES ASSUME InvitationsInit PROVE InvitationsInv
    OBVIOUS
  <1>1. PICK rows \in [InvitationCodes -> 0 .. MaxUses] :
            invitation = [code \in InvitationCodes |->
               IF rows[code] = 0 THEN None ELSE [maxUses |-> rows[code], used |-> 0, expired |-> FALSE]]
    BY DEF InvitationsInit
  <1>2. ASSUME NEW code \in InvitationCodes
        PROVE  /\ invitation[code] \in Invitation \cup {None}
               /\ invitation[code] # None => invitation[code].used = 0
    BY <1>1, InvitationsAssumption DEF Invitation
  <1>3. RowsTypeOK
    BY <1>1, <1>2 DEF InvitationsInit, RowsTypeOK
  <1>4. ASSUME NEW code \in InvitationCodes PROVE Counted(code)
    <2>1. Redeemers(code) = {}
      BY DEF InvitationsInit, Redeemers
    <2>2. IsFiniteSet(Redeemers(code)) /\ Cardinality(Redeemers(code)) = 0
      BY <2>1, FS_EmptySet
    <2> QED BY <1>2, <2>1, <2>2 DEF Counted, Invitation
  <1>5. \A i \in Invitees : Redeeming(i)
    BY DEF InvitationsInit, Redeeming
  <1> QED BY <1>3, <1>4, <1>5 DEF InvitationsInv

\* A step that leaves the redemptions alone, and of the rows changes only what
\* neither counts nor limits the uses, keeps the counts.
LEMMA CountsAreKept ==
    ASSUME InvitationsInv, redemption' = redemption,
           \A code \in InvitationCodes :
              \/ invitation'[code] = invitation[code]
              \/ /\ invitation[code] = None /\ invitation'[code] # None
                 /\ invitation'[code].used = 0 /\ invitation'[code].maxUses \in Nat
              \/ /\ invitation[code] # None /\ invitation'[code] # None
                 /\ invitation'[code].used = invitation[code].used
                 /\ invitation'[code].maxUses = invitation[code].maxUses
    PROVE  \A code \in InvitationCodes : Counted(code)'
  <1> SUFFICES ASSUME NEW code \in InvitationCodes PROVE Counted(code)'
    OBVIOUS
  <1>1. Redeemers(code)' = Redeemers(code) /\ Counted(code)
    BY DEF Redeemers, InvitationsInv
  <1>2. Cardinality({}) = 0
    BY FS_EmptySet
  <1>3. CASE invitation'[code] = invitation[code]
    BY <1>1, <1>3 DEF Counted
  <1>4. CASE /\ invitation[code] = None /\ invitation'[code] # None
             /\ invitation'[code].used = 0 /\ invitation'[code].maxUses \in Nat
    BY <1>1, <1>2, <1>4 DEF Counted
  <1>5. CASE /\ invitation[code] # None /\ invitation'[code] # None
             /\ invitation'[code].used = invitation[code].used
             /\ invitation'[code].maxUses = invitation[code].maxUses
    BY <1>1, <1>5 DEF Counted
  <1> QED BY <1>3, <1>4, <1>5

LEMMA InvitationsNextInv == InvitationsInv /\ [InvitationsNext]_invitationVars => InvitationsInv'
  <1> SUFFICES ASSUME InvitationsInv, [InvitationsNext]_invitationVars PROVE InvitationsInv'
    OBVIOUS
  <1> USE DEF InvitationsInv
  <1>1. ASSUME NEW a \in Guests, NEW code \in InvitationCodes, NEW uses \in 1 .. MaxUses,
               Generate(a, code, uses)
        PROVE  InvitationsInv'
    <2> DEFINE row == [maxUses |-> uses, used |-> 0, expired |-> FALSE]
    <2>0. uses \in Nat \ {0} /\ row \in Invitation
      BY InvitationsAssumption DEF Invitation
    <2>1. /\ row \in Invitation /\ row # None /\ row.used = 0 /\ row.maxUses \in Nat
          /\ invitation[code] = None /\ invitation' = [invitation EXCEPT ![code] = row]
          /\ UNCHANGED <<redemption, redeeming>>
      BY <1>1, <2>0, InvitationsAssumption DEF Generate
    <2> HIDE DEF row
    <2>2. RowsTypeOK'
      BY <2>1 DEF RowsTypeOK
    <2>3. \A c \in InvitationCodes : Counted(c)'
      <3>1. invitation'[code] = row /\ \A c \in InvitationCodes \ {code} : invitation'[c] = invitation[c]
        BY <2>1 DEF RowsTypeOK
      <3> QED BY <2>1, <3>1, CountsAreKept
    <2>4. \A i \in Invitees : Redeeming(i)'
      BY <2>1 DEF RowsTypeOK, Redeeming
    <2> QED BY <2>2, <2>3, <2>4
  <1>2. ASSUME NEW i \in Invitees, NEW a \in Guests, NEW code \in InvitationCodes,
               ReadAccount(i, a, code)
        PROVE  InvitationsInv'
    <2> DEFINE slot == [account |-> a, code |-> code, looked |-> FALSE]
    <2>1. /\ slot.account = a /\ slot.code = code /\ ~slot.looked
          /\ redeeming' = [redeeming EXCEPT ![i] = slot] /\ UNCHANGED <<invitation, redemption>>
      BY <1>2 DEF ReadAccount
    <2> HIDE DEF slot
    <2>2. RowsTypeOK'
      BY <2>1 DEF RowsTypeOK
    <2>3. \A c \in InvitationCodes : Counted(c)'
      BY <2>1, CountsAreKept
    <2>4. \A j \in Invitees : Redeeming(j)'
      BY <2>1 DEF RowsTypeOK, Redeeming
    <2> QED BY <2>2, <2>3, <2>4
  <1>3. ASSUME NEW i \in Invitees, ReadCode(i) PROVE InvitationsInv'
    <2> DEFINE slot == [redeeming[i] EXCEPT !.looked = TRUE]
    <2>1. /\ redeeming[i] # None /\ UNCHANGED <<invitation, redemption>>
          /\ \/ redeeming' = [redeeming EXCEPT ![i] = None]
             \/ /\ invitation[redeeming[i].code] # None
                /\ redeeming' = [redeeming EXCEPT ![i] = slot]
      BY <1>3 DEF ReadCode, RowsTypeOK
    <2>2. Redeeming(i)
      OBVIOUS
    <2>3. RowsTypeOK'
      BY <2>1 DEF RowsTypeOK
    <2>4. \A c \in InvitationCodes : Counted(c)'
      BY <2>1, CountsAreKept
    <2>5. \A j \in Invitees : Redeeming(j)'
      <3>1. CASE redeeming' = [redeeming EXCEPT ![i] = None]
        BY <2>1, <3>1 DEF RowsTypeOK, Redeeming
      <3>2. CASE invitation[redeeming[i].code] # None /\ redeeming' = [redeeming EXCEPT ![i] = slot]
        BY <2>1, <2>2, <3>2 DEF RowsTypeOK, Redeeming
      <3> QED BY <2>1, <3>1, <3>2
    <2> QED BY <2>3, <2>4, <2>5
  <1>4. ASSUME NEW i \in Invitees, Redeem(i) PROVE InvitationsInv'
    <2>0. PICK a \in Guests, code \in InvitationCodes :
              a = redeeming[i].account /\ code = redeeming[i].code
      BY <1>4 DEF Redeem, Redeeming
    <2>1. /\ invitation[code] # None /\ invitation[code] \in Invitation
          /\ redeeming' = [redeeming EXCEPT ![i] = None]
      BY <1>4, <2>0 DEF Redeem, Redeeming, RowsTypeOK
    <2>2. \/ UNCHANGED <<invitation, redemption>>
          \/ /\ ~Exhausted(code) /\ <<code, a>> \notin redemption
             /\ invitation' = [invitation EXCEPT ![code].used = @ + 1]
             /\ redemption' = redemption \cup {<<code, a>>}
      BY <1>4, <2>0 DEF Redeem, Countable
    <2>3. CASE UNCHANGED <<invitation, redemption>>
      <3>1. RowsTypeOK'
        BY <2>1, <2>3 DEF RowsTypeOK
      <3>2. \A c \in InvitationCodes : Counted(c)'
        BY <2>3, CountsAreKept
      <3>3. \A j \in Invitees : Redeeming(j)'
        BY <2>1, <2>3 DEF RowsTypeOK, Redeeming
      <3> QED BY <3>1, <3>2, <3>3
    <2>4. CASE /\ ~Exhausted(code) /\ <<code, a>> \notin redemption
               /\ invitation' = [invitation EXCEPT ![code].used = @ + 1]
               /\ redemption' = redemption \cup {<<code, a>>}
      <3> DEFINE row == [invitation[code] EXCEPT !.used = @ + 1]
      <3>1. /\ row \in Invitation /\ row # None
            /\ row.used = invitation[code].used + 1 /\ row.maxUses = invitation[code].maxUses
            /\ row.used <= row.maxUses
        BY <2>1, <2>4, InvitationsAssumption DEF Exhausted, Invitation
      <3>2. invitation' = [invitation EXCEPT ![code] = row]
        BY <2>4
      <3>3. /\ IsFiniteSet(Redeemers(code)')
            /\ Cardinality(Redeemers(code)') = Cardinality(Redeemers(code)) + 1
            /\ \A other \in InvitationCodes : other # code => Redeemers(other)' = Redeemers(other)
        <4>1. IsFiniteSet(Redeemers(code))
          BY <2>1 DEF Counted
        <4> QED BY <2>1, <2>4, <4>1, OneMoreRedeemer
      <3> HIDE DEF row
      <3>4. RowsTypeOK'
        BY <2>1, <3>1, <3>2 DEF RowsTypeOK
      <3>5. ASSUME NEW c \in InvitationCodes PROVE Counted(c)'
        <4>1. CASE c = code
          <5>1. invitation'[code] = row
            BY <2>1, <3>2 DEF RowsTypeOK
          <5>2. invitation[code].used = Cardinality(Redeemers(code))
            BY <2>1 DEF Counted
          <5>3. Redeemers(c)' = Redeemers(code)'
            BY <4>1 DEF Redeemers
          <5> QED BY <3>1, <3>3, <4>1, <5>1, <5>2, <5>3 DEF Counted
        <4>2. CASE c # code
          BY <2>1, <3>2, <3>3, <4>2 DEF RowsTypeOK, Counted
        <4> QED BY <4>1, <4>2
      <3>6. \A j \in Invitees : Redeeming(j)'
        BY <2>1, <3>1, <3>2 DEF RowsTypeOK, Redeeming
      <3> QED BY <3>4, <3>5, <3>6
    <2> QED BY <2>2, <2>3, <2>4
  <1>5. ASSUME NEW code \in InvitationCodes, ExpireInvitation(code) PROVE InvitationsInv'
    <2> DEFINE row == [invitation[code] EXCEPT !.expired = TRUE]
    <2>1. /\ invitation[code] # None /\ invitation' = [invitation EXCEPT ![code] = row]
          /\ UNCHANGED <<redemption, redeeming>>
      BY <1>5 DEF ExpireInvitation
    <2>2. /\ row \in Invitation /\ row # None
          /\ row.used = invitation[code].used /\ row.maxUses = invitation[code].maxUses
      BY <2>1, InvitationsAssumption DEF RowsTypeOK, Invitation
    <2> HIDE DEF row
    <2>3. RowsTypeOK'
      BY <2>1, <2>2 DEF RowsTypeOK
    <2>4. \A c \in InvitationCodes : Counted(c)'
      BY <2>1, <2>2, CountsAreKept DEF RowsTypeOK
    <2>5. \A i \in Invitees : Redeeming(i)'
      BY <2>1, <2>2 DEF RowsTypeOK, Redeeming
    <2> QED BY <2>3, <2>4, <2>5
  <1>6. CASE UNCHANGED invitationVars
    BY <1>6 DEF invitationVars, RowsTypeOK, Counted, Redeemers, Redeeming
  <1> QED BY <1>1, <1>2, <1>3, <1>4, <1>5, <1>6 DEF InvitationsNext

-----------------------------------------------------------------------------

\* The uses of a code are the accounts that redeemed it, and never more than it
\* was made for, however many redeem it at once (the guarded increment of
\* redeemInvitationCode), for any numbers of accounts, codes and uses.
THEOREM InvitationsAreCounted == InvitationsSpec => []UsesAreCounted
  <1>1. InvitationsInv => UsesAreCounted
    BY DEF InvitationsInv, Counted, Redeemers, UsesAreCounted
  <1> QED BY <1>1, InvitationsInitInv, InvitationsNextInv, PTL DEF InvitationsSpec

-----------------------------------------------------------------------------
(* The connection to GitHub.                                                *)

\* A call of the routes of GitHub.
GithubCall == [account : Members, login : Logins \cup {None}, pc : {"find", "look", "clear", "upload"},
               other : Members \cup {None}, found : Logins \cup {None}]

\* It knows the account it disconnects, then the row it deletes; and the row it
\* writes if it is to write one.
Knows(q) ==
    /\ q.pc \in {"find", "upload"} => q.login \in Logins
    /\ q.pc \in {"look", "clear"} => q.other \in Members
    /\ q.pc = "clear" => q.found \in Logins

GithubTypeOK ==
    /\ linked \in [Members -> Logins \cup {None}]
    /\ username \in [Members -> Logins \cup {None}]
    /\ githubUser \in [Logins -> Members \cup {None}]
    /\ linking \in [Linkers -> GithubCall \cup {None}]
    /\ \A i \in Linkers : linking[i] # None => Knows(linking[i])

GithubInv == GithubTypeOK /\ ConnectionIsWhole

LEMMA GithubInitInv == GithubInit => GithubInv
  BY DEF GithubInit, GithubInv, GithubTypeOK, ConnectionIsWhole, NameGoesWithLink, TokenIsOfOwner

\* A step of a call that touches no row keeps the rest.
LEMMA TurnKeeps ==
    ASSUME GithubInv, NEW i \in Linkers, NEW next, linking' = [linking EXCEPT ![i] = next],
           UNCHANGED <<linked, username, githubUser, stale>>,
           next = None \/ (next \in GithubCall /\ Knows(next))
    PROVE  GithubInv'
  <1>1. GithubTypeOK'
    BY DEF GithubInv, GithubTypeOK
  <1>2. ConnectionIsWhole'
    BY DEF GithubInv, ConnectionIsWhole, NameGoesWithLink, TokenIsOfOwner
  <1> QED BY <1>1, <1>2 DEF GithubInv

LEMMA ClearLinkKeeps == ASSUME GithubInv, NEW i \in Linkers, ClearLink(i) PROVE GithubInv'
  <1>1. PICK m \in Members, g \in Logins : m = linking[i].other /\ g = linking[i].found
    BY DEF GithubInv, GithubTypeOK, Knows, ClearLink, Linking
  <1>2. linking' = [linking EXCEPT ![i] = None] \/ linking' = [linking EXCEPT ![i] = Resumed(i)]
    BY DEF ClearLink, Turns
  <1>3. linking' \in [Linkers -> GithubCall \cup {None}] /\ \A j \in Linkers : linking'[j] # None => Knows(linking'[j])
    BY <1>2 DEF GithubInv, GithubTypeOK, Knows, GithubCall, Resumed, ClearLink, Linking
  <1>4. CASE githubUser[g] = None
    BY <1>1, <1>2, <1>3, <1>4 DEF ClearLink, GithubInv, GithubTypeOK, ConnectionIsWhole, NameGoesWithLink, TokenIsOfOwner
  <1>5. CASE githubUser[g] # None
    <2>1. /\ username' = [username EXCEPT ![m] = None]
          /\ githubUser' = [githubUser EXCEPT ![g] = None]
          /\ linked' = [x \in Members |-> IF x = m \/ linked[x] = g THEN None ELSE linked[x]]
          /\ stale' = stale \cup {x \in {g} : LinkedTo(g) \ {m} # {}}
      BY <1>1, <1>5 DEF ClearLink, Unnamed
    <2>2. GithubTypeOK'
      BY <1>2, <1>3, <2>1 DEF GithubInv, GithubTypeOK
    <2>3. NameGoesWithLink'
      <3> SUFFICES ASSUME NEW x \in Members PROVE username'[x] = linked'[x] \/ username'[x] \in stale'
        BY DEF NameGoesWithLink
      <3>1. username[x] = linked[x] \/ username[x] \in stale
        BY DEF GithubInv, ConnectionIsWhole, NameGoesWithLink
      <3>2. CASE x = m
        BY <2>1, <3>2 DEF GithubInv, GithubTypeOK
      <3>3. CASE x # m /\ linked[x] = g
        BY <2>1, <3>1, <3>3 DEF GithubInv, GithubTypeOK, LinkedTo
      <3>4. CASE x # m /\ linked[x] # g
        BY <2>1, <3>1, <3>4 DEF GithubInv, GithubTypeOK
      <3> QED BY <3>2, <3>3, <3>4
    <2>4. TokenIsOfOwner'
      BY <2>1 DEF GithubInv, GithubTypeOK, ConnectionIsWhole, TokenIsOfOwner
    <2> QED BY <2>2, <2>3, <2>4 DEF GithubInv, ConnectionIsWhole
  <1> QED BY <1>4, <1>5

LEMMA PersistKeeps == ASSUME GithubInv, NEW i \in Linkers, Persist(i) PROVE GithubInv'
  <1>1. PICK m \in Members, g \in Logins : m = linking[i].account /\ g = linking[i].login
    BY DEF GithubInv, GithubTypeOK, Knows, GithubCall, Persist, Linking
  <1>2. linking' = [linking EXCEPT ![i] = None]
    BY DEF Persist, Turns
  <1>3. linking' \in [Linkers -> GithubCall \cup {None}] /\ \A j \in Linkers : linking'[j] # None => Knows(linking'[j])
    BY <1>2 DEF GithubInv, GithubTypeOK, Knows, GithubCall
  <1>4. CASE ~((LinkedTo(g) \cup NamedAs(g)) \subseteq {m})
    <2>1. UNCHANGED <<linked, username, githubUser, stale>>
      BY <1>1, <1>4 DEF Persist, RolledBack
    <2> QED BY <1>2, <2>1, TurnKeeps
  <1>5. CASE (LinkedTo(g) \cup NamedAs(g)) \subseteq {m}
    <2>1. /\ githubUser' = [githubUser EXCEPT ![g] = m] /\ linked' = [linked EXCEPT ![m] = g]
          /\ username' = [username EXCEPT ![m] = g] /\ UNCHANGED stale
      BY <1>1, <1>5 DEF Persist
    <2>2. \A x \in Members \ {m} : linked[x] # g
      BY <1>5 DEF LinkedTo
    <2>3. GithubTypeOK'
      BY <1>2, <1>3, <2>1 DEF GithubInv, GithubTypeOK
    <2>4. ConnectionIsWhole'
      BY <2>1, <2>2 DEF GithubInv, GithubTypeOK, ConnectionIsWhole, NameGoesWithLink, TokenIsOfOwner
    <2> QED BY <2>3, <2>4 DEF GithubInv
  <1> QED BY <1>4, <1>5

LEMMA GithubNextInv == GithubInv /\ [GithubNext]_githubVars => GithubInv'
  <1> SUFFICES ASSUME GithubInv, [GithubNext]_githubVars PROVE GithubInv'
    OBVIOUS
  <1>1. ASSUME NEW i \in Linkers, NEW m \in Members, Disconnect(i, m) PROVE GithubInv'
    BY <1>1, TurnKeeps DEF Disconnect, Turns, Knows, GithubCall
  <1>2. ASSUME NEW i \in Linkers, NEW m \in Members, NEW g \in Logins, Connect(i, m, g) PROVE GithubInv'
    BY <1>2, TurnKeeps DEF Connect, Turns, Knows, GithubCall
  <1>3. ASSUME NEW i \in Linkers, FindConnection(i) PROVE GithubInv'
    <2>1. linking[i] \in GithubCall /\ linking[i].pc = "find" /\ Knows(linking[i])
      BY <1>3 DEF FindConnection, Linking, GithubInv, GithubTypeOK
    <2>2. /\ UNCHANGED <<linked, username, githubUser, stale>>
          /\ \/ linking' = [linking EXCEPT ![i] = [linking[i] EXCEPT !.pc = "upload"]]
             \/ \E m \in Members : linking' = [linking EXCEPT ![i] = [linking[i] EXCEPT !.pc = "look", !.other = m]]
      BY <1>3 DEF FindConnection, LinkedTo, Turns
    <2> QED BY <2>1, <2>2, TurnKeeps DEF Knows, GithubCall
  <1>4. ASSUME NEW i \in Linkers, FindLink(i) PROVE GithubInv'
    <2>1. linking[i] \in GithubCall /\ linking[i].pc = "look" /\ Knows(linking[i])
      BY <1>4 DEF FindLink, Linking, GithubInv, GithubTypeOK
    <2>2. /\ UNCHANGED <<linked, username, githubUser, stale>>
          /\ \/ linking' = [linking EXCEPT ![i] = Resumed(i)]
             \/ \E g \in Logins : linking' = [linking EXCEPT ![i] = [linking[i] EXCEPT !.pc = "clear", !.found = g]]
      BY <1>4, <2>1 DEF FindLink, Turns, Knows, GithubInv, GithubTypeOK
    <2>3. Resumed(i) = None \/ (Resumed(i) \in GithubCall /\ Knows(Resumed(i)))
      BY <2>1 DEF Resumed, Knows, GithubCall
    <2>4. ASSUME NEW g \in Logins
          PROVE  LET q == [linking[i] EXCEPT !.pc = "clear", !.found = g] IN q \in GithubCall /\ Knows(q)
      BY <2>1 DEF Knows, GithubCall
    <2> QED BY <2>2, <2>3, <2>4, TurnKeeps
  <1>5. ASSUME NEW i \in Linkers, GiveUp(i) PROVE GithubInv'
    BY <1>5, TurnKeeps DEF GiveUp, Turns
  <1>6. CASE UNCHANGED githubVars
    BY <1>6 DEF githubVars, GithubInv, GithubTypeOK, ConnectionIsWhole, NameGoesWithLink, TokenIsOfOwner
  <1> QED BY <1>1, <1>2, <1>3, <1>4, <1>5, <1>6, ClearLinkKeeps, PersistKeeps DEF GithubNext

\* However connections and disconnections of several members interleave (the
\* routes of connectRoutes and githubDisconnect), names and tokens go with the
\* link, for any members, GitHub users and calls at once.
THEOREM ConnectionsAreWhole == GithubSpec => []ConnectionIsWhole
  <1>1. GithubInv => ConnectionIsWhole
    BY DEF GithubInv
  <1> QED BY <1>1, GithubInitInv, GithubNextInv, PTL DEF GithubSpec

-----------------------------------------------------------------------------
(* Friendships.                                                             *)

Relations == [Pairs -> Standing \cup {None}]
LastNotice(rows, p) == IF rows[p] = None THEN None ELSE rows[p].lastNotifiedAt
Stands(rows, p) == IF rows[p] = None THEN "none" ELSE rows[p].status
Back(p) == <<p[2], p[1]>>

\* What two users are to each other, and who asked.
Mutual(rows, p) ==
    /\ Stands(rows, p) = "friend" => Stands(rows, Back(p)) = "friend"
    /\ Stands(rows, p) \in {"requested", "friend"} => p \in asked
    /\ ~(Stands(rows, p) = "requested" /\ Stands(rows, Back(p)) = "requested")
    /\ Stands(rows, p) = "pending" => Stands(rows, Back(p)) \in {"requested", "rejected"}

\* An item is not newer than the last notice its relationship remembers.
Remembered(u, item) ==
    /\ <<u, item.about>> \in Pairs /\ item.createdAt \in Nat
    /\ LastNotice(relation, <<u, item.about>>) \in Nat
    /\ item.createdAt <= LastNotice(relation, <<u, item.about>>)

FriendsInv ==
    /\ relation \in Relations /\ hour \in Nat /\ feed = [u \in Users |-> feed[u]]
    /\ \A p \in Pairs : Mutual(relation, p)
    /\ \A u \in Users : \A item \in feed[u] : Remembered(u, item)

LEMMA PairParts ==
  /\ \A p \in Pairs : p[1] \in Users /\ p[2] \in Users /\ p[1] # p[2] /\ p = <<p[1], p[2]>>
                      /\ Back(p) \in Pairs /\ Back(p) # p /\ Back(Back(p)) = p
  /\ \A a, b \in Users : a # b => <<a, b>> \in Pairs
  BY DEF Pairs, Back

\* relationshipSet changes one row, and not what it remembers.
LEMMA SetOneRow ==
  ASSUME NEW rows \in Relations, NEW p \in Pairs,
         NEW s \in Standings
  PROVE  /\ Set(rows, p[1], p[2], s) \in Relations
         /\ Stands(Set(rows, p[1], p[2], s), p) = s
         /\ \A q \in Pairs : /\ q # p => Stands(Set(rows, p[1], p[2], s), q) = Stands(rows, q)
                             /\ LastNotice(Set(rows, p[1], p[2], s), q) = LastNotice(rows, q)
  <1> DEFINE row == [status |-> s, lastNotifiedAt |-> LastNotice(rows, p)]
             new == [rows EXCEPT ![p] = row]
  <1>1. p = <<p[1], p[2]>>
    BY PairParts
  <1>2. Set(rows, p[1], p[2], s) = new
    BY <1>1 DEF Set, LastNotice
  <1>3. LastNotice(rows, p) \in Nat \cup {None}
    BY DEF LastNotice, Relations, Standing, Standings
  <1>4. row \in Standing /\ row # None /\ row.status = s /\ row.lastNotifiedAt = LastNotice(rows, p)
    BY <1>3, FriendsAssumption DEF Standing, Standings
  <1> HIDE DEF row
  <1>5. new \in Relations /\ new[p] = row /\ \A q \in Pairs : q # p => new[q] = rows[q]
    BY <1>4 DEF Relations
  <1> HIDE DEF new
  <1> QED BY <1>2, <1>4, <1>5 DEF Stands, LastNotice

LEMMA SetRowBack ==
  ASSUME NEW rows \in Relations, NEW p \in Pairs,
         NEW s \in Standings
  PROVE  /\ Set(rows, p[2], p[1], s) \in Relations
         /\ Stands(Set(rows, p[2], p[1], s), Back(p)) = s
         /\ \A q \in Pairs : /\ q # Back(p) => Stands(Set(rows, p[2], p[1], s), q) = Stands(rows, q)
                             /\ LastNotice(Set(rows, p[2], p[1], s), q) = LastNotice(rows, q)
  <1>1. PICK b \in Pairs : b = Back(p)
    BY PairParts
  <1>2. b[1] = p[2] /\ b[2] = p[1]
    BY <1>1 DEF Back
  <1>3. /\ Set(rows, b[1], b[2], s) \in Relations
        /\ Stands(Set(rows, b[1], b[2], s), b) = s
        /\ \A q \in Pairs : /\ q # b => Stands(Set(rows, b[1], b[2], s), q) = Stands(rows, q)
                            /\ LastNotice(Set(rows, b[1], b[2], s), q) = LastNotice(rows, q)
    BY <1>1, SetOneRow
  <1> QED BY <1>1, <1>2, <1>3

\* feedPost tells a user of another one once in a while, and leaves the standings alone.
LEMMA PostIsRare ==
  ASSUME FriendsInv, NEW rows \in Relations, NEW kind, NEW receivers \in SUBSET Pairs,
         \A q \in Pairs : LastNotice(rows, q) = LastNotice(relation, q),
         Post(rows, kind, receivers), hour' = hour
  PROVE  /\ relation' \in Relations /\ \A q \in Pairs : Stands(relation', q) = Stands(rows, q)
         /\ feed' = [u \in Users |-> feed'[u]]
         /\ \A u \in Users : \A item \in feed'[u] : Remembered(u, item)'
         /\ OneNoticeADay
  <1> DEFINE tell == {p \in receivers : ShouldNotify(rows, p[1], p[2])}
  <1>1. relation' = [p \in Pairs |-> IF p \in tell THEN [rows[p] EXCEPT !.lastNotifiedAt = hour] ELSE rows[p]]
    BY DEF Post
  <1>2. /\ feed' = [u \in Users |-> feed'[u]]
        /\ \A u \in Users : \A item \in feed'[u] :
             item \in feed[u] \/ (item.createdAt = hour /\ <<u, item.about>> \in tell)
    <2>1. feed' = [u \in Users |->
               {item \in feed[u] : ~\E p \in {p \in tell : p[1] = u} : item.kind = kind /\ item.about = p[2]}
               \cup {[kind |-> kind, about |-> p[2], counter |-> feedSeq'[u], createdAt |-> hour] : p \in {p \in tell : p[1] = u}}]
      BY DEF Post
    <2> HIDE DEF tell
    <2>2. \A p \in tell : p = <<p[1], p[2]>>
      BY PairParts DEF tell
    <2> QED BY <2>1, <2>2
  <1>3. \A p \in tell : /\ p \in Pairs /\ rows[p] # None
                        /\ rows[p].lastNotifiedAt = None \/ hour - rows[p].lastNotifiedAt > Cooldown
    BY PairParts DEF ShouldNotify
  <1> HIDE DEF tell
  <1>4. hour \in Nat
    BY DEF FriendsInv
  <1>5. ASSUME NEW q \in Pairs
        PROVE  /\ relation'[q] \in Standing \cup {None} /\ Stands(relation', q) = Stands(rows, q)
               /\ q \in tell => LastNotice(relation', q) = hour
               /\ q \notin tell => LastNotice(relation', q) = LastNotice(relation, q)
    <2>1. CASE q \in tell
      <3> DEFINE row == [rows[q] EXCEPT !.lastNotifiedAt = hour]
      <3>1. rows[q] # None /\ rows[q] \in Standing
        BY <1>3, <2>1 DEF Relations
      <3>2. row \in Standing /\ row.status = rows[q].status /\ row.lastNotifiedAt = hour
        BY <1>4, <3>1 DEF Standing
      <3>3. relation'[q] = row
        BY <1>1, <2>1
      <3> HIDE DEF row
      <3>4. row # None
        BY <3>2, FriendsAssumption
      <3> QED BY <2>1, <3>1, <3>2, <3>3, <3>4 DEF Stands, LastNotice
    <2>2. CASE q \notin tell
      BY <1>1, <2>2 DEF Stands, LastNotice, Relations
    <2> QED BY <2>1, <2>2
  <1>6. relation' \in Relations
    BY <1>1, <1>5 DEF Relations
  <1>7. ASSUME NEW u \in Users, NEW old \in feed[u]
        PROVE  /\ <<u, old.about>> \in Pairs /\ old.createdAt \in Nat
               /\ LastNotice(relation, <<u, old.about>>) \in Nat
               /\ old.createdAt <= LastNotice(relation, <<u, old.about>>)
               /\ <<u, old.about>> \in tell => hour - LastNotice(relation, <<u, old.about>>) > Cooldown
    <2>1. Remembered(u, old)
      BY DEF FriendsInv
    <2> DEFINE q == <<u, old.about>>
    <2>2. q \in Pairs /\ LastNotice(rows, q) = LastNotice(relation, q) /\ LastNotice(relation, q) \in Nat
      BY <2>1 DEF Remembered
    <2>3. q \in tell => hour - LastNotice(relation, q) > Cooldown
      BY <1>3, <2>2, FriendsAssumption DEF LastNotice
    <2> QED BY <2>1, <2>3 DEF Remembered
  <1>8. ASSUME NEW u \in Users, NEW item \in feed'[u] PROVE Remembered(u, item)'
    <2>1. CASE item \in feed[u]
      BY <1>4, <1>5, <1>7, <2>1, FriendsAssumption DEF Remembered
    <2>2. CASE item.createdAt = hour /\ <<u, item.about>> \in tell
      BY <1>3, <1>4, <1>5, <2>2 DEF Remembered
    <2> QED BY <1>2, <2>1, <2>2
  <1>9. OneNoticeADay
    <2> SUFFICES ASSUME NEW u \in Users, NEW new \in feed'[u] \ feed[u], NEW old \in feed[u], new.about = old.about
                 PROVE  new.createdAt - old.createdAt > Cooldown
      BY DEF OneNoticeADay
    <2>1. new.createdAt = hour /\ <<u, old.about>> \in tell
      BY <1>2
    <2> QED BY <1>4, <1>7, <2>1, FriendsAssumption
  <1> QED BY <1>2, <1>5, <1>6, <1>8, <1>9

LEMMA FriendsInitInv == FriendsInit => FriendsInv
  BY DEF FriendsInit, FriendsInv, Relations, Mutual, Stands

LEMMA FriendsNextInv == FriendsInv /\ [FriendsNext]_friendVars => FriendsInv' /\ OneNoticeADay
  <1> SUFFICES ASSUME FriendsInv, [FriendsNext]_friendVars PROVE FriendsInv' /\ OneNoticeADay
    OBVIOUS
  <1>1. relation \in Relations /\ hour \in Nat /\ \A p \in Pairs : Mutual(relation, p)
    BY DEF FriendsInv
  <1>2. \A p \in Pairs : Status(relation, p[1], p[2]) = Stands(relation, p)
                         /\ Status(relation, p[2], p[1]) = Stands(relation, Back(p))
    BY PairParts DEF Status, Stands, Back
  \* Only the feed and what it remembers, and two standings change.
  <1>3. ASSUME NEW p \in Pairs, NEW rows \in Relations, NEW kind, NEW receivers \in SUBSET Pairs,
               Post(rows, kind, receivers), hour' = hour, asked \subseteq asked',
               \A q \in Pairs : LastNotice(rows, q) = LastNotice(relation, q),
               \A q \in Pairs \ {p, Back(p)} : Stands(rows, q) = Stands(relation, q),
               Stands(rows, p) \in {"requested", "friend"} => p \in asked',
               Stands(rows, Back(p)) \in {"requested", "friend"} => Back(p) \in asked',
               \/ Stands(rows, p) = "friend" /\ Stands(rows, Back(p)) = "friend"
               \/ Stands(rows, p) = "requested" /\ Stands(rows, Back(p)) \in {"none", "pending", "rejected"}
        PROVE  FriendsInv' /\ OneNoticeADay
    <2>1. /\ relation' \in Relations /\ \A q \in Pairs : Stands(relation', q) = Stands(rows, q)
          /\ feed' = [u \in Users |-> feed'[u]] /\ \A u \in Users : \A item \in feed'[u] : Remembered(u, item)'
          /\ OneNoticeADay
      BY <1>3, PostIsRare
    <2>2. ASSUME NEW q \in Pairs PROVE Mutual(relation, q)'
      <3>1. Mutual(relation, q) /\ Back(q) \in Pairs /\ Back(Back(q)) = q /\ Back(p) \in Pairs /\ Back(Back(p)) = p
        BY <1>1, PairParts
      <3>2. CASE q = p
        BY <1>3, <2>1, <3>1, <3>2 DEF Mutual
      <3>3. CASE q = Back(p)
        BY <1>3, <2>1, <3>1, <3>3 DEF Mutual
      <3>4. CASE q \notin {p, Back(p)}
        <4>1. Back(q) \notin {p, Back(p)}
          BY <3>1, <3>4
        <4> QED BY <1>3, <2>1, <3>1, <3>4, <4>1 DEF Mutual
      <3> QED BY <3>2, <3>3, <3>4
    <2>3. \A q \in Pairs : Mutual(relation, q)'
      BY <2>2
    <2> QED BY <1>1, <1>3, <2>1, <2>3 DEF FriendsInv
  <1>4. ASSUME NEW p \in Pairs, Accept(p[1], p[2]) PROVE FriendsInv' /\ OneNoticeADay
    <2> DEFINE half == Set(relation, p[2], p[1], "friend")
               rows == Set(half, p[1], p[2], "friend")
    <2>1. Back(p) \in Pairs /\ Back(p) # p /\ Back(p)[1] = p[2] /\ Back(p)[2] = p[1] /\ p = <<p[1], p[2]>>
      BY PairParts DEF Back
    <2>2. half \in Relations /\ Stands(half, Back(p)) = "friend"
          /\ \A q \in Pairs : /\ q # Back(p) => Stands(half, q) = Stands(relation, q)
                              /\ LastNotice(half, q) = LastNotice(relation, q)
      BY <1>1, SetRowBack DEF Standings
    <2>3. /\ Stands(relation, Back(p)) = "requested" /\ asked' = asked \cup {p} /\ hour' = hour
          /\ Post(rows, "friend_accepted", {p, Back(p)})
      BY <1>2, <1>4, <2>1 DEF Accept, Wants, Back
    <2> HIDE DEF half
    <2>4. rows \in Relations /\ Stands(rows, p) = "friend"
          /\ \A q \in Pairs : /\ q # p => Stands(rows, q) = Stands(half, q)
                              /\ LastNotice(rows, q) = LastNotice(half, q)
      BY <2>2, SetOneRow DEF Standings
    <2> HIDE DEF rows
    <2>5. Back(p) \in asked
      BY <1>1, <2>1, <2>3 DEF Mutual
    <2> QED BY <1>3, <2>1, <2>2, <2>3, <2>4, <2>5
  <1>5. ASSUME NEW p \in Pairs, AskFriend(p[1], p[2]) PROVE FriendsInv' /\ OneNoticeADay
    <2> DEFINE mine == Set(relation, p[1], p[2], "requested")
               rows == IF Status(mine, p[2], p[1]) = "none" THEN Set(mine, p[2], p[1], "pending") ELSE mine
    <2>1. Back(p) \in Pairs /\ Back(p) # p /\ Back(p)[1] = p[2] /\ Back(p)[2] = p[1] /\ p = <<p[1], p[2]>>
      BY PairParts DEF Back
    <2>2. mine \in Relations /\ Stands(mine, p) = "requested"
          /\ \A q \in Pairs : /\ q # p => Stands(mine, q) = Stands(relation, q)
                              /\ LastNotice(mine, q) = LastNotice(relation, q)
      BY <1>1, SetOneRow DEF Standings
    <2>3. /\ Stands(relation, Back(p)) # "requested" /\ Stands(relation, p) \in {"none", "rejected"}
          /\ asked' = asked \cup {p} /\ hour' = hour /\ Post(rows, "friend_request", {Back(p)})
      BY <1>2, <1>5, <2>1 DEF AskFriend, MayAsk, Wants, Back
    <2>4. Stands(relation, Back(p)) \in {"none", "pending", "rejected"}
      <3>1. Stands(relation, Back(p)) \in {"none", "requested", "pending", "friend", "rejected"}
        BY <1>1, <2>1 DEF Stands, Relations, Standing, Standings
      <3>2. Stands(relation, Back(p)) # "friend"
        BY <1>1, <2>1, <2>3, PairParts DEF Mutual
      <3> QED BY <2>3, <3>1, <3>2
    <2>5. Status(mine, p[2], p[1]) = Stands(mine, Back(p))
      BY DEF Status, Stands, Back
    <2> HIDE DEF mine
    <2>6. /\ rows \in Relations /\ Stands(rows, p) = "requested" /\ Stands(rows, Back(p)) \in {"none", "pending", "rejected"}
          /\ \A q \in Pairs : /\ q \notin {p, Back(p)} => Stands(rows, q) = Stands(relation, q)
                              /\ LastNotice(rows, q) = LastNotice(relation, q)
      <3>1. CASE Stands(mine, Back(p)) = "none"
        <4>1. rows = Set(mine, p[2], p[1], "pending")
          BY <2>5, <3>1
        <4> HIDE DEF rows
        <4>2. /\ rows \in Relations /\ Stands(rows, Back(p)) = "pending"
              /\ \A q \in Pairs : /\ q # Back(p) => Stands(rows, q) = Stands(mine, q)
                                  /\ LastNotice(rows, q) = LastNotice(mine, q)
          BY <2>2, <4>1, SetRowBack DEF Standings
        <4> QED BY <2>1, <2>2, <4>2
      <3>2. CASE Stands(mine, Back(p)) # "none"
        <4>1. rows = mine
          BY <2>5, <3>2
        <4> QED BY <2>1, <2>2, <2>4, <4>1
      <3> QED BY <3>1, <3>2
    <2> HIDE DEF rows
    <2> QED BY <1>3, <2>1, <2>3, <2>6
  <1>6. ASSUME NEW p \in Pairs, AskAgain(p[1], p[2]) PROVE FriendsInv' /\ OneNoticeADay
    <2>1. asked \subseteq asked' /\ UNCHANGED <<relation, feed, hour>>
      BY <1>6 DEF AskAgain
    <2> QED BY <2>1 DEF FriendsInv, Mutual, Remembered, OneNoticeADay
  <1>7. ASSUME NEW p \in Pairs, RemoveFriend(p[1], p[2]) PROVE FriendsInv' /\ OneNoticeADay
    <2>1. Back(p) \in Pairs /\ Back(p) # p /\ Back(p)[1] = p[2] /\ Back(p)[2] = p[1] /\ p = <<p[1], p[2]>>
          /\ Back(Back(p)) = p
      BY PairParts DEF Back
    <2>2. Mutual(relation, p) /\ Mutual(relation, Back(p)) /\ UNCHANGED <<feed, hour, asked>>
      BY <1>1, <1>7, <2>1 DEF RemoveFriend
    <2>3. ASSUME relation' \in Relations,
                 \A q \in Pairs : /\ q \notin {p, Back(p)} => Stands(relation', q) = Stands(relation, q)
                                  /\ LastNotice(relation', q) = LastNotice(relation, q),
                 Stands(relation', p) \in {"requested", "friend"} => p \in asked,
                 Stands(relation', Back(p)) \in {"requested", "friend"} => Back(p) \in asked,
                 \/ Stands(relation', p) = "rejected" /\ Stands(relation', Back(p)) \notin {"friend"}
                 \/ Stands(relation', p) = "pending" /\ Stands(relation', Back(p)) \in {"requested", "rejected"}
                 \/ Stands(relation', p) = "none" /\ Stands(relation', Back(p)) \in {"none", "rejected"}
          PROVE  FriendsInv' /\ OneNoticeADay
      <3>1. ASSUME NEW q \in Pairs PROVE Mutual(relation, q)'
        <4>1. Mutual(relation, q) /\ Back(q) \in Pairs /\ Back(Back(q)) = q
          BY <1>1, PairParts
        <4>2. CASE q = p
          BY <2>1, <2>2, <2>3, <4>2 DEF Mutual
        <4>3. CASE q = Back(p)
          BY <2>1, <2>2, <2>3, <4>3 DEF Mutual
        <4>4. CASE q \notin {p, Back(p)}
          <5>1. Back(q) \notin {p, Back(p)}
            BY <2>1, <4>1, <4>4
          <5> QED BY <2>2, <2>3, <4>1, <4>4, <5>1 DEF Mutual
        <4> QED BY <4>2, <4>3, <4>4
      <3> QED BY <1>1, <2>2, <2>3, <3>1 DEF FriendsInv, Remembered, OneNoticeADay
    <2>4. CASE Stands(relation, p) = "requested" /\ relation' = Set(relation, p[1], p[2], "rejected")
      <3>1. relation' \in Relations /\ Stands(relation', p) = "rejected"
            /\ \A q \in Pairs : /\ q # p => Stands(relation', q) = Stands(relation, q)
                                /\ LastNotice(relation', q) = LastNotice(relation, q)
        BY <1>1, <2>4, SetOneRow DEF Standings
      <3> QED BY <2>1, <2>2, <2>3, <2>4, <3>1 DEF Mutual
    <2>5. CASE Stands(relation, p) = "friend" /\ relation' = Unfriended(p[1], p[2])
      <3> DEFINE half == Set(relation, p[2], p[1], "requested")
      <3>1. half \in Relations /\ Stands(half, Back(p)) = "requested"
            /\ \A q \in Pairs : /\ q # Back(p) => Stands(half, q) = Stands(relation, q)
                                /\ LastNotice(half, q) = LastNotice(relation, q)
        BY <1>1, SetRowBack DEF Standings
      <3>2. relation' = Set(half, p[1], p[2], "pending")
        BY <2>5 DEF Unfriended
      <3> HIDE DEF half
      <3>3. relation' \in Relations /\ Stands(relation', p) = "pending"
            /\ \A q \in Pairs : /\ q # p => Stands(relation', q) = Stands(half, q)
                                /\ LastNotice(relation', q) = LastNotice(half, q)
        BY <3>1, <3>2, SetOneRow DEF Standings
      <3> QED BY <2>1, <2>2, <2>3, <2>5, <3>1, <3>3 DEF Mutual
    <2>6. CASE Stands(relation, p) = "pending" /\ relation' = TurnedDown(p[1], p[2])
      <3> DEFINE mine == Set(relation, p[1], p[2], "none")
      <3>1. mine \in Relations /\ Stands(mine, p) = "none"
            /\ \A q \in Pairs : /\ q # p => Stands(mine, q) = Stands(relation, q)
                                /\ LastNotice(mine, q) = LastNotice(relation, q)
        BY <1>1, SetOneRow DEF Standings
      <3>2. relation' = IF Stands(relation, Back(p)) = "rejected" THEN mine ELSE Set(mine, p[2], p[1], "none")
        BY <1>2, <2>6 DEF TurnedDown
      <3> HIDE DEF mine
      <3>3. CASE Stands(relation, Back(p)) = "rejected"
        BY <2>1, <2>3, <3>1, <3>2, <3>3
      <3>4. CASE Stands(relation, Back(p)) # "rejected"
        <4>1. relation' = Set(mine, p[2], p[1], "none")
          BY <3>2, <3>4
        <4>2. relation' \in Relations /\ Stands(relation', Back(p)) = "none"
              /\ \A q \in Pairs : /\ q # Back(p) => Stands(relation', q) = Stands(mine, q)
                                  /\ LastNotice(relation', q) = LastNotice(mine, q)
          BY <3>1, <4>1, SetRowBack DEF Standings
        <4> QED BY <2>1, <2>3, <3>1, <4>2
      <3> QED BY <3>3, <3>4
    <2> QED BY <1>2, <1>7, <2>4, <2>5, <2>6 DEF RemoveFriend
  <1>8. CASE HourPasses
    <2>1. hour' \in Nat /\ UNCHANGED <<relation, feed, asked>>
      BY <1>1, <1>8 DEF HourPasses
    <2> QED BY <2>1 DEF FriendsInv, Mutual, Remembered, OneNoticeADay
  <1>9. CASE UNCHANGED friendVars
    BY <1>9 DEF friendVars, FriendsInv, Mutual, Remembered, OneNoticeADay
  <1> QED BY <1>4, <1>5, <1>6, <1>7, <1>8, <1>9 DEF FriendsNext

\* What two users ask, accept, withdraw and end (friendAdd, friendRemove), for any
\* users: friendship is mutual, nobody waits for an answer nobody owes, and no
\* more than one notice goes out a day.
THEOREM FriendshipsAlwaysMutual == FriendsSpec => FriendshipIsMutual
  <1>1. FriendsInv => FriendsAreMutual /\ PendingHasARequest
    <2> SUFFICES ASSUME FriendsInv, NEW p \in Pairs
                 PROVE  LET mine == Status(relation, p[1], p[2])  theirs == Status(relation, p[2], p[1])
                        IN  /\ mine = "friend" => theirs = "friend" /\ p \in asked
                            /\ ~(mine = "requested" /\ theirs = "requested")
                            /\ mine = "pending" => theirs \in {"requested", "rejected"}
      BY DEF FriendsAreMutual, PendingHasARequest
    <2>1. Mutual(relation, p) /\ p = <<p[1], p[2]>>
      BY PairParts DEF FriendsInv
    <2>2. Status(relation, p[1], p[2]) = Stands(relation, p) /\ Status(relation, p[2], p[1]) = Stands(relation, Back(p))
      BY <2>1 DEF Status, Stands, Back
    <2> QED BY <2>1, <2>2 DEF Mutual
  <1>2. FriendsInv /\ [FriendsNext]_friendVars
        => FriendsInv' /\ [FriendsAreMutual' /\ PendingHasARequest' /\ OneNoticeADay]_friendVars
    BY <1>1, FriendsNextInv, PTL
  <1> QED BY <1>2, FriendsInitInv, PTL DEF FriendsSpec, FriendshipIsMutual

=============================================================================
