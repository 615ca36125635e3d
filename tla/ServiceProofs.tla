--------------------------- MODULE ServiceProofs ----------------------------
(***************************************************************************)
(* The services of a team: its messages, the token cache, the key-value    *)
(* store, genomes, trials, the Weixin bridge and the task routes are sound *)
(* for any number of members, requests and messages.  Each section proves  *)
(* an inductive invariant of one component and what it implies; that of    *)
(* the task routes rests on what is proved of the board.                   *)
(***************************************************************************)
EXTENDS TeamMail, TokenCache, KvStore, Genomes, Trials, WeixinBridge, TaskRoutes,
        FiniteSetTheorems, WellFoundedInduction, TLAPS

-----------------------------------------------------------------------------
(* Sets of numbers.                                                         *)

\* The least and the greatest of them.
LEMMA LeastOf ==
  ASSUME NEW S \in SUBSET Nat, S # {}
  PROVE  \E n \in S : \A k \in S : n <= k
  <1>1. IsWellFoundedOn(OpToRel(<, Nat), Nat)
    BY NatLessThanWellFounded
  <1>2. PICK n \in S : \A k \in S : <<k, n>> \notin OpToRel(<, Nat)
    BY <1>1, WFMin
  <1>3. \A k \in S : ~(k < n)
    BY <1>2 DEF OpToRel
  <1> QED BY <1>3

LEMMA GreatestOf ==
  ASSUME NEW S \in SUBSET Nat, S # {}, NEW B \in Nat, \A n \in S : n <= B
  PROVE  \E n \in S : \A k \in S : k <= n
  <1> DEFINE D == {B - n : n \in S}
  <1>1. D \in SUBSET Nat /\ D # {}
    <2>1. \A n \in S : n \in Nat /\ B - n \in Nat
      OBVIOUS
    <2> QED BY <2>1
  <1>2. PICK d \in D : \A k \in D : d <= k
    BY <1>1, LeastOf
  <1>3. PICK n \in S : d = B - n
    OBVIOUS
  <1>4. \A k \in S : B - n <= B - k
    BY <1>2, <1>3
  <1>5. \A k \in S : k <= n
    BY <1>4
  <1> QED BY <1>5

-----------------------------------------------------------------------------
(* Posts to a team.                                                         *)

PostsTypeOK ==
    /\ post \in [Posts -> Posted \cup {None}]
    /\ notified = [s \in Seats |-> notified[s]]
    /\ roster \subseteq Seats /\ gone \subseteq Seats /\ stored \subseteq Posts

\* Whoever was there all the time is on the roster, and a post whose sender was
\* gone when it came is refused for good.
PostIsOnItsWay(p) ==
    /\ here[p] \subseteq roster
    /\ post[p] # None /\ post[p].at = "done" => \A s \in here[p] : Row(s, Chief) => p \in notified[s]
    /\ p \in dead => post[p] # None /\ post[p].at = "refused"
    /\ p \in stored => post[p] # None /\ post[p].at \in {"tell", "done"}

PostsInv ==
    PostsTypeOK /\ here = [x \in Posts |-> here[x]] /\ dead \subseteq Posts /\ \A p \in Posts : PostIsOnItsWay(p)

LEMMA PostsInitInv == PostsInit => PostsInv
  BY DEF PostsInit, PostsInv, PostsTypeOK, PostIsOnItsWay

LEMMA PostMoves ==
  ASSUME PostsInv, NEW p \in Posts, NEW q \in Posted,
         post' = [post EXCEPT ![p] = q], UNCHANGED <<roster, gone>>,
         here' = [x \in Posts |-> here'[x]], dead' \subseteq Posts, stored' \subseteq Posts,
         notified' = [s \in Seats |-> notified'[s]],
         \A r \in Posts \ {p} : (here'[r] = here[r]) /\ (r \in dead' => r \in dead) /\ (r \in stored' => r \in stored),
         \A s \in Seats : notified[s] \subseteq notified'[s],
         PostIsOnItsWay(p)'
  PROVE  PostsInv'
  <1>1. PostsTypeOK'
    BY DEF PostsInv, PostsTypeOK
  <1>2. ASSUME NEW r \in Posts, r # p PROVE PostIsOnItsWay(r)'
    BY <1>2 DEF PostsInv, PostsTypeOK, PostIsOnItsWay, Row
  <1> QED BY <1>1, <1>2 DEF PostsInv

LEMMA PostsNextInv == PostsInv /\ [PostsNext]_postVars => PostsInv'
  <1> SUFFICES ASSUME PostsInv, [PostsNext]_postVars PROVE PostsInv'
    OBVIOUS
  <1> USE PostsAssumption
  <1>1. ASSUME NEW p \in Posts, NEW a \in Posters, NEW s \in Seats \cup {None}, ReceivePost(p, a, s) PROVE PostsInv'
    <2> DEFINE q == [account |-> a, sender |-> s, at |-> IF MaySpeak(a, s) THEN "store" ELSE "refused"]
    <2>1. /\ post[p] = None /\ post' = [post EXCEPT ![p] = q] /\ here' = [here EXCEPT ![p] = roster]
          /\ UNCHANGED <<roster, gone, stored, notified>>
          /\ dead' = IF s \in gone /\ Row(s, a) THEN dead \cup {p} ELSE dead
      BY <1>1 DEF ReceivePost
    <2>2. q \in Posted /\ q.at # "done" /\ q # None
      BY DEF Posted
    <2>3. s \in gone /\ Row(s, a) => q.at = "refused"
      BY DEF MaySpeak, PostsInv, PostsTypeOK
    <2> HIDE DEF q
    <2>4. p \notin stored /\ p \notin dead
      BY <2>1 DEF PostsInv, PostIsOnItsWay
    <2>5. PostIsOnItsWay(p)'
      BY <2>1, <2>2, <2>3, <2>4 DEF PostIsOnItsWay, PostsInv, PostsTypeOK
    <2> QED BY <2>1, <2>2, <2>5, PostMoves DEF PostsInv, PostsTypeOK
  <1>2. ASSUME NEW p \in Posts, PersistPost(p) PROVE PostsInv'
    <2>1. /\ post[p] # None /\ post[p].at = "store" /\ post' = [post EXCEPT ![p].at = "tell"]
          /\ stored' = stored \cup {p} /\ UNCHANGED <<roster, gone, notified, here, dead>>
      BY <1>2 DEF PersistPost
    <2> DEFINE q == [post[p] EXCEPT !.at = "tell"]
    <2>2. q \in Posted /\ q.at = "tell" /\ q # None /\ post' = [post EXCEPT ![p] = q]
      BY <2>1 DEF Posted, PostsInv, PostsTypeOK
    <2> HIDE DEF q
    <2>3. PostIsOnItsWay(p)'
      BY <2>1, <2>2 DEF PostIsOnItsWay, PostsInv, PostsTypeOK
    <2> QED BY <2>1, <2>2, <2>3, PostMoves DEF PostsInv, PostsTypeOK
  <1>3. ASSUME NEW p \in Posts, Broadcast(p) PROVE PostsInv'
    <2> DEFINE told == Recipients({m \in Seats : Row(m, Chief)},
                                  [m \in Seats |-> [scope |-> "session", subject |-> m]],
                                  [type |-> "specific-sessions", subjects |-> Audience], None)
    <2>1. /\ post[p] # None /\ post[p].at = "tell" /\ post' = [post EXCEPT ![p].at = "done"]
          /\ notified' = [s \in Seats |-> notified[s] \cup IF s \in told THEN {p} ELSE {}]
          /\ UNCHANGED <<roster, gone, stored, here, dead>>
      BY <1>3 DEF Broadcast
    <2>2. \A s \in Seats : Row(s, Chief) /\ s \in roster => s \in told
      BY DEF Recipients, ShouldSend, Audience
    <2> HIDE DEF told
    <2> DEFINE q == [post[p] EXCEPT !.at = "done"]
    <2>3. q \in Posted /\ q.at = "done" /\ q # None /\ post' = [post EXCEPT ![p] = q]
      BY <2>1 DEF Posted, PostsInv, PostsTypeOK
    <2> HIDE DEF q
    <2>4. PostIsOnItsWay(p)'
      BY <2>1, <2>2, <2>3 DEF PostIsOnItsWay, PostsInv, PostsTypeOK, Row
    <2> QED BY <2>1, <2>3, <2>4, PostMoves DEF PostsInv, PostsTypeOK
  <1>4. ASSUME NEW s \in Seats, Recruit(s) PROVE PostsInv'
    BY <1>4 DEF Recruit, PostsInv, PostsTypeOK, PostIsOnItsWay, Row
  <1>5. ASSUME NEW s \in Seats, Dismiss(s) PROVE PostsInv'
    BY <1>5 DEF Dismiss, PostsInv, PostsTypeOK, PostIsOnItsWay, Row
  <1>6. ASSUME NEW s \in Seats, Vanish(s) PROVE PostsInv'
    BY <1>6 DEF Vanish, PostsInv, PostsTypeOK, PostIsOnItsWay, Row
  <1>7. CASE UNCHANGED postVars
    BY <1>7 DEF postVars, PostsInv, PostsTypeOK, PostIsOnItsWay, Row
  <1> QED BY <1>1, <1>2, <1>3, <1>4, <1>5, <1>6, <1>7 DEF PostsNext

\* Whatever happens to the roster and to sessions while posts are on their way, the
\* owner's sessions on the roster are told, and a deleted session is silent.
LEMMA PostsArrive == PostsSpec => [](RosterIsTold /\ DeletedAreSilent)
  <1>1. PostsInv => RosterIsTold /\ DeletedAreSilent
    BY DEF PostsInv, PostIsOnItsWay, RosterIsTold, DeletedAreSilent
  <1> QED BY <1>1, PostsInitInv, PostsNextInv, PTL DEF PostsSpec

-----------------------------------------------------------------------------
(* Pages.                                                                   *)

\* The newest of the messages P that pass.
Newest(P) == {k \in P : Cardinality({j \in P : j > k}) < Limit}

LEMMA NewestIsClosed ==
  ASSUME NEW P \in SUBSET Nat, IsFiniteSet(P), NEW m \in Newest(P), NEW k \in P, k >= m
  PROVE  k \in Newest(P)
  <1> DEFINE K == {j \in P : j > k}
             M == {j \in P : j > m}
  <1>0. m \in P /\ m \in Nat /\ k \in Nat /\ \A j \in P : j \in Nat
    BY DEF Newest
  <1>j. \A j \in P : j > k => j > m
    BY <1>0
  <1>1. K \subseteq M /\ M \subseteq P
    BY <1>j
  <1>2. IsFiniteSet(M)
    BY <1>1, FS_Subset
  <1>3. Cardinality(K) <= Cardinality(M) /\ Cardinality(K) \in Nat /\ Cardinality(M) \in Nat
    BY <1>1, <1>2, FS_Subset, FS_CardinalityType
  <1>4. Cardinality(M) < Limit
    BY DEF Newest
  <1>5. Cardinality(K) < Limit
    BY <1>3, <1>4, ChatAssumption
  <1> QED BY <1>5 DEF Newest

\* A page that is not full holds everything.
LEMMA ShortPageIsAll ==
  ASSUME NEW B \in Nat, NEW P \in SUBSET (0..B), Cardinality(Newest(P)) < Limit
  PROVE  Newest(P) = P
  <1>0. IsFiniteSet(P) /\ P \in SUBSET Nat /\ Newest(P) \subseteq P
    <2>1. IsFiniteSet(0..B)
      BY FS_Interval
    <2>2. IsFiniteSet(P)
      BY <2>1, FS_Subset
    <2>3. Newest(P) \subseteq P
      BY DEF Newest
    <2> QED BY <2>2, <2>3
  <1>1. SUFFICES ASSUME P \ Newest(P) # {} PROVE FALSE
    BY <1>0
  <1>2. PICK R : R = P \ Newest(P)
    OBVIOUS
  <1>r. R \in SUBSET Nat /\ R # {} /\ \A n \in R : n <= B
    <2>1. \A n \in P : n \in Nat /\ n <= B
      OBVIOUS
    <2>2. \A n \in R : n \in P
      BY <1>2
    <2> QED BY <1>1, <1>2, <2>1, <2>2
  <1>g. \E k \in R : \A n \in R : n <= k
    BY <1>r, GreatestOf
  <1>3. PICK k \in P \ Newest(P) : \A n \in P \ Newest(P) : n <= k
    BY <1>2, <1>g
  <1> DEFINE K == {j \in P : j > k}
  <1>4. \A j \in K : j \in Newest(P)
    BY <1>0, <1>3
  <1>5. K \subseteq Newest(P) /\ IsFiniteSet(Newest(P))
    BY <1>0, <1>4, FS_Subset
  <1>6. Cardinality(K) <= Cardinality(Newest(P)) /\ Cardinality(K) \in Nat /\ Cardinality(Newest(P)) \in Nat
    BY <1>5, FS_Subset, FS_CardinalityType
  <1>7. Cardinality(K) < Limit
    BY <1>6, ChatAssumption
  <1> QED BY <1>3, <1>7 DEF Newest

LEMMA PageHasItsLimit ==
  ASSUME NEW B \in Nat, NEW P \in SUBSET (0..B)
  PROVE  Cardinality(Newest(P)) <= Limit /\ Cardinality(Newest(P)) \in Nat
  <1>0. IsFiniteSet(P) /\ P \in SUBSET Nat /\ Newest(P) \subseteq P
    <2>1. IsFiniteSet(0..B)
      BY FS_Interval
    <2>2. IsFiniteSet(P)
      BY <2>1, FS_Subset
    <2>3. Newest(P) \subseteq P
      BY DEF Newest
    <2> QED BY <2>2, <2>3
  <1>1. IsFiniteSet(Newest(P))
    BY <1>0, FS_Subset
  <1>2. CASE Newest(P) = {}
    BY <1>2, FS_EmptySet, ChatAssumption
  <1>3. CASE Newest(P) # {}
    <2>1. PICK m \in Newest(P) : \A k \in Newest(P) : m <= k
      BY <1>0, <1>3, LeastOf
    <2> DEFINE M == {j \in P : j > m}
    <2>2. Cardinality(M) < Limit /\ IsFiniteSet(M)
      BY <1>0, FS_Subset DEF Newest
    <2>n. m \in Nat /\ \A j \in P : j \in Nat
      BY <1>0, <2>1
    <2>3. \A j \in Newest(P) : j \in P /\ (j = m \/ j > m)
      BY <1>0, <2>1, <2>n
    <2>m. ~(m > m)
      BY <2>n
    <2>4. Newest(P) \subseteq M \cup {m} /\ m \notin M
      BY <2>3, <2>m
    <2>5. IsFiniteSet(M \cup {m}) /\ Cardinality(M \cup {m}) = Cardinality(M) + 1
      BY <2>2, <2>4, FS_AddElement
    <2>6. Cardinality(Newest(P)) <= Cardinality(M \cup {m})
      BY <2>4, <2>5, FS_Subset
    <2>7. Cardinality(M) \in Nat /\ Cardinality(Newest(P)) \in Nat
      BY <1>1, <2>2, FS_CardinalityType
    <2> QED BY <2>2, <2>5, <2>6, <2>7, ChatAssumption
  <1> QED BY <1>2, <1>3

-----------------------------------------------------------------------------
(* Readers.                                                                 *)

Filters == {None} \cup [includeGlobal : BOOLEAN]
Newer == 2 * MaxStamp + 1

ChatTypeOK ==
    /\ DOMAIN chat \subseteq 0..Newer /\ chat = [k \in DOMAIN chat |-> chat[k]]
    /\ walk \in [Readers -> Walk \cup {None}]

\* How far a reader got.
WalkOK(w) ==
    /\ w.start \subseteq {k \in DOMAIN chat : InScope(chat[k], w.filter)}
    /\ w.got \subseteq DOMAIN chat
    /\ w.more /\ w.cursor = None => w.got = {}
    /\ w.more /\ w.cursor # None =>
          /\ w.cursor \in DOMAIN chat
          /\ \A k \in w.start : k >= w.cursor => k \in w.got
          /\ \A k \in w.got : k < w.cursor => Stamp(k) = Stamp(w.cursor)
    /\ ~w.more => (w.cut \/ w.start \subseteq w.got) /\ (w.filter = None /\ AllReadable => ~w.cut)
    /\ \A k \in w.twice : \E j \in DOMAIN chat : j # k /\ Stamp(j) = Stamp(k)

ChatInv == ChatTypeOK /\ \A r \in Readers : walk[r] # None => WalkOK(walk[r])

LEMMA ChatInitInv == ChatInit => ChatInv
  <1> SUFFICES ASSUME ChatInit PROVE ChatInv
    OBVIOUS
  <1> USE ChatAssumption
  <1>1. PICK keys \in SUBSET {Key(stamp, id) : stamp \in 0..MaxStamp, id \in 0..1} : chat \in [keys -> Scopes]
    BY DEF ChatInit
  <1>2. \A stamp \in 0..MaxStamp, id \in 0..1 : Key(stamp, id) \in 0..Newer
    BY DEF Key, Newer
  <1>3. keys \subseteq 0..Newer
    BY <1>2
  <1>4. ChatTypeOK
    <2>1. DOMAIN chat = keys /\ chat = [k \in DOMAIN chat |-> chat[k]]
      BY <1>1
    <2>2. walk \in [Readers -> Walk \cup {None}]
      BY DEF ChatInit
    <2> QED BY <1>3, <2>1, <2>2 DEF ChatTypeOK
  <1>5. \A r \in Readers : walk[r] = None
    BY DEF ChatInit
  <1> QED BY <1>4, <1>5 DEF ChatInv

LEMMA ReadStep ==
  ASSUME ChatInv, NEW r \in Readers, NEW w \in Walk, walk' = [walk EXCEPT ![r] = w], UNCHANGED chat, WalkOK(w)
  PROVE  ChatInv'
  <1> USE ChatAssumption
  <1>1. ChatTypeOK'
    BY DEF ChatInv, ChatTypeOK
  <1>2. ASSUME NEW s \in Readers PROVE (walk[s] # None => WalkOK(walk[s]))'
    <2>1. PICK v : v = walk'[s]
      OBVIOUS
    <2>2. v # None => WalkOK(v)
      BY <2>1 DEF ChatInv, ChatTypeOK
    <2>3. v # None => WalkOK(v)'
      BY <2>2 DEF WalkOK, AllReadable
    <2> QED BY <2>1, <2>3 DEF WalkOK
  <1> QED BY <1>1, <1>2 DEF ChatInv

LEMMA StorePreserves ==
  ASSUME ChatInv, NEW scope \in Scopes, NEW id \in 0..1, StorePost(scope, id)
  PROVE  ChatInv'
  <1> USE ChatAssumption
  <1>1. PICK n \in 0..Newer : n = Key(MaxStamp, id)
    BY DEF Key, Newer
  <1>2. n \notin DOMAIN chat /\ UNCHANGED walk
        /\ chat' = [k \in DOMAIN chat \cup {n} |-> IF k \in DOMAIN chat THEN chat[k] ELSE scope]
    BY <1>1 DEF StorePost
  <1>3. DOMAIN chat' = DOMAIN chat \cup {n} /\ \A k \in DOMAIN chat : chat'[k] = chat[k]
    BY <1>2
  <1>4. ChatTypeOK'
    BY <1>2, <1>3 DEF ChatInv, ChatTypeOK
  <1>5. ASSUME NEW s \in Readers PROVE (walk[s] # None => WalkOK(walk[s]))'
    <2>1. PICK v : v = walk[s]
      OBVIOUS
    <2>2. v # None => WalkOK(v)
      BY <2>1 DEF ChatInv
    <2>3. AllReadable' => AllReadable
      BY <1>3 DEF AllReadable
    <2>4. v # None => WalkOK(v)'
      BY <1>3, <2>2, <2>3 DEF WalkOK
    <2> QED BY <1>2, <2>1, <2>4 DEF WalkOK
  <1> QED BY <1>4, <1>5 DEF ChatInv

LEMMA ReaderPreserves ==
  ASSUME ChatInv, NEW r \in Readers, NEW filter \in Filters, StartReading(r, filter)
  PROVE  ChatInv'
  <1> USE ChatAssumption
  <1>1. PICK w : w = [filter |-> filter, cursor |-> None, got |-> {}, twice |-> {},
                      start |-> {k \in DOMAIN chat : InScope(chat[k], filter)}, cut |-> FALSE, more |-> TRUE]
    OBVIOUS
  <1>2. w \in Walk
    BY <1>1 DEF Walk, Filters, ChatInv, ChatTypeOK
  <1>3. WalkOK(w)
    BY <1>1 DEF WalkOK
  <1> QED BY <1>1, <1>2, <1>3, ReadStep DEF StartReading

LEMMA StampGrows == ASSUME NEW j \in Nat, NEW k \in Nat, j <= k PROVE Stamp(j) <= Stamp(k) /\ Stamp(j) \in Nat /\ Stamp(k) \in Nat
  BY DEF Stamp

\* Whole batches of one page each: a batch that is short has no more behind it.
LEMMA OneBatch == ASSUME NEW L \in Nat \ {0} PROVE (L + L - 1) \div L = 1
  <1>1. PICK q \in Int : q = (L + L - 1) \div L
    OBVIOUS
  <1>2. L * q <= L + L - 1 /\ L + L - 1 < L * q + L
    BY <1>1
  <1>3. CASE q >= 2
    <2>1. L * q >= L * 2
      BY <1>3
    <2> QED BY <1>2, <2>1
  <1>4. CASE q <= 0
    <2>1. L * q <= 0
      BY <1>4
    <2> QED BY <1>2, <2>1
  <1> QED BY <1>1, <1>3, <1>4

LEMMA ReadPreserves ==
  ASSUME ChatInv, NEW r \in Readers, ReadPage(r)
  PROVE  ChatInv'
  <1> USE ChatAssumption
  <1>1. PICK w \in Walk : w = walk[r] /\ w.more /\ WalkOK(w)
    BY DEF ReadPage, ChatInv, ChatTypeOK
  <1>2. PICK O : O = Older(w.cursor)
    OBVIOUS
  <1>3. PICK P : P = {k \in O : InScope(chat[k], w.filter)}
    OBVIOUS
  <1>4. PICK page : page = Page(w.cursor, w.filter)
    OBVIOUS
  <1>5. O \in SUBSET (0..Newer) /\ P \in SUBSET (0..Newer) /\ P \subseteq O /\ O \subseteq DOMAIN chat /\ Newer \in Nat
    BY <1>2, <1>3 DEF Older, ChatInv, ChatTypeOK, Newer
  <1>6. page = Newest(P)
    <2>1. \A k : {j \in O : j > k /\ InScope(chat[j], w.filter)} = {j \in P : j > k}
      BY <1>3
    <2>2. page = {k \in O : InScope(chat[k], w.filter) /\ Cardinality({j \in O : j > k /\ InScope(chat[j], w.filter)}) < Limit}
      BY <1>2, <1>4 DEF Page
    <2>3. page = {k \in O : InScope(chat[k], w.filter) /\ Cardinality({j \in P : j > k}) < Limit}
      BY <2>1, <2>2
    <2> QED BY <1>3, <2>3 DEF Newest
  <1>7. page \subseteq P /\ P \in SUBSET Nat /\ page \in SUBSET Nat /\ IsFiniteSet(P) /\ IsFiniteSet(O) /\ IsFiniteSet(page)
    <2>1. page \subseteq P
      BY <1>6 DEF Newest
    <2>2. IsFiniteSet(0..Newer)
      BY <1>5, FS_Interval
    <2>3. IsFiniteSet(O) /\ IsFiniteSet(P)
      BY <1>5, <2>2, FS_Subset
    <2>4. IsFiniteSet(page)
      BY <2>1, <2>3, FS_Subset
    <2>5. 0..Newer \subseteq Nat
      BY <1>5
    <2> QED BY <1>5, <2>1, <2>3, <2>4, <2>5
  <1>8. PICK more \in BOOLEAN : more <=> page # {} /\ ~RunsOut(w.cursor, page)
    OBVIOUS
  <1>9. PICK cut \in BOOLEAN : cut <=> CutShort(w.cursor, page, w.filter)
    OBVIOUS
  <1>10. PICK cursor : cursor = IF page = {} THEN None ELSE Cursor(page)
    OBVIOUS
  <1>11. page # {} => /\ cursor \in page /\ Min(page) \in page /\ Stamp(cursor) = Stamp(Min(page)) /\ Min(page) <= cursor
                      /\ \A k \in page : Min(page) <= k
                      /\ \A k \in page : k < cursor => Stamp(k) = Stamp(cursor)
    <2> SUFFICES ASSUME page # {}
                 PROVE  /\ cursor \in page /\ Min(page) \in page /\ Stamp(cursor) = Stamp(Min(page)) /\ Min(page) <= cursor
                        /\ \A k \in page : Min(page) <= k
                        /\ \A k \in page : k < cursor => Stamp(k) = Stamp(cursor)
      OBVIOUS
    <2>1. \E m \in page : \A k \in page : m <= k
      BY <1>7, LeastOf
    <2>2. PICK m \in page : m = Min(page) /\ \A k \in page : m <= k
      BY <2>1 DEF Min
    <2>3. PICK T : T = {k \in page : Stamp(k) = Stamp(m)}
      OBVIOUS
    <2>n. \A k \in page : k <= Newer
      BY <1>5, <1>7
    <2>4. T \in SUBSET Nat /\ T # {} /\ \A k \in T : k <= Newer
      BY <1>7, <2>2, <2>3, <2>n
    <2>5. \E k \in T : \A j \in T : j <= k
      BY <1>5, <2>4, GreatestOf
    <2>6. \E k \in T : \A j \in T : k >= j
      BY <2>4, <2>5
    <2>7. cursor = Max(T)
      BY <1>10, <2>2, <2>3 DEF Cursor
    <2>8. cursor \in T
      BY <2>6, <2>7 DEF Max
    <2>9. ASSUME NEW k \in page, k < cursor PROVE Stamp(k) = Stamp(cursor)
      <3>1. Stamp(m) <= Stamp(k) /\ Stamp(k) <= Stamp(cursor) /\ Stamp(cursor) = Stamp(m) /\ Stamp(m) \in Nat /\ Stamp(k) \in Nat
        BY <1>7, <2>2, <2>3, <2>8, <2>9, StampGrows
      <3> QED BY <3>1
    <2> QED BY <2>2, <2>3, <2>8, <2>9
  <1>12. \A k \in P : page # {} /\ k >= Min(page) => k \in page
    BY <1>6, <1>7, <1>11, NewestIsClosed
  <1>13. page = {} => P = {}
    <2>1. page = {} => Cardinality(page) < Limit
      BY FS_EmptySet
    <2> QED BY <1>5, <1>6, <2>1, ShortPageIsAll
  <1>14. ~more => cut \/ P \subseteq page
    <2>1. CASE page = {}
      BY <1>13, <2>1
    <2>2. CASE page # {} /\ RunsOut(w.cursor, page) /\ ~cut
      <3>1. \A k \in P : ~(k < Min(page))
        BY <1>2, <1>3, <1>9, <2>2 DEF CutShort
      <3>m. Min(page) \in Nat /\ \A k \in P : k \in Nat
        BY <1>7, <1>11, <2>2
      <3>2. \A k \in P : k >= Min(page)
        BY <3>1, <3>m
      <3> QED BY <1>12, <2>2, <3>2
    <2> QED BY <1>8, <2>1, <2>2
  <1>15. w.filter = None /\ AllReadable => ~cut
    <2> SUFFICES ASSUME w.filter = None, AllReadable, cut PROVE FALSE
      OBVIOUS
    <2>1. P = O
      BY <1>3, <1>5 DEF InScope, AllReadable
    <2>2. page # {} /\ RunsOut(w.cursor, page)
      BY <1>9 DEF CutShort
    <2>3. PICK k \in O : k < Min(page)
      BY <1>2, <1>9 DEF CutShort
    <2>4. k \notin page
      <3>1. Min(page) \in page /\ \A j \in page : Min(page) <= j
        BY <1>11, <2>2
      <3>2. Min(page) \in Nat /\ k \in Nat
        BY <1>7, <2>1, <3>1
      <3> QED BY <2>3, <3>1, <3>2
    <2>5. Cardinality(page) <= Limit /\ Cardinality(page) \in Nat
      BY <1>5, <1>6, PageHasItsLimit
    <2>6. ~(Cardinality(page) < Limit)
      BY <1>5, <1>6, <2>1, <2>4, ShortPageIsAll
    <2>7. Cardinality(page) = Limit
      BY <2>5, <2>6
    <2>8. {j \in O : j >= Min(page)} = page
      BY <1>7, <1>11, <1>12, <2>1, <2>2
    <2>o. {j \in Older(w.cursor) : j >= Min(page)} = page
      BY <1>2, <2>8
    <2>9. ((Limit + Limit - 1) \div Limit) * Limit > Cardinality(O)
      BY <1>2, <2>2, <2>6, <2>7, <2>o DEF RunsOut
    <2>b. (Limit + Limit - 1) \div Limit = 1
      BY OneBatch
    <2>10. ((Limit + Limit - 1) \div Limit) * Limit = Limit
      BY <2>b
    <2>11. Cardinality(page) <= Cardinality(O) /\ Cardinality(O) \in Nat
      BY <1>5, <1>7, FS_Subset, FS_CardinalityType
    <2> QED BY <2>7, <2>9, <2>10, <2>11
  <1>16. PICK v : v = [w EXCEPT !.got = @ \cup page, !.twice = @ \cup (w.got \cap page), !.cursor = cursor, !.more = more, !.cut = cut]
    OBVIOUS
  <1>17. /\ v \in Walk /\ v.filter = w.filter /\ v.start = w.start /\ v.got = w.got \cup page
         /\ v.twice = w.twice \cup (w.got \cap page) /\ v.cursor = cursor /\ v.more = more /\ v.cut = cut
    <2>1. cursor \in Nat \cup {None}
      BY <1>7, <1>10, <1>11
    <2> QED BY <1>7, <1>16, <2>1 DEF Walk
  <1>18. walk' = [walk EXCEPT ![r] = v] /\ UNCHANGED chat
    <2>1. more = (page # {} /\ ~RunsOut(w.cursor, page)) /\ cut = CutShort(w.cursor, page, w.filter)
      BY <1>8, <1>9 DEF RunsOut, CutShort
    <2> QED BY <1>1, <1>4, <1>10, <1>16, <2>1 DEF ReadPage
  <1>19. WalkOK(v)
    <2>1. page \subseteq DOMAIN chat /\ w.got \subseteq DOMAIN chat /\ DOMAIN chat \subseteq Nat
      BY <1>1, <1>5, <1>7 DEF WalkOK, ChatInv, ChatTypeOK
    <2>2. \A k \in w.start : w.cursor # None /\ k >= w.cursor => k \in w.got
      BY <1>1 DEF WalkOK
    <2>3. \A k \in w.start : k \in P \/ k \in w.got
      <3>1. ASSUME NEW k \in w.start, k \notin w.got PROVE k \in P
        <4>1. k \in DOMAIN chat /\ InScope(chat[k], w.filter)
          BY <1>1, <3>1 DEF WalkOK
        <4>2. w.cursor = None \/ k < w.cursor
          BY <1>1, <2>1, <2>2, <3>1, <4>1 DEF WalkOK
        <4> QED BY <1>2, <1>3, <4>1, <4>2 DEF Older
      <3> QED BY <3>1
    <2>4. v.more => cursor # None /\ page # {} /\ cursor \in page
      BY <1>8, <1>7, <1>11, <1>17
    <2>5. ASSUME v.more, NEW k \in v.start, k >= cursor PROVE k \in v.got
      <3>m. Min(page) \in Nat /\ cursor \in Nat /\ k \in Nat /\ Min(page) <= cursor
        BY <1>7, <1>11, <1>17, <2>1, <2>3, <2>4, <2>5
      <3>1. k >= Min(page)
        BY <2>5, <3>m
      <3> QED BY <1>12, <1>17, <2>3, <2>4, <2>5, <3>1
    <2>6. w.cursor # None => \A k \in O : k < w.cursor
      BY <1>2 DEF Older
    <2>7. ASSUME v.more, NEW k \in v.got, k < cursor PROVE Stamp(k) = Stamp(cursor)
      <3>1. CASE k \in page
        BY <1>11, <2>4, <2>7, <3>1
      <3>2. CASE k \in w.got
        <4>1. w.cursor # None /\ w.cursor \in DOMAIN chat
          BY <1>1, <3>2 DEF WalkOK
        <4>2. cursor < w.cursor /\ cursor \in Nat /\ w.cursor \in Nat /\ k \in Nat
          BY <1>5, <1>7, <2>1, <2>4, <2>6, <2>7, <3>2, <4>1
        <4>3. k < w.cursor
          BY <2>7, <4>2
        <4>4. Stamp(k) = Stamp(w.cursor)
          BY <1>1, <3>2, <4>1, <4>3 DEF WalkOK
        <4>5. Stamp(k) <= Stamp(cursor) /\ Stamp(cursor) <= Stamp(w.cursor) /\ Stamp(k) \in Nat /\ Stamp(cursor) \in Nat
          BY <2>7, <4>2, StampGrows
        <4> QED BY <4>4, <4>5
      <3> QED BY <1>17, <2>7, <3>1, <3>2
    <2>8. ASSUME NEW k \in v.twice PROVE \E j \in DOMAIN chat : j # k /\ Stamp(j) = Stamp(k)
      <3>1. CASE k \in w.twice
        BY <1>1, <3>1 DEF WalkOK
      <3>2. CASE k \in w.got \cap page
        <4>1. w.cursor # None /\ w.cursor \in DOMAIN chat
          BY <1>1, <3>2 DEF WalkOK
        <4>2. k < w.cursor /\ k \in Nat /\ w.cursor \in Nat
          BY <1>5, <1>7, <2>1, <2>6, <3>2, <4>1
        <4>3. Stamp(k) = Stamp(w.cursor)
          BY <1>1, <3>2, <4>1, <4>2 DEF WalkOK
        <4>4. k # w.cursor
          BY <4>2
        <4> QED BY <4>1, <4>3, <4>4
      <3> QED BY <1>17, <3>1, <3>2
    <2>9. ~v.more => (v.cut \/ v.start \subseteq v.got)
      BY <1>14, <1>17, <2>3
    <2>10. v.filter = None /\ AllReadable => ~v.cut
      BY <1>15, <1>17
    <2>11. v.more => v.cursor # None /\ v.cursor \in DOMAIN chat
      BY <1>17, <2>1, <2>4
    <2>12. v.start \subseteq {k \in DOMAIN chat : InScope(chat[k], v.filter)} /\ v.got \subseteq DOMAIN chat
      BY <1>1, <1>17, <2>1 DEF WalkOK
    <2> QED BY <1>17, <2>5, <2>7, <2>8, <2>9, <2>10, <2>11, <2>12 DEF WalkOK
  <1> QED BY <1>17, <1>18, <1>19, ReadStep

LEMMA ChatNextInv == ChatInv /\ [ChatNext]_chatVars => ChatInv'
  <1>1. ASSUME ChatInv, UNCHANGED chatVars PROVE ChatInv'
    BY <1>1 DEF chatVars, ChatInv, ChatTypeOK, WalkOK, AllReadable
  <1> QED BY <1>1, StorePreserves, ReaderPreserves, ReadPreserves DEF ChatNext, Filters

\* A reader that pages back misses nothing and sees twice only what a tie puts on
\* two pages.
LEMMA ReadersAreServed == ChatSpec => [](ReadersMissNothing /\ SeenTwiceOnlyInATie)
  <1>1. ChatInv => ReadersMissNothing /\ SeenTwiceOnlyInATie
    BY DEF ChatInv, WalkOK, ReadersMissNothing, SeenTwiceOnlyInATie
  <1> QED BY <1>1, ChatInitInv, ChatNextInv, PTL DEF ChatSpec

-----------------------------------------------------------------------------
(* The messages of a team.                                                  *)

\* However posts, changes of the roster, deletions of sessions and readers
\* interleave (teamMessagesRoutes), the messages of a team arrive, for any
\* sessions, posters, posts and readers and any number of messages of a page.
THEOREM MessagesAlwaysArrive == PostsSpec /\ ChatSpec => []TeamMessagesArrive
  <1>1. RosterIsTold /\ DeletedAreSilent /\ ReadersMissNothing /\ SeenTwiceOnlyInATie => TeamMessagesArrive
    BY DEF TeamMessagesArrive
  <1> QED BY <1>1, PostsArrive, ReadersAreServed, PTL

-----------------------------------------------------------------------------
(* The token cache.                                                         *)

\* No token was looked up later than now, and the two maps have one domain.
TokensInv ==
    /\ clock \in Nat /\ IsFiniteSet(Cached) /\ DOMAIN lastAccessed = Cached
    /\ \A t \in Cached : lastAccessed[t] \in Nat /\ lastAccessed[t] <= clock

\* When none is older than now, all were looked up now.
LEMMA NoneIsOlder ==
  ASSUME TokensInv, Oldest = {}
  PROVE  \A t \in Cached : lastAccessed[t] = clock
  <1> SUFFICES ASSUME NEW t \in Cached, lastAccessed[t] # clock PROVE FALSE
    OBVIOUS
  <1> DEFINE T == {lastAccessed[s] : s \in Cached}
  <1>1. T \subseteq Nat /\ T # {}
    BY DEF TokensInv
  <1>2. PICK x \in T : \A y \in T : x <= y
    BY <1>1, LeastOf
  <1>3. PICK s \in Cached : x = lastAccessed[s]
    BY <1>2
  <1>4. \A r \in Cached : lastAccessed[s] <= lastAccessed[r]
    BY <1>2, <1>3
  <1>5. lastAccessed[s] < clock
    BY <1>4 DEF TokensInv
  <1> QED BY <1>3, <1>4, <1>5 DEF Oldest

LEMMA PutIsFair ==
  ASSUME TokensInv, NEW t, Put(t)
  PROVE  TokensInv' /\ OverflowsOnlyInABurst /\ EvictsTheIdle
  <1>1. PICK went \in IF Full /\ Oldest # {} THEN {{o} : o \in Oldest} ELSE {{}} :
          /\ cachedAt' = [s \in (Cached \ went) \cup {t} |-> IF s = t THEN clock ELSE cachedAt[s]]
          /\ lastAccessed' = [s \in (Cached \ went) \cup {t} |-> IF s = t THEN clock ELSE lastAccessed[s]]
    BY DEF Put
  <1>2. Cached' = (Cached \ went) \cup {t} /\ DOMAIN cachedAt' = Cached' /\ clock' = clock
    BY <1>1 DEF Cached, Put
  <1>3. went = {} \/ \E o \in Oldest : went = {o}
    BY <1>1
  <1>4. IsFiniteSet(Cached) /\ Cardinality(Cached) \in Nat
    BY FS_CardinalityType DEF TokensInv
  <1>5. IsFiniteSet(Cached \ went) /\ IsFiniteSet((Cached \ went) \cup {t})
    BY <1>4, FS_Subset, FS_AddElement
  <1>6. TokensInv'
    BY <1>1, <1>2, <1>3, <1>5 DEF TokensInv, Cached
  <1>7. OverflowsOnlyInABurst
    <2> SUFFICES ASSUME Cardinality(Cached') > Cardinality(Cached), Cardinality(Cached') > MaxSize
                 PROVE  \A s \in Cached : lastAccessed[s] = clock
      BY DEF OverflowsOnlyInABurst
    <2>0. Cardinality(Cached') \in Nat
      BY <1>2, <1>5, FS_CardinalityType
    <2>1. went = {}
      <3> SUFFICES ASSUME NEW o \in Oldest, went = {o} PROVE FALSE
        BY <1>3
      <3>1. o \in Cached /\ Cardinality(Cached \ {o}) = Cardinality(Cached) - 1 /\ IsFiniteSet(Cached \ {o})
        BY <1>4, FS_RemoveElement DEF Oldest
      <3>2. Cardinality((Cached \ {o}) \cup {t}) <= Cardinality(Cached)
        <4>1. Cardinality(Cached \ {o}) \in Nat
          BY <3>1, FS_CardinalityType
        <4>2. \/ Cardinality((Cached \ {o}) \cup {t}) = Cardinality(Cached \ {o})
              \/ Cardinality((Cached \ {o}) \cup {t}) = Cardinality(Cached \ {o}) + 1
          BY <3>1, FS_AddElement
        <4> QED BY <1>4, <3>1, <4>1, <4>2
      <3>3. Cardinality(Cached') <= Cardinality(Cached)
        BY <1>2, <3>2
      <3> QED BY <1>4, <2>0, <3>3
    <2>2. Cached' = Cached \cup {t}
      BY <1>2, <2>1
    <2>3. Cardinality(Cached') <= Cardinality(Cached) + 1
      BY <1>4, <2>2, FS_AddElement
    <2>4. Full
      BY <1>2, <1>4, <1>5, <2>3, TokensAssumption, FS_CardinalityType DEF Full
    <2>5. Oldest = {}
      BY <1>1, <2>1, <2>4
    <2> QED BY <2>5, NoneIsOlder
  <1>8. EvictsTheIdle
    <2> SUFFICES ASSUME NEW o \in Cached \ DOMAIN cachedAt'
                 PROVE  /\ \A s \in Cached \cap DOMAIN cachedAt' : lastAccessed[o] <= lastAccessed'[s]
                        /\ Cached \ {o} \subseteq DOMAIN cachedAt'
      BY DEF EvictsTheIdle
    <2>1. went = {o} /\ \A s \in Cached : lastAccessed[o] <= lastAccessed[s]
      BY <1>2, <1>3 DEF Oldest
    <2>2. \A s \in Cached \cap DOMAIN cachedAt' : lastAccessed'[s] = lastAccessed[s] \/ lastAccessed'[s] = clock
      BY <1>1, <1>2
    <2> QED BY <1>2, <2>1, <2>2 DEF TokensInv
  <1> QED BY <1>6, <1>7, <1>8

LEMMA DropIsFair ==
  ASSUME TokensInv, NEW went, Drop(went)
  PROVE  TokensInv' /\ OverflowsOnlyInABurst /\ EvictsTheIdle
  <1>1. /\ cachedAt' = [t \in Cached \ went |-> cachedAt[t]]
        /\ lastAccessed' = [t \in Cached \ went |-> lastAccessed[t]] /\ UNCHANGED clock
    BY DEF Drop
  <1>2. Cached' = Cached \ went /\ DOMAIN cachedAt' = Cached \ went
    BY <1>1 DEF Cached
  <1>3. IsFiniteSet(Cached') /\ Cardinality(Cached') <= Cardinality(Cached)
        /\ Cardinality(Cached') \in Nat /\ Cardinality(Cached) \in Nat
    <2>1. Cached' \subseteq Cached
      BY <1>2
    <2> QED BY <2>1, FS_Subset, FS_CardinalityType DEF TokensInv
  <1>4. TokensInv'
    BY <1>1, <1>2, <1>3 DEF TokensInv
  <1>5. \A t \in DOMAIN cachedAt' : ~IsPut(t)
    BY <1>1, <1>2 DEF IsPut
  <1> QED BY <1>3, <1>4, <1>5 DEF OverflowsOnlyInABurst, EvictsTheIdle

\* Steps that keep the entries.
LEMMA KeepIsFair ==
  ASSUME TokensInv, UNCHANGED cachedAt
  PROVE  OverflowsOnlyInABurst /\ EvictsTheIdle
  <1>1. Cached' = Cached /\ Cardinality(Cached) \in Nat
    BY FS_CardinalityType DEF TokensInv, Cached
  <1> QED BY <1>1 DEF OverflowsOnlyInABurst, EvictsTheIdle, Cached

LEMMA TokensNextInv ==
  TokensInv /\ [TokensNext]_tokenVars => TokensInv' /\ [OverflowsOnlyInABurst /\ EvictsTheIdle]_tokenVars
  <1> SUFFICES ASSUME TokensInv, [TokensNext]_tokenVars
               PROVE  TokensInv' /\ [OverflowsOnlyInABurst /\ EvictsTheIdle]_tokenVars
    OBVIOUS
  <1>1. ASSUME NEW t \in Tokens, CreateToken(t) \/ VerifiedToken(t)
        PROVE  TokensInv' /\ OverflowsOnlyInABurst /\ EvictsTheIdle
    BY <1>1, PutIsFair DEF CreateToken, VerifiedToken
  <1>2. ASSUME NEW t \in Tokens, VerifyToken(t)
        PROVE  TokensInv' /\ OverflowsOnlyInABurst /\ EvictsTheIdle
    <2>1. /\ t \in Cached /\ Cached' = Cached
          /\ lastAccessed' = [lastAccessed EXCEPT ![t] = clock] /\ UNCHANGED <<cachedAt, clock>>
      BY <1>2 DEF VerifyToken, Cached
    <2>2. TokensInv'
      BY <2>1 DEF TokensInv
    <2> QED BY <2>1, <2>2, KeepIsFair
  <1>3. ASSUME NEW t \in Tokens, MissToken(t) \/ InvalidateToken(t)
        PROVE  TokensInv' /\ OverflowsOnlyInABurst /\ EvictsTheIdle
    BY <1>3, DropIsFair DEF MissToken, InvalidateToken
  <1>4. CASE CleanupExpiredTokens
    BY <1>4, DropIsFair DEF CleanupExpiredTokens
  <1>5. ASSUME UNCHANGED <<cachedAt, lastAccessed>>, clock' \in {clock, clock + 1}
        PROVE  TokensInv' /\ OverflowsOnlyInABurst /\ EvictsTheIdle
    <2>1. TokensInv'
      BY <1>5 DEF TokensInv, Cached
    <2> QED BY <1>5, <2>1, KeepIsFair
  <1>6. ASSUME NEW t \in Tokens, RefuseToken(t)
        PROVE  TokensInv' /\ OverflowsOnlyInABurst /\ EvictsTheIdle
    BY <1>5, <1>6 DEF RefuseToken
  <1>7. CASE Pass
    BY <1>5, <1>7 DEF Pass
  <1>8. CASE UNCHANGED tokenVars
    BY <1>5, <1>8 DEF tokenVars
  <1> QED BY <1>1, <1>2, <1>3, <1>4, <1>6, <1>7, <1>8 DEF TokensNext

\* The cache of tokens (evictLRUIfNeeded) grows beyond its size only in a burst
\* and never sends away a token that was used later than one that stays, for any
\* tokens, size and time to live.
THEOREM EvictionIsAlwaysFair == TokensSpec => EvictionIsFair
  <1>1. TokensInit => TokensInv
    BY FS_EmptySet DEF TokensInit, TokensInv, Cached
  <1> QED BY <1>1, TokensNextInv, PTL DEF TokensSpec, EvictionIsFair

-----------------------------------------------------------------------------
(* The key-value store.                                                     *)

Entry == [version : Int, value : Values \cup {None}]
Store == [EntryKeys -> Entry]

\* What is taken for a row r, which was last said to be one of said: an earlier
\* version of it, or one of those.
FitsIn(e, r, said) == e \in Entry /\ e.version <= r.version /\ (e.version = r.version => e \in said)

Fits(e, k) == FitsIn(e, kv[k], alike[k])

\* The request a client waits for.
Views == UNION {[keys -> Entry] : keys \in SUBSET EntryKeys}
Pending == [batch : Batches, expect : Views, seen : Views, retries : Nat]
TxFits(t) ==
    /\ t \in Pending
    /\ \A k \in KeysOf(t.batch) : Fits(t.expect[k], k) /\ Fits(t.seen[k], k)

KvInv ==
    /\ alike \in [EntryKeys -> SUBSET Entry] /\ \A k \in EntryKeys : kv[k] \in alike[k]
    /\ kv \in Store /\ known \in [Clients -> Store] /\ tx = [c \in Clients |-> tx[c]]
    /\ \A c \in Clients, k \in EntryKeys : Fits(known[c][k], k)
    /\ \A c \in Clients : tx[c] # None => TxFits(tx[c])
    /\ \A change \in changes : \A taken \in change : \A k \in DOMAIN taken \cap EntryKeys : Fits(taken[k], k)

LEMMA BatchKeys ==
  ASSUME NEW batch \in Batches
  PROVE  /\ KeysOf(batch) \subseteq EntryKeys
         /\ \A i \in DOMAIN batch : batch[i].key \in EntryKeys /\ batch[i].value \in Values \cup {None}
         /\ \A k \in KeysOf(batch) : \E i \in DOMAIN batch :
               batch[i].key = k /\ \A j \in DOMAIN batch : j > i => batch[j].key # k
  <1> DEFINE Mutations == [key : EntryKeys, value : Values \cup {None}]
  <1>1. CASE \E m \in Mutations : batch = <<m>>
    <2>1. PICK m \in Mutations : batch = <<m>>
      BY <1>1
    <2>2. DOMAIN batch = {1} /\ batch[1] = m
      BY <2>1
    <2> QED BY <2>1, <2>2 DEF KeysOf
  <1>2. CASE \E m, n \in Mutations : batch = <<m, n>>
    <2>1. PICK m \in Mutations, n \in Mutations : batch = <<m, n>>
      BY <1>2
    <2>2. DOMAIN batch = {1, 2} /\ batch[1] = m /\ batch[2] = n
      BY <2>1
    <2> QED BY <2>1, <2>2 DEF KeysOf
  <1> QED BY <1>1, <1>2 DEF Batches

LEMMA RestrictionFits ==
  ASSUME NEW rows \in Store, NEW batch \in Batches
  PROVE  Restriction(rows, batch) \in Views
  <1>1. KeysOf(batch) \in SUBSET EntryKeys
    BY BatchKeys
  <1>2. Restriction(rows, batch) \in [KeysOf(batch) -> Entry]
    BY <1>1 DEF Restriction, Store
  <1> QED BY <1>1, <1>2 DEF Views

\* Who hears of entries that fit the store knows entries that fit it.
LEMMA LearnFits ==
  ASSUME KvInv, NEW c \in Clients, NEW news, Learn(c, news), NEW rows \in Store, NEW said,
         \A d \in Clients, k \in EntryKeys : FitsIn(known[d][k], rows[k], said[k]),
         \A k \in DOMAIN news \cap EntryKeys : FitsIn(news[k], rows[k], said[k])
  PROVE  known' \in [Clients -> Store] /\ \A d \in Clients, k \in EntryKeys : FitsIn(known'[d][k], rows[k], said[k])
  <1> DEFINE view == [k \in EntryKeys |-> IF k \in DOMAIN news /\ news[k].version > known[c][k].version
                                          THEN news[k] ELSE known[c][k]]
  <1>1. known' = [known EXCEPT ![c] = view]
    BY DEF Learn
  <1>2. view \in Store /\ \A k \in EntryKeys : FitsIn(view[k], rows[k], said[k])
    BY DEF FitsIn, Store, KvInv
  <1> HIDE DEF view
  <1> QED BY <1>1, <1>2 DEF KvInv

LEMMA KvInitInv == KvInit => KvInv
  <1> SUFFICES ASSUME KvInit PROVE KvInv
    OBVIOUS
  <1>1. PICK row : /\ row \in {NoEntry, [version |-> 1, value |-> None]} \cup [version : {0}, value : Values]
                   /\ kv = [k \in EntryKeys |-> row]
    BY DEF KvInit
  <1>2. row \in Entry /\ NoEntry \in Entry /\ NoEntry.version = -1 /\ row.version >= -1
        /\ (row.version = -1 => row = NoEntry)
    BY <1>1 DEF Entry, NoEntry
  <1>3. FitsIn(NoEntry, row, {row})
    BY <1>2 DEF FitsIn, Entry
  <1> HIDE DEF NoEntry
  <1> QED BY <1>1, <1>2, <1>3 DEF KvInit, KvInv, Store, Fits

LEMMA KvNextInv == KvInv /\ [KvNext]_kvVars => KvInv' /\ NothingIsOverwrittenUnseen
  <1> SUFFICES ASSUME KvInv, [KvNext]_kvVars PROVE KvInv' /\ NothingIsOverwrittenUnseen
    OBVIOUS
  <1>1. ASSUME UNCHANGED kv PROVE NothingIsOverwrittenUnseen
    BY <1>1 DEF NothingIsOverwrittenUnseen
  <1>0. ASSUME UNCHANGED <<kv, alike>>, NEW e, NEW k, Fits(e, k) PROVE Fits(e, k)'
    BY <1>0 DEF Fits
  <1>2. \A c \in Clients : tx[c] # None => KeysOf(tx[c].batch) \subseteq EntryKeys
    BY BatchKeys DEF KvInv, TxFits, Pending
  \* The store and its notifications stay, and a request is over.
  <1>3. ASSUME NEW c \in Clients, UNCHANGED <<kv, changes, alike>>, tx' = [tx EXCEPT ![c] = None],
               known' \in [Clients -> Store], \A d \in Clients, k \in EntryKeys : Fits(known'[d][k], k)
        PROVE  KvInv' /\ NothingIsOverwrittenUnseen
    BY <1>1, <1>3 DEF KvInv, TxFits, Fits
  <1>4. ASSUME NEW c \in Clients, NEW keys \in SUBSET EntryKeys, Read(c, keys)
        PROVE  KvInv' /\ NothingIsOverwrittenUnseen
    <2> DEFINE news == [k \in {k \in keys : kv[k].value # None} |-> kv[k]]
    <2>1. Learn(c, news) /\ UNCHANGED <<kv, tx, changes, alike>>
      BY <1>4 DEF Read
    <2>2. kv \in Store /\ \A k \in DOMAIN news \cap EntryKeys : Fits(news[k], k)
      BY DEF KvInv, Store, Fits, FitsIn, Entry
    <2> HIDE DEF news
    <2>3. known' \in [Clients -> Store] /\ \A d \in Clients, k \in EntryKeys : Fits(known'[d][k], k)
      BY <2>1, <2>2, LearnFits DEF KvInv, Fits
    <2> QED BY <1>1, <2>1, <2>3 DEF KvInv, TxFits, Fits
  <1>5. ASSUME NEW c \in Clients, NEW batch \in Batches, Begin(c, batch)
        PROVE  KvInv' /\ NothingIsOverwrittenUnseen
    <2> DEFINE t == [batch |-> batch, expect |-> Restriction(known[c], batch),
                     seen |-> Restriction(kv, batch), retries |-> 0]
    <2>1. tx' = [tx EXCEPT ![c] = t] /\ UNCHANGED <<kv, known, changes, alike>>
      BY <1>5 DEF Begin
    <2>2. TxFits(t)
      <3>1. t \in Pending
        BY RestrictionFits DEF Pending, KvInv
      <3> QED BY <3>1, BatchKeys DEF TxFits, Restriction, KvInv, Store, Fits, FitsIn, Entry
    <2> HIDE DEF t
    <2>3. ASSUME NEW d \in Clients, tx'[d] # None PROVE TxFits(tx[d])'
      BY <2>1, <2>2, <2>3 DEF KvInv, TxFits, Fits
    <2> QED BY <1>1, <2>1, <2>3 DEF KvInv, Fits
  <1>6. ASSUME NEW c \in Clients, Mutate(c) PROVE KvInv' /\ NothingIsOverwrittenUnseen
    <2> DEFINE batch == tx[c].batch
               effect == Effect(c, batch)
               readings == Readings(c, batch)
    <2>1. /\ tx[c] # None /\ kv' = [k \in EntryKeys |-> IF k \in DOMAIN effect THEN effect[k] ELSE kv[k]]
          /\ alike' = [k \in EntryKeys |-> IF k \in DOMAIN effect THEN Said(c, batch, k) ELSE alike[k]]
          /\ changes' = changes \cup {readings} /\ tx' = [tx EXCEPT ![c] = None]
      BY <1>6 DEF Mutate
    <2>0. PICK reading \in readings : Learn(c, reading)
      BY <1>6 DEF Mutate
    <2>2. TxFits(tx[c]) /\ KeysOf(batch) \subseteq EntryKeys
      BY <1>2, <2>1 DEF KvInv
    <2>3. \A k \in KeysOf(batch) : tx[c].expect[k].version = kv[k].version /\ tx[c].expect[k] \in alike[k] /\ kv[k] \in Entry
      BY <1>6, <2>2 DEF Mutate, Undisturbed, Mismatching, TxFits, Fits, FitsIn
    <2>15. ASSUME NEW k \in KeysOf(batch), NEW e \in Said(c, batch, k)
           PROVE  e \in Entry /\ e.version = kv[k].version + 1
      <3>1. PICK i \in DOMAIN batch : batch[i].key = k /\ e = Written(c, batch[i])
        BY <2>15 DEF Said
      <3>2. batch[i].value \in Values \cup {None}
        BY <2>2, BatchKeys DEF TxFits, Pending
      <3> QED BY <2>3, <3>1, <3>2 DEF Written, Entry
    <2>4. /\ DOMAIN effect = KeysOf(batch)
          /\ \A k \in KeysOf(batch) : effect[k] \in Said(c, batch, k)
      <3>1. DOMAIN effect = KeysOf(batch)
        BY DEF Effect
      <3>2. ASSUME NEW k \in KeysOf(batch) PROVE effect[k] \in Said(c, batch, k)
        <4> DEFINE last == CHOOSE i \in DOMAIN batch :
                               batch[i].key = k /\ \A j \in DOMAIN batch : j > i => batch[j].key # k
        <4>1. last \in DOMAIN batch /\ batch[last].key = k
          BY <2>2, BatchKeys DEF TxFits, Pending
        <4>2. effect[k] = Written(c, batch[last])
          BY DEF Effect
        <4> HIDE DEF last, effect
        <4> QED BY <4>1, <4>2 DEF Said
      <3> QED BY <3>1, <3>2
    <2>16. \A r \in readings : DOMAIN r = KeysOf(batch) /\ \A k \in KeysOf(batch) : r[k] \in Said(c, batch, k)
      BY DEF Readings
    <2> HIDE DEF effect, readings, batch
    <2>5. /\ kv' \in Store /\ alike' \in [EntryKeys -> SUBSET Entry] /\ \A k \in EntryKeys : kv'[k] \in alike'[k]
      <3>1. \A k \in EntryKeys : kv'[k] \in Entry /\ alike'[k] \subseteq Entry /\ kv'[k] \in alike'[k]
        BY <2>1, <2>4, <2>15 DEF KvInv, Store
      <3> QED BY <2>1, <3>1 DEF Store
    <2>6. \A k \in EntryKeys : (kv'[k] = kv[k] /\ alike'[k] = alike[k]) \/ kv'[k].version = kv[k].version + 1
      BY <2>1, <2>4, <2>15
    <2>7. \A k \in EntryKeys : kv[k].version \in Int /\ kv'[k].version \in Int
      BY <2>5 DEF KvInv, Store, Entry
    <2>8. ASSUME NEW k \in EntryKeys, NEW e, Fits(e, k) PROVE FitsIn(e, kv'[k], alike'[k])
      <3>1. e.version \in Int
        BY <2>8 DEF Fits, FitsIn, Entry
      <3> QED BY <2>6, <2>7, <2>8, <3>1 DEF Fits, FitsIn
    <2>9. ASSUME NEW r \in readings, NEW k \in DOMAIN r \cap EntryKeys PROVE FitsIn(r[k], kv'[k], alike'[k])
      <3>1. k \in KeysOf(batch) /\ r[k] \in Said(c, batch, k)
        BY <2>9, <2>16
      <3>2. kv'[k] = effect[k] /\ effect[k] \in Said(c, batch, k) /\ alike'[k] = Said(c, batch, k)
        BY <2>1, <2>4, <3>1
      <3>3. r[k] \in Entry /\ r[k].version = kv'[k].version /\ kv'[k].version \in Int
        BY <2>7, <2>15, <3>1, <3>2
      <3> QED BY <3>1, <3>2, <3>3 DEF FitsIn
    <2>10. known' \in [Clients -> Store] /\ \A d \in Clients, k \in EntryKeys : FitsIn(known'[d][k], kv'[k], alike'[k])
      <3>1. \A d \in Clients, k \in EntryKeys : FitsIn(known[d][k], kv'[k], alike'[k])
        BY <2>8 DEF KvInv
      <3> QED BY <2>0, <2>5, <2>9, <3>1, LearnFits
    <2>11. ASSUME NEW d \in Clients, tx'[d] # None PROVE TxFits(tx[d])'
      <3>1. tx'[d] = tx[d] /\ TxFits(tx[d]) /\ KeysOf(tx[d].batch) \subseteq EntryKeys
        BY <1>2, <2>1, <2>11 DEF KvInv
      <3> QED BY <2>8, <3>1 DEF TxFits, Fits
    <2>12. \A change \in changes' : \A taken \in change : \A k \in DOMAIN taken \cap EntryKeys :
               FitsIn(taken[k], kv'[k], alike'[k])
      BY <2>1, <2>8, <2>9 DEF KvInv
    <2>13. NothingIsOverwrittenUnseen
      <3> SUFFICES ASSUME NEW k \in EntryKeys, kv'[k] # kv[k]
                   PROVE  \E d \in Clients : tx[d] # None /\ tx'[d] = None /\ k \in KeysOf(tx[d].batch)
                                             /\ tx[d].expect[k].version = kv[k].version /\ tx[d].expect[k] \in alike[k]
        BY DEF NothingIsOverwrittenUnseen
      <3>1. k \in KeysOf(batch)
        BY <2>1, <2>4
      <3>2. tx'[c] = None
        BY <2>1 DEF KvInv
      <3> QED BY <2>1, <2>3, <3>1, <3>2 DEF batch
    <2>14. tx' = [d \in Clients |-> tx'[d]]
      BY <2>1 DEF KvInv
    <2> QED BY <2>5, <2>10, <2>11, <2>12, <2>13, <2>14 DEF KvInv, Fits
  <1>7. ASSUME NEW c \in Clients, Refuse(c) PROVE KvInv' /\ NothingIsOverwrittenUnseen
    <2> DEFINE news == [k \in Mismatching(c) |-> tx[c].seen[k]]
    <2>1. tx[c] # None /\ Learn(c, news) /\ tx' = [tx EXCEPT ![c] = None] /\ UNCHANGED <<kv, changes, alike>>
      BY <1>7 DEF Refuse
    <2>2. kv \in Store /\ \A k \in DOMAIN news \cap EntryKeys : Fits(news[k], k)
      BY <2>1 DEF KvInv, TxFits, Mismatching, Fits, FitsIn
    <2> HIDE DEF news
    <2>3. known' \in [Clients -> Store] /\ \A d \in Clients, k \in EntryKeys : Fits(known'[d][k], k)
      BY <2>1, <2>2, LearnFits DEF KvInv, Fits
    <2> QED BY <1>3, <2>1, <2>3
  <1>8. ASSUME NEW c \in Clients, Retry(c) PROVE KvInv' /\ NothingIsOverwrittenUnseen
    <2>1. tx[c] # None /\ UNCHANGED <<kv, known, changes, alike>>
          /\ tx' = [tx EXCEPT ![c].seen = Restriction(kv, tx[c].batch), ![c].retries = @ + 1]
      BY <1>8 DEF Retry
    <2>2. TxFits(tx[c]) /\ KeysOf(tx[c].batch) \subseteq EntryKeys
      BY <1>2, <2>1 DEF KvInv
    <2> DEFINE view == Restriction(kv, tx[c].batch)
               t == [tx[c] EXCEPT !.seen = view, !.retries = @ + 1]
    <2>3. view \in Views /\ \A k \in KeysOf(tx[c].batch) : view[k] = kv[k]
      BY <2>2, RestrictionFits DEF TxFits, Pending, KvInv, Restriction
    <2>4. tx' = [tx EXCEPT ![c] = t] /\ TxFits(t)
      <3>1. tx' = [tx EXCEPT ![c] = t]
        BY <2>1
      <3> HIDE DEF view
      <3>2. t \in Pending /\ t.batch = tx[c].batch /\ t.expect = tx[c].expect /\ t.seen = view
        <4>1. tx[c] \in Pending
          BY <2>2 DEF TxFits
        <4>2. ASSUME NEW q \in Pending, NEW v \in Views
              PROVE  LET n == [q EXCEPT !.seen = v, !.retries = @ + 1]
                     IN  n \in Pending /\ n.batch = q.batch /\ n.expect = q.expect /\ n.seen = v
          <5> DEFINE n == [q EXCEPT !.seen = v, !.retries = q.retries + 1]
          <5>1. q.retries + 1 \in Nat
            BY DEF Pending
          <5>2. n \in Pending
            BY <5>1 DEF Pending
          <5>3. n.batch = q.batch /\ n.expect = q.expect /\ n.seen = v
            BY DEF Pending
          <5> QED BY <5>2, <5>3
        <4> QED BY <2>3, <4>1, <4>2
      <3> HIDE DEF t
      <3>3. \A k \in KeysOf(tx[c].batch) : Fits(kv[k], k)
        BY <2>2 DEF Fits, FitsIn, KvInv, Store, Entry
      <3> QED BY <2>2, <2>3, <3>1, <3>2, <3>3 DEF TxFits
    <2> HIDE DEF t
    <2>5. ASSUME NEW d \in Clients, tx'[d] # None PROVE TxFits(tx[d])'
      BY <2>1, <2>4, <2>5 DEF KvInv, TxFits, Fits
    <2> QED BY <1>1, <2>1, <2>4, <2>5 DEF KvInv, Fits
  <1>9. ASSUME NEW c \in Clients, Fail(c) PROVE KvInv' /\ NothingIsOverwrittenUnseen
    <2>1. tx' = [tx EXCEPT ![c] = None] /\ UNCHANGED <<kv, known, changes, alike>>
      BY <1>9 DEF Fail
    <2> QED BY <1>3, <2>1 DEF KvInv
  <1>10. ASSUME NEW change \in changes, NEW clients \in SUBSET Clients, Notify(change, clients)
         PROVE  KvInv' /\ NothingIsOverwrittenUnseen
    <2>1. PICK taken \in [clients -> change] :
            known' = [c \in Clients |->
                         IF c \in clients
                         THEN [k \in EntryKeys |->
                                  IF k \in DOMAIN taken[c] /\ taken[c][k].version > known[c][k].version
                                  THEN taken[c][k] ELSE known[c][k]]
                         ELSE known[c]]
      BY <1>10 DEF Notify
    <2>5. UNCHANGED <<kv, tx, alike>> /\ changes' \subseteq changes
      BY <1>10 DEF Notify
    <2>2. \A c \in clients : \A k \in DOMAIN taken[c] \cap EntryKeys : Fits(taken[c][k], k)
      BY DEF KvInv
    <2>3. ASSUME NEW c \in Clients, NEW k \in EntryKeys PROVE Fits(known'[c][k], k)
      BY <2>1, <2>2 DEF KvInv
    <2>4. known' \in [Clients -> Store]
      BY <2>1, <2>2 DEF KvInv, Fits, FitsIn, Store
    <2> QED BY <1>1, <2>3, <2>4, <2>5 DEF KvInv, TxFits, Fits
  <1>11. CASE UNCHANGED kvVars
    BY <1>1, <1>11 DEF kvVars, KvInv, TxFits, Fits
  <1> QED BY <1>4, <1>5, <1>6, <1>7, <1>8, <1>9, <1>10, <1>11 DEF KvNext

\* A batch of writes (kvMutate) never overwrites a version its client did not know
\* of, and who knows the newest version knows what the last write said of it, whatever
\* is deleted, tried again, named twice or announced late, for any clients and keys.
THEOREM WritersAlwaysInformed == KvSpec => WritersAreInformed
  <1>1. KvInv => KnownVersionKnownValue
    BY DEF KvInv, KnownVersionKnownValue, Fits, FitsIn
  <1>2. KvInv /\ [KvNext]_kvVars => KvInv' /\ [NothingIsOverwrittenUnseen /\ KnownVersionKnownValue']_kvVars
    BY <1>1, KvNextInv, PTL
  <1> QED BY <1>2, KvInitInv, PTL DEF KvSpec, WritersAreInformed

-----------------------------------------------------------------------------
(* Versions of genomes.                                                     *)

HubForm(row) == [title |-> row.title, version |-> row.version, spec |-> row.spec]

\* The entry is of the row's version, and of its spec unless it is foreign.
Says(h, row) == KeyOf(h) = KeyOf(row) /\ (h.spec = row.spec \/ h.foreign)

\* What is said of a version is true of its row still, unless it was rewritten.
Kept(key, spec) == key \in rewritten \/ \E id \in There : KeyOf(genome[id]) = key /\ genome[id].spec = spec

GenomesTypeOK ==
    /\ genome \in [GenomeIds -> Genome \cup {None}]
    /\ edit = [e \in Editors |-> edit[e]]
    /\ hub \in Seq(HubEntry)

RowsOK ==
    /\ \A id \in There, o \in There : KeyOf(genome[id]) = KeyOf(genome[o]) => id = o
    /\ \A id \in There : genome[id].hub # None =>
          /\ genome[id].hub \in 1 .. Len(hub)
          /\ KeyOf(genome[id]) \notin rewritten => Says(hub[genome[id].hub], genome[id])

CopiesOK ==
    /\ \A s \in served : Kept(s.key, s.spec) \/ (s.of = "hub" /\ s.key \in Foreign)
    /\ \A n \in 1 .. Len(hub) : hub[n].foreign \/ Kept(KeyOf(hub[n]), hub[n].spec)

\* Some number is above all versions.
NumbersEnd ==
    \E B \in Nat : \A id \in There : genome[id].version <= B

Owns(r) == r.id \in There /\ genome[r.id].owner = r.by

\* What a request knows of the rows while it is under way.
EditOK(r) ==
    /\ r.does \in {"post", "patch", "number", "insert", "delete", "publish", "mark", "diff"} /\ r.by \in Authors
    /\ r.does = "post" => /\ r.id \in GenomeIds /\ r.title \in Titles /\ r.spec \in Specs
                          /\ ~r.free => Owns(r)
    /\ r.does \in {"patch", "delete", "publish", "mark"} => Owns(r)
    /\ r.does = "patch" => r.title \in Titles
    /\ r.does = "diff" => r.hub \in 1 .. Len(hub)
    /\ r.does \in {"number", "insert"} => r.title \in Titles /\ r.spec \in Specs
    /\ r.does = "insert" => r.version \in Nat
    /\ r.does = "publish" =>
          /\ r.row \in Genome /\ Kept(KeyOf(r.row), r.row.spec)
          /\ KeyOf(genome[r.id]) \notin rewritten => HubForm(r.row) = HubForm(genome[r.id])
    /\ r.does = "mark" =>
          /\ r.hub \in 1 .. Len(hub)
          /\ KeyOf(genome[r.id]) \notin rewritten => Says(hub[r.hub], genome[r.id])

GenomesInv ==
    /\ GenomesTypeOK /\ RowsOK /\ CopiesOK /\ NumbersEnd
    /\ \A e \in Editors : edit[e] # None => EditOK(edit[e])

LEMMA GenomesInitInv == GenomesInit => GenomesInv
  <1> SUFFICES ASSUME GenomesInit PROVE GenomesInv
    OBVIOUS
  <1>1. There = {} /\ Len(hub) = 0
    BY DEF GenomesInit, There
  <1> QED BY <1>1 DEF GenomesInit, GenomesInv, GenomesTypeOK, RowsOK, CopiesOK, NumbersEnd

\* Requests change, and nothing else.
LEMMA EditStep ==
  ASSUME GenomesInv, NEW e \in Editors, NEW r, edit' = [edit EXCEPT ![e] = r],
         UNCHANGED <<genome, hub, served, rewritten>>, r # None => EditOK(r)
  PROVE  GenomesInv' /\ OnlyOwnersWrite
  <1>1. GenomesTypeOK' /\ RowsOK' /\ CopiesOK' /\ NumbersEnd'
    BY DEF GenomesInv, GenomesTypeOK, RowsOK, CopiesOK, NumbersEnd, Kept, There, Foreign
  <1>2. \A x : EditOK(x) => EditOK(x)'
    BY DEF EditOK, Owns, Kept, There
  <1>3. \A f \in Editors : edit'[f] # None => EditOK(edit'[f])
    BY DEF GenomesInv, GenomesTypeOK
  <1>4. OnlyOwnersWrite
    BY DEF OnlyOwnersWrite
  <1> QED BY <1>1, <1>2, <1>3, <1>4 DEF GenomesInv

LEMMA SameForm ==
  ASSUME NEW a, NEW b, HubForm(a) = HubForm(b)
  PROVE  KeyOf(a) = KeyOf(b) /\ a.spec = b.spec /\ \A h : Says(h, a) <=> Says(h, b)
  BY DEF HubForm, KeyOf, Says

\* A row is written, as it was in what copies hold of it or as a version that is
\* rewritten, and of the requests some are over.
LEMMA RowStep ==
  ASSUME GenomesInv, NEW id \in GenomeIds, NEW row \in Genome, NEW versions,
         genome' = [genome EXCEPT ![id] = row], rewritten' = rewritten \cup versions, UNCHANGED <<hub, served>>,
         edit' = [f \in Editors |-> edit'[f]], \A f \in Editors : edit'[f] \in {None, edit[f]},
         \A o \in There \ {id} : KeyOf(genome[o]) # KeyOf(row),
         genome[id] # None =>
            /\ row.owner = genome[id].owner
            /\ \/ KeyOf(genome[id]) \in versions /\ KeyOf(row) \in versions
               \/ HubForm(row) = HubForm(genome[id]),
         row.hub # None => /\ row.hub \in 1 .. Len(hub)
                           /\ KeyOf(row) \notin rewritten \cup versions => Says(hub[row.hub], row)
  PROVE  GenomesInv'
  <1> USE GenomesAssumption
  <1>1. rewritten' = rewritten \cup versions
    OBVIOUS
  <1>2. /\ genome'[id] = row /\ row # None /\ genome' \in [GenomeIds -> Genome \cup {None}]
        /\ \A o \in GenomeIds : o # id => genome'[o] = genome[o]
    BY <1>1 DEF GenomesInv, GenomesTypeOK
  <1>3. There' = There \cup {id} /\ There \subseteq GenomeIds
    BY <1>2 DEF There
  <1>4. HubForm(row) = HubForm(genome[id]) => KeyOf(row) = KeyOf(genome[id]) /\ row.spec = genome[id].spec
    BY DEF HubForm, KeyOf
  <1>5. ASSUME NEW key, NEW spec, Kept(key, spec) PROVE Kept(key, spec)'
    <2>1. CASE key \in rewritten
      BY <1>1, <2>1 DEF Kept
    <2>2. CASE key \notin rewritten
      <3>1. PICK o \in There : KeyOf(genome[o]) = key /\ genome[o].spec = spec
        BY <1>5, <2>2 DEF Kept
      <3>2. CASE o # id
        BY <1>2, <1>3, <3>1, <3>2 DEF Kept
      <3>3. CASE o = id
        <4>1. genome[id] # None
          BY <3>3 DEF There
        <4>2. key \in versions \/ (KeyOf(row) = key /\ row.spec = spec)
          BY <1>4, <3>1, <3>3, <4>1
        <4> QED BY <1>1, <1>2, <1>3, <4>2 DEF Kept
      <3> QED BY <3>2, <3>3
    <2> QED BY <2>1, <2>2
  <1>6. RowsOK'
    <2>1. ASSUME NEW o \in There', NEW p \in There', KeyOf(genome'[o]) = KeyOf(genome'[p]) PROVE o = p
      BY <1>1, <1>2, <1>3, <2>1 DEF GenomesInv, RowsOK
    <2>2. ASSUME NEW o \in There', genome'[o].hub # None
          PROVE  /\ genome'[o].hub \in 1 .. Len(hub)
                 /\ KeyOf(genome'[o]) \notin rewritten' => Says(hub[genome'[o].hub], genome'[o])
      <3>1. CASE o = id
        BY <1>1, <1>2, <2>2, <3>1
      <3>2. CASE o # id
        <4>1. o \in There /\ genome'[o] = genome[o]
          BY <1>2, <1>3, <3>2
        <4> QED BY <1>1, <2>2, <4>1 DEF GenomesInv, RowsOK
      <3> QED BY <3>1, <3>2
    <2> QED BY <1>1, <2>1, <2>2 DEF RowsOK
  <1>7. CopiesOK'
    BY <1>1, <1>5 DEF GenomesInv, CopiesOK, Foreign, KeyOf
  <1>8. NumbersEnd'
    <2>1. PICK B \in Nat : \A o \in There : genome[o].version <= B
      BY DEF GenomesInv, NumbersEnd
    <2>2. PICK v \in Nat : v = row.version
      BY DEF Genome
    <2>3. B + v \in Nat
      OBVIOUS
    <2>4. ASSUME NEW o \in There' PROVE genome'[o].version <= B + v
      <3>1. CASE o = id
        BY <1>2, <2>2, <3>1
      <3>2. CASE o # id
        <4>1. genome'[o] = genome[o] /\ genome[o] \in Genome /\ genome[o].version <= B
          BY <1>2, <1>3, <2>1, <3>2 DEF GenomesInv, GenomesTypeOK, There
        <4>2. genome[o].version \in Nat
          BY <4>1 DEF Genome
        <4> QED BY <4>1, <4>2
      <3> QED BY <3>1, <3>2
    <2> QED BY <2>3, <2>4 DEF NumbersEnd
  <1>9. ASSUME NEW r, EditOK(r) PROVE EditOK(r)'
    <2>1. Owns(r) => Owns(r)'
      BY <1>2, <1>3 DEF Owns, There
    <2>2. r.does \in {"publish", "mark"} /\ KeyOf(genome'[r.id]) \notin rewritten' =>
             HubForm(genome'[r.id]) = HubForm(genome[r.id]) /\ KeyOf(genome[r.id]) \notin rewritten
      <3> SUFFICES ASSUME r.does \in {"publish", "mark"}, KeyOf(genome'[r.id]) \notin rewritten'
                   PROVE  HubForm(genome'[r.id]) = HubForm(genome[r.id]) /\ KeyOf(genome[r.id]) \notin rewritten
        OBVIOUS
      <3>1. r.id \in There /\ genome[r.id] # None
        BY <1>9 DEF EditOK, Owns, There
      <3>2. CASE r.id # id
        BY <1>1, <1>2, <1>3, <3>1, <3>2
      <3>3. CASE r.id = id
        BY <1>1, <1>2, <1>4, <3>1, <3>3
      <3> QED BY <3>2, <3>3
    <2>3. r.does = "publish" =>
            /\ Kept(KeyOf(r.row), r.row.spec)'
            /\ KeyOf(genome'[r.id]) \notin rewritten' => HubForm(r.row) = HubForm(genome'[r.id])
      BY <1>5, <1>9, <2>2 DEF EditOK
    <2>4. r.does = "mark" =>
            /\ r.hub \in 1 .. Len(hub)
            /\ KeyOf(genome'[r.id]) \notin rewritten' => Says(hub[r.hub], genome'[r.id])
      BY <1>9, <2>2, SameForm DEF EditOK
    <2> QED BY <1>1, <1>9, <2>1, <2>3, <2>4 DEF EditOK
  <1>10. GenomesTypeOK'
    BY <1>1, <1>2 DEF GenomesInv, GenomesTypeOK
  <1>11. ASSUME NEW f \in Editors PROVE (edit[f] # None => EditOK(edit[f]))'
    <2>1. PICK r : r = edit'[f]
      OBVIOUS
    <2>2. r # None => r = edit[f] /\ EditOK(r)
      BY <1>1, <2>1 DEF GenomesInv, GenomesTypeOK
    <2>3. r # None => EditOK(r)'
      BY <1>9, <2>2
    <2> QED BY <2>1, <2>3 DEF EditOK
  <1> QED BY <1>6, <1>7, <1>8, <1>10, <1>11 DEF GenomesInv

\* One row is written by a request, if its title and version are free.
LEMMA WriteStep ==
  ASSUME GenomesInv, NEW e \in Editors, edit[e] # None, NEW id \in GenomeIds, NEW row \in Genome, NEW versions,
         Write(e, id, row, versions),
         genome[id] = None => row.hub = None,
         genome[id] # None =>
            /\ row.owner = genome[id].owner
            /\ edit[e].by = genome[id].owner \/ (edit[e].does = "post" /\ edit[e].free)
            /\ \/ KeyOf(genome[id]) \in versions /\ KeyOf(row) \in versions
               \/ HubForm(row) = HubForm(genome[id]),
         row.hub # None => /\ row.hub \in 1 .. Len(hub)
                           /\ KeyOf(row) \notin rewritten \cup versions => Says(hub[row.hub], row)
  PROVE  GenomesInv' /\ OnlyOwnersWrite
  <1>1. edit' = [edit EXCEPT ![e] = None] /\ UNCHANGED <<hub, served>>
    BY DEF Write
  <1>2. CASE ~IsFree(id, row.title, row.version)
    BY <1>1, <1>2, EditStep DEF Write
  <1>3. CASE IsFree(id, row.title, row.version)
    <2>1. /\ genome' = [genome EXCEPT ![id] = row] /\ rewritten' = rewritten \cup versions
          /\ \A o \in There \ {id} : KeyOf(genome[o]) # KeyOf(row)
      BY <1>3 DEF Write, IsFree, KeyOf
    <2>2. edit' = [f \in Editors |-> edit'[f]] /\ edit'[e] = None /\ \A f \in Editors : edit'[f] \in {None, edit[f]}
      BY <1>1 DEF GenomesInv, GenomesTypeOK
    <2>3. GenomesInv'
      BY <1>1, <2>1, <2>2, RowStep
    <2>4. genome'[id] = row /\ There \subseteq GenomeIds /\ \A o \in GenomeIds : o # id => genome'[o] = genome[o]
      BY <2>1 DEF There, GenomesInv, GenomesTypeOK
    <2>5. \A o \in There : genome'[o] # genome[o] => o = id /\ genome[id] # None
      BY <2>4 DEF There
    <2> QED BY <2>2, <2>3, <2>4, <2>5 DEF OnlyOwnersWrite
  <1> QED BY <1>2, <1>3

LEMMA LatestIsTheLast ==
  ASSUME GenomesInv, NEW title
  PROVE  Latest(title) \in Nat /\ \A id \in There : genome[id].title = title => genome[id].version <= Latest(title)
  <1> DEFINE numbers == {0} \cup {genome[id].version : id \in {i \in There : genome[i].title = title}}
  <1>1. PICK B \in Nat : \A id \in There : genome[id].version <= B
    BY DEF GenomesInv, NumbersEnd
  <1>2. \A id \in There : genome[id] \in Genome
    BY DEF GenomesInv, GenomesTypeOK, There
  <1>3. \A id \in There : genome[id].version \in Nat
    BY <1>2 DEF Genome
  <1>4. numbers \in SUBSET Nat /\ numbers # {} /\ \A n \in numbers : n <= B
    BY <1>1, <1>3
  <1>5. \E n \in numbers : \A k \in numbers : k <= n
    BY <1>4, GreatestOf
  <1>6. Latest(title) = CHOOSE n \in numbers : \A k \in numbers : k <= n
    BY DEF Latest
  <1>7. \A id \in There : genome[id].title = title => genome[id].version \in numbers
    OBVIOUS
  <1> HIDE DEF numbers
  <1>8. Latest(title) \in numbers /\ \A k \in numbers : k <= Latest(title)
    BY <1>5, <1>6
  <1> QED BY <1>4, <1>7, <1>8

-----------------------------------------------------------------------------
LEMMA LooksPreserve ==
  ASSUME GenomesInv, NEW e \in Editors, NEW u \in Authors, NEW id \in GenomeIds,
         \/ \E title \in Titles, spec \in Specs :
                LookToPost(e, u, id, title, spec) \/ LookToPatch(e, u, id, title, spec)
         \/ LookToDelete(e, u, id) \/ LookToPublish(e, u, id) \/ LookToDiff(e, u, id)
  PROVE  GenomesInv' /\ OnlyOwnersWrite
  <1> USE GenomesAssumption
  <1>0. genome[id] # None => id \in There /\ genome[id] \in Genome
    BY DEF There, GenomesInv, GenomesTypeOK
  <1>1. ASSUME NEW r, StartEdit(e, r), EditOK(r) PROVE GenomesInv' /\ OnlyOwnersWrite
    BY <1>1, EditStep DEF StartEdit
  <1>2. ASSUME NEW title \in Titles, NEW spec \in Specs, LookToPost(e, u, id, title, spec)
        PROVE  GenomesInv' /\ OnlyOwnersWrite
    <2>1. PICK r : r = [does |-> "post", by |-> u, id |-> id, title |-> title, spec |-> spec,
                        free |-> genome[id] = None]
      OBVIOUS
    <2>2. /\ r.does = "post" /\ r.by = u /\ r.id = id /\ r.title = title /\ r.spec = spec
          /\ ~r.free => genome[id] # None
      BY <2>1
    <2>3. EditOK(r)
      BY <1>0, <1>2, <2>2 DEF EditOK, Owns, LookToPost
    <2> QED BY <1>1, <1>2, <2>1, <2>3 DEF LookToPost
  <1>3. ASSUME NEW title \in Titles, NEW spec \in Specs, LookToPatch(e, u, id, title, spec)
        PROVE  GenomesInv' /\ OnlyOwnersWrite
    <2>1. id \in There /\ genome[id].owner = u
      BY <1>0, <1>3 DEF LookToPatch, Own
    <2>2. CASE spec = genome[id].spec
      <3>1. PICK r : r = [does |-> "patch", by |-> u, id |-> id, title |-> title]
        OBVIOUS
      <3>2. EditOK(r)
        BY <2>1, <3>1 DEF EditOK, Owns
      <3> QED BY <1>1, <1>3, <2>2, <3>1, <3>2 DEF LookToPatch
    <2>3. CASE spec # genome[id].spec
      <3>1. PICK r : r = [does |-> "number", by |-> u, title |-> title, spec |-> spec]
        OBVIOUS
      <3>2. EditOK(r)
        BY <3>1 DEF EditOK
      <3> QED BY <1>1, <1>3, <2>3, <3>1, <3>2 DEF LookToPatch
    <2> QED BY <2>2, <2>3
  <1>4. CASE LookToDelete(e, u, id)
    <2>1. PICK r : r = [does |-> "delete", by |-> u, id |-> id]
      OBVIOUS
    <2>2. EditOK(r)
      BY <1>0, <1>4, <2>1 DEF EditOK, Owns, LookToDelete, Own
    <2> QED BY <1>1, <1>4, <2>1, <2>2 DEF LookToDelete
  <1>5. CASE LookToPublish(e, u, id)
    <2>1. PICK r : r = [does |-> "publish", by |-> u, id |-> id, row |-> genome[id]]
      OBVIOUS
    <2>2. r.does = "publish" /\ r.by = u /\ r.id = id /\ r.row = genome[id] /\ id \in There /\ genome[id].owner = u
          /\ genome[id] \in Genome
      BY <1>0, <1>5, <2>1 DEF LookToPublish, Own
    <2>3. EditOK(r)
      BY <2>2 DEF EditOK, Owns, Kept
    <2> QED BY <1>1, <1>5, <2>1, <2>3 DEF LookToPublish
  <1>6. CASE LookToDiff(e, u, id)
    <2>1. PICK r : r = [does |-> "diff", by |-> u, id |-> id, hub |-> genome[id].hub]
      OBVIOUS
    <2>2. /\ r.does = "diff" /\ r.by = u /\ r.id = id /\ r.hub = genome[id].hub /\ id \in There /\ genome[id].owner = u
          /\ genome[id].hub # None
      BY <1>0, <1>6, <2>1 DEF LookToDiff, Own
    <2>3. r.hub \in 1 .. Len(hub)
      BY <2>2 DEF GenomesInv, RowsOK
    <2>4. EditOK(r)
      BY <2>2, <2>3 DEF EditOK, Owns
    <2> QED BY <1>1, <1>6, <2>1, <2>4 DEF LookToDiff
  <1> QED BY <1>2, <1>3, <1>4, <1>5, <1>6

\* What is known of the row that a request writes.
LEMMA RowOfEdit ==
  ASSUME GenomesInv, NEW e \in Editors, edit[e] # None, edit[e].does \in {"patch", "delete", "mark", "post"},
         edit[e].does = "post" => genome[edit[e].id] # None
  PROVE  /\ EditOK(edit[e]) /\ edit[e].id \in GenomeIds /\ edit[e].id \in There
         /\ genome[edit[e].id] # None /\ genome[edit[e].id] \in Genome
         /\ genome[edit[e].id].owner = edit[e].by \/ (edit[e].does = "post" /\ edit[e].free)
         /\ genome[edit[e].id].hub # None =>
              /\ genome[edit[e].id].hub \in 1 .. Len(hub)
              /\ KeyOf(genome[edit[e].id]) \notin rewritten => Says(hub[genome[edit[e].id].hub], genome[edit[e].id])
  <1>1. EditOK(edit[e])
    BY DEF GenomesInv
  <1>2. edit[e].id \in GenomeIds /\ edit[e].id \in There
    BY <1>1 DEF EditOK, Owns, There
  <1>3. genome[edit[e].id] # None /\ genome[edit[e].id] \in Genome
    BY <1>2 DEF There, GenomesInv, GenomesTypeOK
  <1>4. genome[edit[e].id].owner = edit[e].by \/ (edit[e].does = "post" /\ edit[e].free)
    BY <1>1 DEF EditOK, Owns
  <1> QED BY <1>1, <1>2, <1>3, <1>4 DEF GenomesInv, RowsOK

\* A row of which a request keeps title, version, spec and place on the hub.
LEMMA InPlace ==
  ASSUME GenomesInv, NEW e \in Editors, edit[e] # None, edit[e].does \in {"patch", "delete", "mark"},
         NEW id, id = edit[e].id, NEW row \in Genome, Write(e, id, row, {}),
         row.owner = genome[id].owner, HubForm(row) = HubForm(genome[id]),
         row.hub = genome[id].hub \/ (edit[e].does = "mark" /\ row.hub = edit[e].hub)
  PROVE  GenomesInv' /\ OnlyOwnersWrite
  <1>1. /\ EditOK(edit[e]) /\ id \in GenomeIds /\ id \in There /\ genome[id] # None /\ genome[id].owner = edit[e].by
        /\ genome[id].hub # None =>
              /\ genome[id].hub \in 1 .. Len(hub)
              /\ KeyOf(genome[id]) \notin rewritten => Says(hub[genome[id].hub], genome[id])
    BY RowOfEdit
  <1>2. KeyOf(row) = KeyOf(genome[id]) /\ \A h : Says(h, row) <=> Says(h, genome[id])
    BY SameForm
  <1>3. row.hub # None => row.hub \in 1 .. Len(hub) /\ (KeyOf(row) \notin rewritten \cup {} => Says(hub[row.hub], row))
    BY <1>1, <1>2 DEF EditOK
  <1> QED BY <1>1, <1>3, WriteStep

\* A row of which a request keeps no more than the version.
LEMMA Rewrites ==
  ASSUME GenomesInv, NEW e \in Editors, edit[e] # None, edit[e].does \in {"patch", "post"},
         NEW id, id = edit[e].id, genome[id] # None, NEW row \in Genome,
         Write(e, id, row, {KeyOf(genome[id]), KeyOf(row)}),
         row.owner = genome[id].owner, row.hub = genome[id].hub
  PROVE  GenomesInv' /\ OnlyOwnersWrite
  <1>1. /\ id \in GenomeIds /\ (genome[id].owner = edit[e].by \/ (edit[e].does = "post" /\ edit[e].free))
        /\ genome[id].hub # None => genome[id].hub \in 1 .. Len(hub)
    BY RowOfEdit
  <1>2. PICK versions : versions = {KeyOf(genome[id]), KeyOf(row)}
    OBVIOUS
  <1>3. row.hub # None => row.hub \in 1 .. Len(hub) /\ (KeyOf(row) \notin rewritten \cup versions => Says(hub[row.hub], row))
    BY <1>1, <1>2
  <1>4. KeyOf(genome[id]) \in versions /\ KeyOf(row) \in versions /\ Write(e, id, row, versions)
    BY <1>2
  <1> QED BY <1>1, <1>3, <1>4, WriteStep

LEMMA NewRow ==
  ASSUME GenomesInv, NEW e \in Editors, edit[e] # None, NEW id \in GenomeIds, genome[id] = None,
         NEW u \in Authors, NEW title \in Titles, NEW number \in Nat, NEW spec \in Specs,
         Write(e, id, New(u, title, number, spec), {})
  PROVE  GenomesInv' /\ OnlyOwnersWrite
  <1>1. PICK row : row = New(u, title, number, spec)
    OBVIOUS
  <1>2. row \in Genome /\ row.hub = None
    BY <1>1 DEF New, Genome
  <1> QED BY <1>1, <1>2, WriteStep

LEMMA PostPreserves == ASSUME GenomesInv, NEW e \in Editors, PostGenome(e) PROVE GenomesInv' /\ OnlyOwnersWrite
  <1> DEFINE r == edit[e]  old == genome[r.id]
  <1>1. r # None /\ r.does = "post" /\ EditOK(r)
    BY DEF PostGenome, GenomesInv
  <1>2. r.id \in GenomeIds /\ r.title \in Titles /\ r.spec \in Specs /\ r.by \in Authors
    BY <1>1 DEF EditOK
  <1>3. CASE old = None
    <2>1. Write(e, r.id, New(r.by, r.title, 1, r.spec), {})
      BY <1>3 DEF PostGenome
    <2> QED BY <1>1, <1>2, <1>3, <2>1, NewRow
  <1>4. CASE old # None
    <2>1. old \in Genome
      BY <1>1, <1>4, RowOfEdit
    <2>2. PICK row : row = [old EXCEPT !.title = r.title, !.spec = r.spec, !.deleted = FALSE]
      OBVIOUS
    <2>3. row \in Genome /\ row.owner = old.owner /\ row.hub = old.hub /\ row.title = r.title /\ row.version = old.version
      BY <1>2, <2>1, <2>2 DEF Genome
    <2>4. Write(e, r.id, row, {KeyOf(old), <<r.title, old.version>>})
      BY <1>4, <2>2 DEF PostGenome
    <2>5. KeyOf(row) = <<r.title, old.version>>
      BY <2>3 DEF KeyOf
    <2> QED BY <1>1, <1>4, <2>3, <2>4, <2>5, Rewrites
  <1> QED BY <1>3, <1>4

LEMMA PatchPreserves == ASSUME GenomesInv, NEW e \in Editors, Patch(e) PROVE GenomesInv' /\ OnlyOwnersWrite
  <1> DEFINE r == edit[e]  old == genome[r.id]
  <1>1. r # None /\ r.does = "patch" /\ EditOK(r)
    BY DEF Patch, GenomesInv
  <1>2. old # None /\ old \in Genome /\ r.title \in Titles
    BY <1>1, RowOfEdit DEF EditOK
  <1>3. PICK row : row = [old EXCEPT !.title = r.title]
    OBVIOUS
  <1>4. row \in Genome /\ row.owner = old.owner /\ row.hub = old.hub /\ row.title = r.title /\ row.version = old.version
        /\ row.spec = old.spec
    BY <1>2, <1>3 DEF Genome
  <1>5. CASE r.title = old.title
    <2>1. Write(e, r.id, row, {})
      BY <1>3, <1>5 DEF Patch
    <2>2. HubForm(row) = HubForm(old)
      BY <1>4, <1>5 DEF HubForm
    <2> QED BY <1>1, <1>4, <2>1, <2>2, InPlace
  <1>6. CASE r.title # old.title
    <2>1. Write(e, r.id, row, {KeyOf(old), <<r.title, old.version>>})
      BY <1>3, <1>6 DEF Patch
    <2>2. KeyOf(row) = <<r.title, old.version>>
      BY <1>4 DEF KeyOf
    <2> QED BY <1>1, <1>2, <1>4, <2>1, <2>2, Rewrites
  <1> QED BY <1>5, <1>6

LEMMA NumberPreserves == ASSUME GenomesInv, NEW e \in Editors, LookUpLatest(e) PROVE GenomesInv' /\ OnlyOwnersWrite
  <1>1. edit[e] # None /\ edit[e].does = "number" /\ EditOK(edit[e])
    BY DEF LookUpLatest, GenomesInv
  <1>2. PICK n \in Nat : n = Latest(edit[e].title) + 1
    BY LatestIsTheLast
  <1>3. PICK r : r = [does |-> "insert", by |-> edit[e].by, title |-> edit[e].title, spec |-> edit[e].spec, version |-> n]
    OBVIOUS
  <1>4. EditOK(r)
    BY <1>1, <1>3 DEF EditOK
  <1>5. edit' = [edit EXCEPT ![e] = r] /\ UNCHANGED <<genome, hub, served, rewritten>>
    BY <1>2, <1>3 DEF LookUpLatest
  <1> QED BY <1>4, <1>5, EditStep

LEMMA InsertPreserves ==
  ASSUME GenomesInv, NEW e \in Editors, NEW id \in GenomeIds, InsertVersion(e, id)
  PROVE  GenomesInv' /\ OnlyOwnersWrite
  <1>1. edit[e] # None /\ edit[e].does = "insert" /\ EditOK(edit[e]) /\ genome[id] = None
    BY DEF InsertVersion, GenomesInv
  <1>2. edit[e].title \in Titles /\ edit[e].spec \in Specs /\ edit[e].by \in Authors /\ edit[e].version \in Nat
    BY <1>1 DEF EditOK
  <1>3. Write(e, id, New(edit[e].by, edit[e].title, edit[e].version, edit[e].spec), {})
    BY DEF InsertVersion
  <1> QED BY <1>1, <1>2, <1>3, NewRow

LEMMA DeletePreserves == ASSUME GenomesInv, NEW e \in Editors, Delete(e) PROVE GenomesInv' /\ OnlyOwnersWrite
  <1> DEFINE r == edit[e]  old == genome[r.id]
  <1>1. r # None /\ r.does = "delete"
    BY DEF Delete
  <1>2. old \in Genome
    BY <1>1, RowOfEdit
  <1>3. PICK row : row = [old EXCEPT !.deleted = TRUE]
    OBVIOUS
  <1>4. row \in Genome /\ row.owner = old.owner /\ row.hub = old.hub /\ HubForm(row) = HubForm(old)
    BY <1>2, <1>3 DEF Genome, HubForm
  <1>5. Write(e, r.id, row, {})
    BY <1>3 DEF Delete
  <1> QED BY <1>1, <1>4, <1>5, InPlace

LEMMA MarkPreserves == ASSUME GenomesInv, NEW e \in Editors, MarkPublished(e) PROVE GenomesInv' /\ OnlyOwnersWrite
  <1> DEFINE r == edit[e]  old == genome[r.id]
  <1>1. r # None /\ r.does = "mark"
    BY DEF MarkPublished
  <1>2. old \in Genome /\ EditOK(r)
    BY <1>1, RowOfEdit
  <1>3. PICK h \in Nat : h = r.hub
    BY <1>1, <1>2 DEF EditOK
  <1>4. PICK row : row = [old EXCEPT !.hub = h]
    OBVIOUS
  <1>5. row \in Genome /\ row.owner = old.owner /\ row.hub = r.hub /\ HubForm(row) = HubForm(old)
    BY <1>2, <1>3, <1>4 DEF Genome, HubForm
  <1>6. Write(e, r.id, row, {})
    BY <1>3, <1>4 DEF MarkPublished
  <1> QED BY <1>1, <1>5, <1>6, InPlace

\* The hub takes entries, or changes them, which makes them foreign.
LEMMA HubStep ==
  ASSUME GenomesInv, UNCHANGED <<genome, served, rewritten>>, hub' \in Seq(HubEntry), Len(hub) <= Len(hub'),
         \A n \in 1 .. Len(hub) : KeyOf(hub'[n]) = KeyOf(hub[n]) /\ (hub'[n] = hub[n] \/ hub'[n].foreign),
         \A n \in 1 .. Len(hub') : n \in 1 .. Len(hub) \/ hub'[n].foreign \/ Kept(KeyOf(hub'[n]), hub'[n].spec),
         edit' = [f \in Editors |-> edit'[f]],
         \A f \in Editors : edit'[f] \in {None, edit[f]} \/ (EditOK(edit[f]))'
  PROVE  GenomesInv' /\ OnlyOwnersWrite
  <1>1. Len(hub) \in Nat /\ Len(hub') \in Nat /\ \A n : n \in 1 .. Len(hub) => n \in 1 .. Len(hub')
    BY DEF GenomesInv, GenomesTypeOK
  <1>2. ASSUME NEW n \in 1 .. Len(hub), NEW row, Says(hub[n], row) PROVE Says(hub'[n], row)
    BY <1>2 DEF Says
  <1>3. /\ \A key, spec : Kept(key, spec) => Kept(key, spec)'
        /\ \A x : Owns(x) => Owns(x)'
    BY DEF Kept, Owns, There
  <1>4. ASSUME NEW x, EditOK(x) PROVE EditOK(x)'
    <2>1. x.does = "mark" => /\ x.hub \in 1 .. Len(hub')
                             /\ KeyOf(genome[x.id]) \notin rewritten => Says(hub'[x.hub], genome[x.id])
      BY <1>1, <1>2, <1>4 DEF EditOK
    <2>2. x.does = "diff" => x.hub \in 1 .. Len(hub')
      BY <1>1, <1>4 DEF EditOK
    <2> QED BY <1>3, <1>4, <2>1, <2>2 DEF EditOK
  <1>5. ASSUME NEW f \in Editors PROVE (edit[f] # None => EditOK(edit[f]))'
    <2>1. PICK x : x = edit'[f]
      OBVIOUS
    <2>2. CASE x \in {None, edit[f]}
      <3>1. x # None => EditOK(x)
        BY <2>2 DEF GenomesInv
      <3>2. x # None => EditOK(x)'
        BY <1>4, <3>1
      <3> QED BY <2>1, <3>2 DEF EditOK
    <2>3. CASE x \notin {None, edit[f]}
      BY <2>1, <2>3
    <2> QED BY <2>2, <2>3
  <1>6. RowsOK'
    <2>1. ASSUME NEW id \in There, genome[id].hub # None
          PROVE  /\ genome[id].hub \in 1 .. Len(hub')
                 /\ KeyOf(genome[id]) \notin rewritten => Says(hub'[genome[id].hub], genome[id])
      BY <1>1, <1>2, <2>1 DEF GenomesInv, RowsOK
    <2> QED BY <2>1 DEF GenomesInv, RowsOK, There
  <1>7. ASSUME NEW key \in Foreign PROVE key \in Foreign'
    <2>1. PICK n \in 1 .. Len(hub) : hub[n].foreign /\ key = KeyOf(hub[n])
      BY DEF Foreign, GenomesInv, GenomesTypeOK
    <2>2. n \in 1 .. Len(hub') /\ hub'[n].foreign /\ key = KeyOf(hub'[n])
      BY <1>1, <2>1
    <2>3. DOMAIN hub' = 1 .. Len(hub')
      OBVIOUS
    <2> QED BY <2>2, <2>3 DEF Foreign, KeyOf
  <1>8. CopiesOK'
    <2>1. ASSUME NEW n \in 1 .. Len(hub'), ~hub'[n].foreign PROVE Kept(KeyOf(hub'[n]), hub'[n].spec)
      <3>1. CASE n \in 1 .. Len(hub)
        <4>1. hub'[n] = hub[n] /\ ~hub[n].foreign
          BY <2>1, <3>1
        <4> QED BY <3>1, <4>1 DEF GenomesInv, CopiesOK
      <3>2. CASE n \notin 1 .. Len(hub)
        BY <2>1, <3>2
      <3> QED BY <3>1, <3>2
    <2>2. ASSUME NEW n \in 1 .. Len(hub') PROVE (hub[n].foreign \/ Kept(KeyOf(hub[n]), hub[n].spec))'
      BY <2>1, <2>2 DEF Kept, There, KeyOf
    <2>3. ASSUME NEW s \in served' PROVE (Kept(s.key, s.spec) \/ (s.of = "hub" /\ s.key \in Foreign))'
      BY <1>3, <1>7, <2>3 DEF GenomesInv, CopiesOK
    <2> QED BY <2>2, <2>3 DEF CopiesOK
  <1>9. GenomesTypeOK' /\ NumbersEnd' /\ OnlyOwnersWrite
    BY DEF GenomesInv, GenomesTypeOK, NumbersEnd, There, OnlyOwnersWrite
  <1> QED BY <1>5, <1>6, <1>8, <1>9 DEF GenomesInv

LEMMA PostToHubPreserves == ASSUME GenomesInv, NEW e \in Editors, PostToHub(e) PROVE GenomesInv' /\ OnlyOwnersWrite
  <1>1. edit[e] # None /\ edit[e].does = "publish" /\ EditOK(edit[e])
    BY DEF PostToHub, GenomesInv
  <1>2. PICK row \in Genome : row = edit[e].row
    BY <1>1 DEF EditOK
  <1>3. PICK h : h = [title |-> row.title, version |-> row.version, spec |-> row.spec, foreign |-> FALSE]
    OBVIOUS
  <1>4. h \in HubEntry /\ KeyOf(h) = KeyOf(row) /\ h.spec = row.spec /\ hub' = Append(hub, h)
    BY <1>2, <1>3 DEF PostToHub, Genome, HubEntry, KeyOf
  <1>5. /\ Len(hub) \in Nat /\ Len(hub') = Len(hub) + 1 /\ hub'[Len(hub) + 1] = h
        /\ \A n \in 1 .. Len(hub) : hub'[n] = hub[n]
        /\ hub' \in Seq(HubEntry)
    BY <1>4 DEF GenomesInv, GenomesTypeOK
  <1>6. PICK r : r = [does |-> "mark", by |-> edit[e].by, id |-> edit[e].id, hub |-> Len(hub')]
    OBVIOUS
  <1>7. edit' = [edit EXCEPT ![e] = r] /\ UNCHANGED <<genome, served, rewritten>>
    BY <1>6 DEF PostToHub
  <1>8. EditOK(r)'
    <2>1. r.does = "mark" /\ r.by = edit[e].by /\ r.id = edit[e].id /\ r.hub = Len(hub')
      BY <1>6
    <2>2. /\ r.by \in Authors /\ r.id \in There /\ genome[r.id].owner = r.by
          /\ KeyOf(genome[r.id]) \notin rewritten => HubForm(row) = HubForm(genome[r.id])
      BY <1>1, <1>2, <2>1 DEF EditOK, Owns
    <2>3. Says(h, row)
      BY <1>4 DEF Says
    <2>4. KeyOf(genome[r.id]) \notin rewritten => Says(h, genome[r.id])
      BY <2>2, <2>3, SameForm
    <2>5. r.hub \in 1 .. Len(hub') /\ hub'[r.hub] = h
      BY <1>5, <2>1
    <2> QED BY <1>7, <2>1, <2>2, <2>4, <2>5 DEF EditOK, Owns, There
  <1>9. edit' = [f \in Editors |-> edit'[f]] /\ edit'[e] = r /\ \A f \in Editors : f # e => edit'[f] = edit[f]
    BY <1>7 DEF GenomesInv, GenomesTypeOK
  <1>10. ASSUME NEW f \in Editors PROVE edit'[f] \in {None, edit[f]} \/ (EditOK(edit[f]))'
    <2>1. CASE f = e
      BY <1>8, <1>9, <2>1 DEF EditOK
    <2> QED BY <1>9, <2>1
  <1>11. Kept(KeyOf(h), h.spec)
    BY <1>1, <1>2, <1>4 DEF EditOK
  <1>12. ASSUME NEW n \in 1 .. Len(hub')
         PROVE  n \in 1 .. Len(hub) \/ hub'[n].foreign \/ Kept(KeyOf(hub'[n]), hub'[n].spec)
    BY <1>5, <1>11
  <1> QED BY <1>5, <1>7, <1>9, <1>10, <1>12, HubStep

LEMMA HubCreatePreserves ==
  ASSUME GenomesInv, NEW title \in Titles, NEW number \in Nat, NEW spec \in Specs, HubCreate(title, number, spec)
  PROVE  GenomesInv' /\ OnlyOwnersWrite
  <1>1. PICK h : h = [title |-> title, version |-> number, spec |-> spec, foreign |-> TRUE]
    OBVIOUS
  <1>2. h \in HubEntry /\ h.foreign /\ hub' = Append(hub, h) /\ UNCHANGED <<genome, edit, served, rewritten>>
    BY <1>1 DEF HubCreate, HubEntry
  <1>3. /\ Len(hub) \in Nat /\ Len(hub') = Len(hub) + 1 /\ hub'[Len(hub) + 1] = h
        /\ \A n \in 1 .. Len(hub) : hub'[n] = hub[n]
        /\ hub' \in Seq(HubEntry)
    BY <1>2 DEF GenomesInv, GenomesTypeOK
  <1>4. \A n \in 1 .. Len(hub') : n \in 1 .. Len(hub) \/ hub'[n].foreign
    BY <1>2, <1>3
  <1>5. edit' = [f \in Editors |-> edit'[f]] /\ \A f \in Editors : edit'[f] = edit[f]
    BY <1>2 DEF GenomesInv, GenomesTypeOK
  <1> QED BY <1>2, <1>3, <1>4, <1>5, HubStep

LEMMA DiffPreserves ==
  ASSUME GenomesInv, NEW e \in Editors, NEW spec \in Specs, DiffOnHub(e, spec)
  PROVE  GenomesInv' /\ OnlyOwnersWrite
  <1>1. PICK m \in 1 .. Len(hub) : m = edit[e].hub
    BY DEF DiffOnHub, GenomesInv, EditOK
  <1>2. hub \in Seq(HubEntry) /\ hub[m] \in HubEntry /\ Len(hub) \in Nat
    BY DEF GenomesInv, GenomesTypeOK
  <1>3. PICK h : h = [hub[m] EXCEPT !.spec = spec, !.foreign = TRUE]
    OBVIOUS
  <1>4. h \in HubEntry /\ h.foreign /\ KeyOf(h) = KeyOf(hub[m])
    BY <1>2, <1>3 DEF HubEntry, KeyOf
  <1>5. /\ hub' = [hub EXCEPT ![m] = h] /\ edit' = [edit EXCEPT ![e] = None]
        /\ UNCHANGED <<genome, served, rewritten>>
    BY <1>1, <1>2, <1>3 DEF DiffOnHub, HubEntry
  <1>6. hub' \in Seq(HubEntry) /\ Len(hub') = Len(hub) /\ \A n \in 1 .. Len(hub) : hub'[n] = IF n = m THEN h ELSE hub[n]
    BY <1>2, <1>4, <1>5
  <1>7. edit' = [f \in Editors |-> edit'[f]] /\ \A f \in Editors : edit'[f] \in {None, edit[f]}
    BY <1>5 DEF GenomesInv, GenomesTypeOK
  <1>8. \A n \in 1 .. Len(hub) : KeyOf(hub'[n]) = KeyOf(hub[n]) /\ (hub'[n] = hub[n] \/ hub'[n].foreign)
    BY <1>4, <1>6
  <1> QED BY <1>2, <1>5, <1>6, <1>7, <1>8, HubStep

-----------------------------------------------------------------------------
(* Seeding.                                                                 *)

LEMMA SeedPreserves ==
  ASSUME GenomesInv, NEW title \in Official, NEW u \in Authors, NEW id \in GenomeIds, NEW spec \in Specs,
         SeedGenome(title, u, id, spec)
  PROVE  GenomesInv' /\ OnlyOwnersWrite
  <1> USE GenomesAssumption
  <1>1. PICK row : row = New(u, title, 1, spec)
    OBVIOUS
  <1>2. row \in Genome /\ row.hub = None /\ KeyOf(row) = <<title, 1>>
    BY <1>1 DEF New, Genome, KeyOf
  <1>3. /\ genome' = [genome EXCEPT ![id] = row] /\ rewritten' = rewritten \cup {} /\ UNCHANGED <<hub, served>>
        /\ edit' = [e \in Editors |-> None] /\ Latest(title) = 0 /\ genome[id] = None
    BY <1>1 DEF SeedGenome, ServerStarts
  <1>4. \A o \in There : KeyOf(genome[o]) # KeyOf(row)
    BY <1>2, <1>3, LatestIsTheLast DEF KeyOf
  <1>5. GenomesInv'
    BY <1>2, <1>3, <1>4, RowStep
  <1>6. OnlyOwnersWrite
    BY <1>3 DEF OnlyOwnersWrite, There, GenomesInv, GenomesTypeOK
  <1> QED BY <1>5, <1>6

LEMMA SeedAgainPreserves ==
  ASSUME GenomesInv, NEW title \in Official, NEW id \in There, NEW spec \in Specs, SeedAgain(title, id, spec)
  PROVE  GenomesInv' /\ OnlyOwnersWrite
  <1> USE GenomesAssumption
  <1>1. id \in GenomeIds /\ genome[id] # None /\ genome[id] \in Genome
    BY DEF There, GenomesInv, GenomesTypeOK
  <1>2. PICK row : row = [genome[id] EXCEPT !.spec = spec]
    OBVIOUS
  <1>3. PICK versions : versions = IF spec = genome[id].spec THEN {} ELSE {<<title, 1>>}
    OBVIOUS
  <1>4. /\ row \in Genome /\ row.hub = genome[id].hub /\ row.owner = genome[id].owner
        /\ row.title = genome[id].title /\ row.version = genome[id].version /\ row.spec = spec
    BY <1>1, <1>2 DEF Genome
  <1>5. /\ genome' = [genome EXCEPT ![id] = row] /\ rewritten' = rewritten \cup versions /\ UNCHANGED <<hub, served>>
        /\ edit' = [e \in Editors |-> None] /\ KeyOf(genome[id]) = <<title, 1>>
    BY <1>1, <1>2, <1>3 DEF SeedAgain, ServerStarts, Genome
  <1>6. KeyOf(row) = KeyOf(genome[id])
    BY <1>4 DEF KeyOf
  <1>7. spec = genome[id].spec => HubForm(row) = HubForm(genome[id])
    BY <1>4 DEF HubForm
  <1>8. \/ KeyOf(genome[id]) \in versions /\ KeyOf(row) \in versions
        \/ HubForm(row) = HubForm(genome[id])
    BY <1>3, <1>5, <1>6, <1>7
  <1>9. row.hub # None => /\ row.hub \in 1 .. Len(hub)
                          /\ KeyOf(row) \notin rewritten \cup versions => Says(hub[row.hub], row)
    BY <1>4, <1>6, <1>8, SameForm DEF GenomesInv, RowsOK
  <1>10. \A o \in There \ {id} : KeyOf(genome[o]) # KeyOf(row)
    BY <1>6 DEF GenomesInv, RowsOK
  <1>11. GenomesInv'
    BY <1>1, <1>4, <1>5, <1>8, <1>9, <1>10, RowStep
  <1>12. /\ \A o \in There : genome'[o] # genome[o] => o = id
         /\ genome'[id] = row /\ genome[id].title \in Official /\ genome[id].version = 1
    BY <1>1, <1>5 DEF There, GenomesInv, GenomesTypeOK, KeyOf
  <1> QED BY <1>4, <1>5, <1>11, <1>12 DEF OnlyOwnersWrite

LEMMA ServePreserves ==
  ASSUME GenomesInv, NEW copy, CachesMore(copy), UNCHANGED <<genome, edit, hub, rewritten>>,
         Kept(copy.key, copy.spec) \/ (copy.of = "hub" /\ copy.key \in Foreign)
  PROVE  GenomesInv' /\ OnlyOwnersWrite
  <1>1. (\A k, p : Kept(k, p) => Kept(k, p)') /\ Foreign' = Foreign
    BY DEF Kept, There, Foreign, KeyOf
  <1>2. \A s \in served' : Kept(s.key, s.spec) \/ (s.of = "hub" /\ s.key \in Foreign)
    BY DEF GenomesInv, CopiesOK, CachesMore
  <1>3. \A n \in 1 .. Len(hub) : (hub[n].foreign \/ Kept(KeyOf(hub[n]), hub[n].spec))'
    BY DEF GenomesInv, CopiesOK, Kept, There, KeyOf
  <1>4. CopiesOK'
    BY <1>1, <1>2, <1>3 DEF CopiesOK
  <1>5. \A f \in Editors : (edit[f] # None => EditOK(edit[f]))'
    BY DEF GenomesInv, EditOK, Owns, Kept, There, Says, KeyOf
  <1>6. GenomesTypeOK' /\ RowsOK' /\ NumbersEnd' /\ OnlyOwnersWrite
    BY DEF GenomesInv, GenomesTypeOK, RowsOK, NumbersEnd, There, OnlyOwnersWrite, Says, KeyOf
  <1> QED BY <1>4, <1>5, <1>6 DEF GenomesInv

LEMMA GenomesNextInv == GenomesInv /\ [GenomesNext]_genomeVars => GenomesInv' /\ (OnlyOwnersWrite \/ UNCHANGED genomeVars)
  <1> SUFFICES ASSUME GenomesInv, [GenomesNext]_genomeVars PROVE GenomesInv' /\ (OnlyOwnersWrite \/ UNCHANGED genomeVars)
    OBVIOUS
  <1>1. ASSUME NEW e \in Editors, GiveUpEdit(e) PROVE GenomesInv' /\ OnlyOwnersWrite
    BY <1>1, EditStep DEF GiveUpEdit
  <1>2. ASSUME NEW id \in GenomeIds, Serve(id) PROVE GenomesInv' /\ OnlyOwnersWrite
    <2>1. PICK copy : copy = [key |-> KeyOf(genome[id]), spec |-> genome[id].spec, of |-> "row"]
      OBVIOUS
    <2>2. Kept(copy.key, copy.spec)
      BY <1>2, <2>1 DEF Serve, Kept, There
    <2> QED BY <1>2, <2>1, <2>2, ServePreserves DEF Serve
  <1>3. ASSUME NEW n \in DOMAIN hub, ServeOfHub(n) PROVE GenomesInv' /\ OnlyOwnersWrite
    <2>1. PICK copy : copy = [key |-> KeyOf(hub[n]), spec |-> hub[n].spec, of |-> "hub"]
      OBVIOUS
    <2>2. n \in 1 .. Len(hub)
      BY DEF GenomesInv, GenomesTypeOK
    <2>3. Kept(copy.key, copy.spec) \/ (copy.of = "hub" /\ copy.key \in Foreign)
      BY <2>1, <2>2 DEF GenomesInv, CopiesOK, Foreign
    <2> QED BY <1>3, <2>1, <2>3, ServePreserves DEF ServeOfHub
  <1>4. CASE UNCHANGED genomeVars
    BY <1>4 DEF genomeVars, GenomesInv, GenomesTypeOK, RowsOK, CopiesOK, NumbersEnd, EditOK, Owns, Kept, There, Foreign
  <1>5. \A number \in HubNumbers : number \in Nat
    BY GenomesAssumption
  <1> QED BY <1>1, <1>2, <1>3, <1>4, <1>5, LooksPreserve, PostPreserves, PatchPreserves, NumberPreserves, InsertPreserves,
          DeletePreserves, MarkPreserves, PostToHubPreserves, HubCreatePreserves, DiffPreserves, SeedPreserves,
          SeedAgainPreserves DEF GenomesNext

LEMMA GenomesInvImplies == GenomesInv => ServedForEver /\ HubIdIsOfThisSpec
  <1> SUFFICES ASSUME GenomesInv PROVE ServedForEver /\ HubIdIsOfThisSpec
    OBVIOUS
  <1>1. ServedForEver
    <2> SUFFICES ASSUME NEW s \in served, NEW t \in served, s.key = t.key, s.key \notin rewritten,
                        s.key \in Foreign => s.of = "row" /\ t.of = "row"
                 PROVE  s.spec = t.spec
      BY DEF ServedForEver
    <2>1. Kept(s.key, s.spec) /\ Kept(t.key, t.spec)
      BY DEF GenomesInv, CopiesOK
    <2> QED BY <2>1 DEF Kept, GenomesInv, RowsOK
  <1>2. HubIdIsOfThisSpec
    BY DEF HubIdIsOfThisSpec, GenomesInv, RowsOK, Says
  <1> QED BY <1>1, <1>2

\* However requests on genomes interleave (the routes of evolutionRoutes), a version
\* that was served of its row says the same for ever unless it was posted anew,
\* renamed or seeded again, and so does one of the hub unless the hub got it by another
\* route than publication; only its owner, or a start of the server, writes a row: for
\* any accounts, titles, specifications, requests and starts.
THEOREM VersionsAlwaysImmutable == GenomesSpec => VersionsAreImmutable
  <1>1. GenomesInit => GenomesInv
    BY GenomesInitInv
  <1>2. GenomesInv /\ [GenomesNext]_genomeVars => GenomesInv' /\ [OnlyOwnersWrite]_genomeVars
    BY GenomesNextInv
  <1>3. GenomesInv => ServedForEver /\ HubIdIsOfThisSpec
    BY GenomesInvImplies
  <1> QED BY <1>1, <1>2, <1>3, PTL DEF GenomesSpec, VersionsAreImmutable

-----------------------------------------------------------------------------
(* Trials.                                                                  *)

TrialRow == [of : Subjects, inSession : BOOLEAN, open : BOOLEAN]

TrialsTypeOK == trials \in Seq(TrialRow) /\ trial = [c \in Trialists |-> trial[c]]

Starting(c) == trial[c] # None /\ trial[c].does = "start"

\* A start that is under way has the lock, and has seen whatever is open.
StarterSees ==
    \A c \in Trialists : Starting(c) => trialLock = c /\ OpenTrials \subseteq trial[c].seen

\* What is tried is one of the subjects, also in a start under way.
StarterKnows == \A c \in Trialists : Starting(c) => trial[c].of \in Subjects

TrialsInv == TrialsTypeOK /\ StarterSees /\ StarterKnows

-----------------------------------------------------------------------------
(* The helpers.                                                             *)

\* Ending trials keeps the rows, and closes those and no others.
LEMMA EndedRows ==
    ASSUME trials \in Seq(TrialRow), NEW ids
    PROVE  /\ Ended(ids) \in Seq(TrialRow)
           /\ DOMAIN Ended(ids) = DOMAIN trials /\ Len(Ended(ids)) = Len(trials)
           /\ {i \in DOMAIN trials : Ended(ids)[i].inSession /\ Ended(ids)[i].open} = OpenTrials \ ids
  <1>1. DOMAIN trials = 1 .. Len(trials) /\ Len(trials) \in Nat
    OBVIOUS
  <1>2. \A i \in DOMAIN trials : trials[i] \in TrialRow
    OBVIOUS
  <1>3. Ended(ids) \in [1 .. Len(trials) -> TrialRow]
    BY <1>1, <1>2 DEF Ended, TrialRow
  <1>4. Ended(ids) \in Seq(TrialRow) /\ Len(Ended(ids)) = Len(trials)
    BY <1>1, <1>3
  <1>5. ASSUME NEW i \in DOMAIN trials
        PROVE  (Ended(ids)[i].inSession /\ Ended(ids)[i].open) <=> (i \in OpenTrials /\ i \notin ids)
    BY <1>2 DEF Ended, OpenTrials, TrialRow
  <1> QED BY <1>1, <1>3, <1>4, <1>5 DEF OpenTrials

\* A new row is of what was asked for, and is at the end.
LEMMA NewTrialRow ==
    ASSUME NEW of \in Subjects
    PROVE  /\ NewTrial(of, TRUE) \in TrialRow
           /\ NewTrial(of, FALSE) \in TrialRow /\ NewTrial(of, FALSE).inSession = FALSE
  BY DEF NewTrial, TrialRow

LEMMA AppendedRow ==
    ASSUME NEW s \in Seq(TrialRow), NEW row \in TrialRow
    PROVE  /\ Append(s, row) \in Seq(TrialRow)
           /\ DOMAIN Append(s, row) = DOMAIN s \cup {Len(s) + 1}
           /\ \A i \in DOMAIN s : Append(s, row)[i] = s[i]
           /\ Append(s, row)[Len(s) + 1] = row
  OBVIOUS

-----------------------------------------------------------------------------
(* A start that commits leaves what it answers.                             *)

LEMMA CommitLeavesTold ==
    ASSUME TrialsInv, NEW c \in Trialists, CommitStart(c)
    PROVE  /\ trials' \in Seq(TrialRow)
           /\ OpenTrials' \subseteq {Told(trial[c].of, trial[c].seen)}
  <1> DEFINE of == trial[c].of  seen == trial[c].seen
  <1>1. trials \in Seq(TrialRow) /\ OpenTrials \subseteq seen /\ of \in Subjects
        /\ trials' = Started(of, seen)
    BY DEF TrialsInv, TrialsTypeOK, StarterSees, StarterKnows, Starting, CommitStart
  <1>2. CASE IsSame(of, seen)
    <2>1. trials' = Ended(seen \ {Primary(seen)}) /\ Told(of, seen) = Primary(seen)
      BY <1>1, <1>2 DEF Started, Told
    <2>2. trials' \in Seq(TrialRow) /\ OpenTrials' = OpenTrials \ (seen \ {Primary(seen)})
      BY <1>1, <2>1, EndedRows DEF OpenTrials
    <2> QED BY <1>1, <2>1, <2>2
  <1>3. CASE ~IsSame(of, seen)
    <2>1. trials' = Append(Ended(seen), NewTrial(of, TRUE)) /\ Told(of, seen) = Len(trials) + 1
      BY <1>1, <1>3 DEF Started, Told
    <2>2. /\ Ended(seen) \in Seq(TrialRow) /\ DOMAIN Ended(seen) = DOMAIN trials
          /\ Len(Ended(seen)) = Len(trials)
          /\ {i \in DOMAIN trials : Ended(seen)[i].inSession /\ Ended(seen)[i].open} = {}
      BY <1>1, EndedRows
    <2>3. /\ trials' \in Seq(TrialRow) /\ DOMAIN trials' = DOMAIN trials \cup {Len(trials) + 1}
          /\ \A i \in DOMAIN trials : trials'[i] = Ended(seen)[i]
      <3> DEFINE ended == Ended(seen)  row == NewTrial(of, TRUE)
      <3>1. ended \in Seq(TrialRow) /\ row \in TrialRow /\ trials' = Append(ended, row)
            /\ DOMAIN ended = DOMAIN trials /\ Len(ended) = Len(trials)
        BY <1>1, <2>1, <2>2, NewTrialRow
      <3> HIDE DEF ended, row
      <3>2. /\ trials' \in Seq(TrialRow) /\ DOMAIN trials' = DOMAIN trials \cup {Len(trials) + 1}
            /\ \A i \in DOMAIN trials : trials'[i] = ended[i]
        BY <3>1, AppendedRow
      <3> QED BY <3>2 DEF ended
    <2> QED BY <2>1, <2>2, <2>3 DEF OpenTrials
  <1> QED BY <1>2, <1>3

-----------------------------------------------------------------------------
(* The invariant is inductive.                                              *)

LEMMA TrialsInitInv == TrialsInit => TrialsInv
  <1> SUFFICES ASSUME TrialsInit PROVE TrialsInv
    OBVIOUS
  <1>1. trials \in Seq(TrialRow)
    <2>1. CASE trials = <<>>
      BY <2>1
    <2>2. CASE trials \in {<<NewTrial(o, TRUE), NewTrial(p, TRUE)>> : o \in Subjects, p \in Subjects}
      <3>1. PICK o \in Subjects, p \in Subjects :
                trials = <<[of |-> o, inSession |-> TRUE, open |-> TRUE],
                           [of |-> p, inSession |-> TRUE, open |-> TRUE]>>
        BY <2>2 DEF NewTrial
      <3> DEFINE first == [of |-> o, inSession |-> TRUE, open |-> TRUE]
                 second == [of |-> p, inSession |-> TRUE, open |-> TRUE]
      <3>2. first \in TrialRow /\ second \in TrialRow /\ trials = <<first, second>>
        BY <3>1 DEF TrialRow
      <3> HIDE DEF first, second
      <3> QED BY <3>2
    <2>3. \/ trials = <<>>
          \/ trials \in {<<NewTrial(o, TRUE), NewTrial(p, TRUE)>> : o \in Subjects, p \in Subjects}
      BY DEF TrialsInit, NewTrial
    <2> QED BY <2>1, <2>2, <2>3 DEF NewTrial
  <1> QED BY <1>1 DEF TrialsInit, TrialsInv, TrialsTypeOK, StarterSees, StarterKnows, Starting

LEMMA TrialsNextInv == TrialsInv /\ [TrialsNext]_trialVars => TrialsInv'
  <1> SUFFICES ASSUME TrialsInv, [TrialsNext]_trialVars PROVE TrialsInv'
    OBVIOUS
  <1> USE DEF TrialsInv, TrialsTypeOK, StarterSees, StarterKnows, Starting
  <1>1. ASSUME NEW of \in Subjects, StartLoose(of) PROVE TrialsInv'
    <2>1. trials' = Append(trials, NewTrial(of, FALSE)) /\ UNCHANGED <<trial, trialLock>>
      BY <1>1 DEF StartLoose
    <2>2. /\ trials' \in Seq(TrialRow) /\ DOMAIN trials' = DOMAIN trials \cup {Len(trials) + 1}
          /\ \A i \in DOMAIN trials : trials'[i] = trials[i]
          /\ trials'[Len(trials) + 1].inSession = FALSE
      <3> DEFINE row == NewTrial(of, FALSE)
      <3>1. row \in TrialRow /\ row.inSession = FALSE /\ trials' = Append(trials, row)
        BY <2>1, NewTrialRow
      <3> HIDE DEF row
      <3> QED BY <3>1, AppendedRow
    <2>3. OpenTrials' = OpenTrials
      BY <2>2 DEF OpenTrials
    <2> QED BY <2>1, <2>2, <2>3
  <1>2. ASSUME NEW of \in Subjects, NEW c \in Trialists, BeginStart(c, of) PROVE TrialsInv'
    <2>1. UNCHANGED trials /\ trialLock = None /\ trialLock' = c
          /\ trial' = [trial EXCEPT ![c] = [does |-> "start", of |-> of, seen |-> OpenTrials]]
      BY <1>2 DEF BeginStart, LockIsFree
    <2>2. OpenTrials' = OpenTrials
      BY <2>1 DEF OpenTrials
    <2>3. ASSUME NEW d \in Trialists, d # c PROVE ~Starting(d)' 
      BY <2>1, <2>3, TrialsAssumption
    <2>4. trial'[c].of = of /\ trial'[c].seen = OpenTrials
      BY <2>1
    <2> QED BY <2>1, <2>2, <2>3, <2>4
  <1>3. ASSUME NEW c \in Trialists, CommitStart(c) PROVE TrialsInv'
    <2>1. trial' = [trial EXCEPT ![c] = None] /\ Starting(c)
      BY <1>3 DEF CommitStart
    <2>2. ASSUME NEW d \in Trialists PROVE ~Starting(d)'
      BY <2>1
    <2> QED BY <1>3, <2>1, <2>2, CommitLeavesTold
  <1>4. ASSUME NEW c \in Trialists, RollBackStart(c) PROVE TrialsInv'
    <2>1. trial' = [trial EXCEPT ![c] = None] /\ Starting(c) /\ UNCHANGED trials
      BY <1>4 DEF RollBackStart
    <2>2. ASSUME NEW d \in Trialists PROVE ~Starting(d)'
      BY <2>1
    <2> QED BY <2>1, <2>2
  <1>5. ASSUME NEW c \in Trialists, EndOthers(c) PROVE TrialsInv'
    <2>1. /\ trials' = Ended(OpenTrials \ {trial[c].id}) /\ UNCHANGED trialLock
          /\ trial' = [trial EXCEPT ![c] = None]
      BY <1>5 DEF EndOthers
    <2>2. trials' \in Seq(TrialRow) /\ OpenTrials' \subseteq OpenTrials
      BY <2>1, EndedRows DEF OpenTrials
    <2>3. ASSUME NEW d \in Trialists, Starting(d)' PROVE Starting(d) /\ trial'[d] = trial[d]
      BY <2>1, <2>3
    <2> QED BY <2>1, <2>2, <2>3
  <1>6. ASSUME NEW c \in Trialists, NEW i \in DOMAIN trials, EndTrial(c, i) PROVE TrialsInv'
    <2>1. /\ trials' = Ended({i}) /\ UNCHANGED trialLock
          /\ trial' = trial \/ trial' = [trial EXCEPT ![c] = [does |-> "end", id |-> i]]
      BY <1>6 DEF EndTrial
    <2>2. trials' \in Seq(TrialRow) /\ OpenTrials' \subseteq OpenTrials
      BY <2>1, EndedRows DEF OpenTrials
    <2>3. ASSUME NEW d \in Trialists, Starting(d)' PROVE Starting(d) /\ trial'[d] = trial[d]
      BY <2>1, <2>3
    <2>4. trial' = [d \in Trialists |-> trial'[d]]
      BY <2>1
    <2> QED BY <2>1, <2>2, <2>3, <2>4
  <1>7. CASE UNCHANGED trialVars
    BY <1>7 DEF trialVars, OpenTrials
  <1> QED BY <1>1, <1>2, <1>3, <1>4, <1>5, <1>6, <1>7 DEF TrialsNext

LEMMA TrialsInvariant == TrialsSpec => []TrialsInv
  BY TrialsInitInv, TrialsNextInv, PTL DEF TrialsSpec

-----------------------------------------------------------------------------

\* A start leaves no trial of the session open but the one it answers, for any
\* number of clients (ensureSingleOpenSessionTrial under withSessionTrialLock).
THEOREM OneTrialIsOpen == TrialsSpec => StartLeavesOneOpen
  <1>1. TrialsInv /\ [TrialsNext]_trialVars =>
          [\A c \in Trialists : CommitStart(c) =>
              OpenTrials' \subseteq {Told(trial[c].of, trial[c].seen)}]_trialVars
    BY CommitLeavesTold
  <1> QED BY <1>1, TrialsInvariant, PTL DEF TrialsSpec, StartLeavesOneOpen

-----------------------------------------------------------------------------
(* The bridge between a user and the bot service.                           *)

WeixinTypeOK ==
    /\ creds \in Credentials \cup {None} /\ works \in [Works -> Work \cup {None}]
    /\ inbox \in [Bots -> Nat] /\ loops \in Seq(Loop) /\ bridge \in (1 .. Len(loops)) \cup {None}
    /\ overlapped \in BOOLEAN /\ unsaved \in BOOLEAN

\* The cursor of a loop is at the last message it told.
Tells(l) ==
    /\ \A i \in 1 .. Len(l.told) - 1 : l.told[i + 1] = l.told[i] + 1
    /\ l.told # <<>> => l.buf = l.told[Len(l.told)]

LoopsOK == \A l \in 1 .. Len(loops) : Tells(loops[l]) /\ (loops[l].running => l = bridge)

Agree ==
    bridge # None => /\ creds # None /\ loops[bridge].bot = creds.bot
                     /\ loops[bridge].policy = creds.policy \/ unsaved

\* What a piece of work that runs alone has done so far.
Halfway(k) ==
    /\ k.kind = "bind" /\ ~k.saved => Agree
    /\ k.kind = "bind" /\ k.saved => creds # None /\ creds.bot = k.bot /\ creds.policy = "all"
    /\ k.kind = "unbind" => bridge = None
    /\ k.kind = "policy" /\ bridge # None =>
          creds # None /\ loops[bridge].bot = creds.bot /\ loops[bridge].policy = k.policy
    /\ k.kind \in {"policy", "inbound"} /\ k.read => k.of = creds
    /\ k.kind \in {"inbound", "publish"} => Agree
    /\ k.kind = "start" => bridge = None /\ (k.read => creds # None /\ k.of = creds)

InTurn ==
    /\ \A w, v \in Works : works[w] # None /\ works[v] # None => w = v
    /\ Rest => Agree
    /\ \A w \in Works : works[w] # None => Halfway(works[w])

WeixinInv == WeixinTypeOK /\ LoopsOK /\ (~overlapped => InTurn)

LEMMA WeixinInitInv == WeixinInit => WeixinInv
  <1> SUFFICES ASSUME WeixinInit PROVE WeixinInv
    OBVIOUS
  <1>1. WeixinTypeOK
    <2>1. loops \in Seq(Loop) /\ bridge = None
      BY DEF WeixinInit
    <2> QED BY <2>1 DEF WeixinInit, WeixinTypeOK
  <1>2. Len(loops) = 0
    BY DEF WeixinInit
  <1>3. LoopsOK
    BY <1>2 DEF LoopsOK
  <1>4. InTurn
    BY DEF WeixinInit, InTurn, Agree
  <1> QED BY <1>1, <1>3, <1>4 DEF WeixinInv

\* One loop changes.
LEMMA LoopWritten ==
  ASSUME NEW s \in Seq(Loop), NEW l \in 1 .. Len(s), NEW row \in Loop
  PROVE  /\ [s EXCEPT ![l] = row] \in Seq(Loop) /\ Len([s EXCEPT ![l] = row]) = Len(s)
         /\ [s EXCEPT ![l] = row][l] = row
         /\ \A k \in 1 .. Len(s) : k # l => [s EXCEPT ![l] = row][k] = s[k]
  OBVIOUS

\* Stopping a bridge changes nothing but that no loop runs.
LEMMA StoppedLoops ==
  ASSUME WeixinInv, NEW s, s = Stopped(loops)
  PROVE  /\ s \in Seq(Loop) /\ Len(s) = Len(loops)
         /\ \A l \in 1 .. Len(s) : /\ Tells(s[l]) /\ ~s[l].running
                                   /\ s[l].bot = loops[l].bot /\ s[l].policy = loops[l].policy
  <1> USE WeixinAssumption
  <1>1. CASE bridge = None
    <2>1. s = loops
      BY <1>1 DEF Stopped
    <2> QED BY <1>1, <2>1 DEF WeixinInv, WeixinTypeOK, LoopsOK
  <1>2. CASE bridge # None
    <2>1. PICK b \in 1 .. Len(loops) : b = bridge
      BY <1>2 DEF WeixinInv, WeixinTypeOK
    <2>2. loops \in Seq(Loop) /\ loops[b] \in Loop
      BY DEF WeixinInv, WeixinTypeOK
    <2>3. PICK row : row = [loops[b] EXCEPT !.running = FALSE]
      OBVIOUS
    <2>4. row \in Loop /\ ~row.running /\ row.bot = loops[b].bot /\ row.policy = loops[b].policy
          /\ row.told = loops[b].told /\ row.buf = loops[b].buf
      BY <2>2, <2>3 DEF Loop
    <2>5. s = [loops EXCEPT ![b] = row]
      BY <1>2, <2>1, <2>3 DEF Stopped
    <2>6. /\ s \in Seq(Loop) /\ Len(s) = Len(loops) /\ s[b] = row
          /\ \A k \in 1 .. Len(loops) : k # b => s[k] = loops[k]
      BY <2>2, <2>4, <2>5, LoopWritten
    <2>7. Tells(row)
      BY <2>1, <2>4 DEF WeixinInv, LoopsOK, Tells
    <2> QED BY <2>1, <2>4, <2>6, <2>7 DEF WeixinInv, LoopsOK
  <1> QED BY <1>1, <1>2

\* So does changing its policy, but for the policy.
LEMMA PolicySet ==
  ASSUME WeixinInv, NEW p \in Policies, SetPolicy(p)
  PROVE  /\ loops' \in Seq(Loop) /\ Len(loops') = Len(loops)
         /\ \A l \in 1 .. Len(loops) : Tells(loops'[l]) /\ (loops'[l].running => l = bridge)
         /\ bridge # None => loops'[bridge].bot = loops[bridge].bot /\ loops'[bridge].policy = p
  <1> USE WeixinAssumption
  <1>1. CASE bridge = None
    <2>1. loops' = loops
      BY <1>1 DEF SetPolicy
    <2> QED BY <1>1, <2>1 DEF WeixinInv, WeixinTypeOK, LoopsOK
  <1>2. CASE bridge # None
    <2>1. PICK b \in 1 .. Len(loops) : b = bridge
      BY <1>2 DEF WeixinInv, WeixinTypeOK
    <2>2. loops \in Seq(Loop) /\ loops[b] \in Loop
      BY DEF WeixinInv, WeixinTypeOK
    <2>3. PICK row : row = [loops[b] EXCEPT !.policy = p]
      OBVIOUS
    <2>4. row \in Loop /\ (row.running => loops[b].running) /\ row.bot = loops[b].bot /\ row.policy = p
          /\ row.told = loops[b].told /\ row.buf = loops[b].buf
      BY <2>2, <2>3 DEF Loop
    <2>5. loops' = [loops EXCEPT ![b] = row]
      BY <1>2, <2>1, <2>3 DEF SetPolicy
    <2>6. /\ loops' \in Seq(Loop) /\ Len(loops') = Len(loops) /\ loops'[b] = row
          /\ \A k \in 1 .. Len(loops) : k # b => loops'[k] = loops[k]
      BY <2>2, <2>4, <2>5, LoopWritten
    <2>7. Tells(row)
      BY <2>1, <2>4 DEF WeixinInv, LoopsOK, Tells
    <2> QED BY <2>1, <2>4, <2>6, <2>7 DEF WeixinInv, LoopsOK
  <1> QED BY <1>1, <1>2

\* A loop tells the message at its cursor.
LEMMA MessageTold ==
  ASSUME NEW l \in Loop, Tells(l), NEW f \in Nat, l.buf # None => f = l.buf,
         NEW row \in Loop, row.told = Append(l.told, f + 1), row.buf = f + 1
  PROVE  Tells(row)
  <1> USE WeixinAssumption
  <1>1. PICK t \in Seq(Nat) : t = l.told
    BY DEF Loop
  <1>2. /\ Len(t) \in Nat /\ Len(row.told) = Len(t) + 1 /\ row.told[Len(t) + 1] = f + 1
        /\ \A i \in 1 .. Len(t) : row.told[i] = t[i] /\ t[i] \in Nat
    BY <1>1
  <1>3. ASSUME NEW i \in 1 .. Len(row.told) - 1 PROVE row.told[i + 1] = row.told[i] + 1
    <2>1. CASE i = Len(t)
      <3>1. Len(t) \in 1 .. Len(t) /\ t # <<>>
        BY <1>2, <2>1
      <3>2. l.buf = t[Len(t)] /\ t[Len(t)] # None
        BY <1>1, <1>2, <3>1 DEF Tells
      <3>3. f = t[Len(t)]
        BY <3>2
      <3>4. row.told[i + 1] = f + 1 /\ row.told[i] = t[Len(t)]
        BY <1>2, <2>1, <3>1
      <3> QED BY <3>3, <3>4
    <2>2. CASE i # Len(t)
      <3>1. i \in 1 .. Len(t) - 1 /\ i \in 1 .. Len(t) /\ i + 1 \in 1 .. Len(t)
        BY <1>2, <2>2
      <3>2. t[i + 1] = t[i] + 1
        BY <1>1, <3>1 DEF Tells
      <3> QED BY <1>2, <3>1, <3>2
    <2> QED BY <2>1, <2>2
  <1> QED BY <1>2, <1>3 DEF Tells

-----------------------------------------------------------------------------
\* The loops are as they were: only credentials and works change.
LEMMA LoopsStay ==
  ASSUME WeixinInv, UNCHANGED <<bridge, loops, inbox>>, creds' \in Credentials \cup {None},
         works' \in [Works -> Work \cup {None}], overlapped' \in BOOLEAN, unsaved' \in BOOLEAN,
         ~overlapped' => InTurn'
  PROVE  WeixinInv'
  <1>1. WeixinTypeOK'
    BY DEF WeixinInv, WeixinTypeOK
  <1>2. LoopsOK'
    BY DEF WeixinInv, LoopsOK
  <1> QED BY <1>1, <1>2 DEF WeixinInv

\* A request begins alone, or overlaps.
LEMMA BeginsAlone ==
  ASSUME WeixinInv, NEW w \in Works, NEW k \in Work, Begins(w, k)
  PROVE  /\ works' \in [Works -> Work \cup {None}] /\ overlapped' \in BOOLEAN
         /\ ~overlapped' => /\ ~overlapped /\ Agree /\ ~Rest' /\ works'[w] = k
                            /\ \A v \in Works : works'[v] # None => v = w
  <1> USE WeixinAssumption
  <1>1. works' = [works EXCEPT ![w] = k] /\ k # None
    BY DEF Begins
  <1> QED BY <1>1 DEF Begins, WeixinInv, WeixinTypeOK, InTurn, Rest

LEMMA BindPreserves == ASSUME WeixinInv, NEW w \in Works, NEW b \in Bots, AskBind(w, b) PROVE WeixinInv'
  <1>1. PICK k : k = [kind |-> "bind", bot |-> b, saved |-> FALSE]
    OBVIOUS
  <1>2. k \in Work /\ k.kind = "bind" /\ ~k.saved
    BY <1>1 DEF Work
  <1>3. Begins(w, k) /\ UNCHANGED <<creds, bridge, loops, inbox, unsaved>>
    BY <1>1 DEF AskBind, AsksWeixin
  <1>4. ~overlapped' => InTurn'
    BY <1>2, <1>3, BeginsAlone DEF InTurn, Halfway, Agree
  <1> QED BY <1>2, <1>3, <1>4, BeginsAlone, LoopsStay DEF WeixinInv, WeixinTypeOK

LEMMA UnbindPreserves == ASSUME WeixinInv, NEW w \in Works, AskUnbind(w) PROVE WeixinInv'
  <1> USE WeixinAssumption
  <1>1. PICK k : k = [kind |-> "unbind"]
    OBVIOUS
  <1>2. k \in Work /\ k.kind = "unbind"
    BY <1>1 DEF Work
  <1>3. Begins(w, k) /\ loops' = Stopped(loops) /\ bridge' = None /\ unsaved' = FALSE /\ UNCHANGED <<creds, inbox>>
    BY <1>1 DEF AskUnbind, AsksWeixin
  <1>4. ~overlapped' => InTurn'
    BY <1>2, <1>3, BeginsAlone DEF InTurn, Halfway, Agree
  <1>5. WeixinTypeOK'
    BY <1>2, <1>3, BeginsAlone, StoppedLoops DEF WeixinInv, WeixinTypeOK
  <1>6. LoopsOK'
    BY <1>3, StoppedLoops DEF LoopsOK
  <1> QED BY <1>4, <1>5, <1>6 DEF WeixinInv

LEMMA PolicyPreserves == ASSUME WeixinInv, NEW w \in Works, NEW p \in Policies, AskPolicy(w, p) PROVE WeixinInv'
  <1> USE WeixinAssumption
  <1>1. PICK k : k = [kind |-> "policy", policy |-> p, read |-> FALSE, of |-> None]
    OBVIOUS
  <1>2. k \in Work /\ k.kind = "policy" /\ k.policy = p /\ ~k.read
    BY <1>1 DEF Work
  <1>3. Begins(w, k) /\ SetPolicy(p) /\ UNCHANGED <<creds, bridge, inbox, unsaved>>
    BY <1>1 DEF AskPolicy, AsksWeixin
  <1>4. ~overlapped' => InTurn'
    BY <1>2, <1>3, BeginsAlone, PolicySet DEF InTurn, Halfway, Agree
  <1>5. WeixinTypeOK'
    BY <1>2, <1>3, BeginsAlone, PolicySet DEF WeixinInv, WeixinTypeOK
  <1>6. LoopsOK'
    BY <1>3, PolicySet DEF LoopsOK
  <1> QED BY <1>4, <1>5, <1>6 DEF WeixinInv

\* A piece of work goes on, is over or becomes another one.
LEMMA WorkMoves ==
  ASSUME WeixinInv, NEW w \in Works, works[w] # None, NEW k \in Work \cup {None}, works' = [works EXCEPT ![w] = k],
         UNCHANGED overlapped,
         ~overlapped => (k = None => Agree') /\ (k # None => Halfway(k)')
  PROVE  /\ works' \in [Works -> Work \cup {None}] /\ overlapped' \in BOOLEAN /\ (~overlapped' => InTurn')
  <1>1. works' \in [Works -> Work \cup {None}] /\ works'[w] = k /\ \A v \in Works : v # w => works'[v] = works[v]
    BY DEF WeixinInv, WeixinTypeOK
  <1>2. ASSUME ~overlapped' PROVE InTurn'
    <2>1. \A v \in Works : v # w => works'[v] = None
      BY <1>1, <1>2 DEF WeixinInv, InTurn
    <2> QED BY <1>1, <1>2, <2>1 DEF InTurn, Rest
  <1> QED BY <1>1, <1>2 DEF WeixinInv, WeixinTypeOK

LEMMA SaveBindingPreserves == ASSUME WeixinInv, NEW w \in Works, SaveBinding(w) PROVE WeixinInv'
  <1> USE WeixinAssumption
  <1>1. works[w] \in [kind : {"bind"}, bot : Bots, saved : BOOLEAN] /\ works[w].kind = "bind"
    BY DEF SaveBinding, WeixinInv, WeixinTypeOK, Work
  <1>2. PICK k : k = [works[w] EXCEPT !.saved = TRUE]
    OBVIOUS
  <1>3. k \in Work /\ k.kind = "bind" /\ k.saved /\ k.bot = works[w].bot /\ k.bot \in Bots
    BY <1>1, <1>2 DEF Work
  <1>4. creds' \in Credentials /\ creds'.bot = k.bot /\ creds'.policy = "all"
    BY <1>3 DEF SaveBinding, Credentials, Policies
  <1>5. works' = [works EXCEPT ![w] = k] /\ works[w] # None /\ UNCHANGED <<bridge, loops, inbox, overlapped, unsaved>>
    BY <1>2 DEF SaveBinding
  <1>6. Halfway(k)' /\ k # None
    BY <1>3, <1>4 DEF Halfway
  <1> QED BY <1>3, <1>4, <1>5, <1>6, WorkMoves, LoopsStay DEF WeixinInv, WeixinTypeOK

LEMMA DeleteBindingPreserves == ASSUME WeixinInv, NEW w \in Works, DeleteBinding(w) PROVE WeixinInv'
  <1>1. works[w] # None /\ works' = [works EXCEPT ![w] = None] /\ UNCHANGED <<bridge, loops, inbox, overlapped, unsaved>> /\ creds' = None
    BY DEF DeleteBinding, Vacates
  <1>2. ~overlapped => Agree'
    BY <1>1 DEF DeleteBinding, WeixinInv, InTurn, Halfway, Agree
  <1> QED BY <1>1, <1>2, WorkMoves, LoopsStay DEF WeixinInv, WeixinTypeOK

LEMMA LoadPreserves == ASSUME WeixinInv, NEW w \in Works, LoadCredentials(w) PROVE WeixinInv'
  <1> USE WeixinAssumption
  <1>1. PICK k : k = [works[w] EXCEPT !.read = TRUE, !.of = creds]
    OBVIOUS
  <1>2. works[w] # None /\ works[w] \in Work /\ creds \in Credentials \cup {None} /\ works[w].kind \in {"policy", "inbound"}
    BY DEF LoadCredentials, WeixinInv, WeixinTypeOK
  <1>3. /\ k \in Work /\ k.kind = works[w].kind /\ k.read /\ k.of = creds
        /\ k.kind = "policy" => k.policy = works[w].policy
    <2>1. CASE works[w].kind = "policy"
      <3>1. works[w] \in [kind : {"policy"}, policy : Policies, read : BOOLEAN, of : Credentials \cup {None}]
        BY <1>2, <2>1 DEF Work
      <3> QED BY <1>1, <1>2, <3>1 DEF Work
    <2>2. CASE works[w].kind = "inbound"
      <3>1. works[w] \in [kind : {"inbound"}, bot : Bots, message : Nat, read : BOOLEAN, of : Credentials \cup {None}]
        BY <1>2, <2>2 DEF Work
      <3> QED BY <1>1, <1>2, <2>2, <3>1 DEF Work
    <2> QED BY <1>2, <2>1, <2>2
  <1>4. works' = [works EXCEPT ![w] = k] /\ UNCHANGED <<creds, bridge, loops, inbox, overlapped, unsaved>>
    BY <1>1 DEF LoadCredentials
  <1>5. ~overlapped => Halfway(k)'
    BY <1>2, <1>3, <1>4 DEF WeixinInv, InTurn, Halfway, Agree
  <1> QED BY <1>2, <1>3, <1>4, <1>5, WorkMoves, LoopsStay DEF WeixinInv, WeixinTypeOK

LEMMA SavePolicyPreserves == ASSUME WeixinInv, NEW w \in Works, SavePolicy(w) PROVE WeixinInv'
  <1> USE WeixinAssumption
  <1>1. works[w] # None /\ works[w].kind = "policy" /\ works[w].read /\ creds \in Credentials \cup {None}
        /\ works[w] \in [kind : {"policy"}, policy : Policies, read : BOOLEAN, of : Credentials \cup {None}]
    BY DEF SavePolicy, WeixinInv, WeixinTypeOK, Work
  <1>2. works' = [works EXCEPT ![w] = None] /\ UNCHANGED <<bridge, loops, inbox, overlapped>> /\ unsaved' = FALSE
    BY DEF SavePolicy, Vacates
  <1>3. CASE works[w].of = None
    <2>1. creds' = creds
      BY <1>3 DEF SavePolicy, SavesBack
    <2>2. ~overlapped => Agree'
      BY <1>1, <1>2, <1>3, <2>1 DEF WeixinInv, InTurn, Halfway, Agree
    <2> QED BY <1>1, <1>2, <2>1, <2>2, WorkMoves, LoopsStay
  <1>4. CASE works[w].of # None
    <2>1. PICK c : c = [works[w].of EXCEPT !.policy = works[w].policy]
      OBVIOUS
    <2>2. c \in Credentials /\ c.bot = works[w].of.bot /\ c.policy = works[w].policy
      BY <1>1, <1>4, <2>1 DEF Credentials
    <2>3. creds' = c
      BY <1>4, <2>1 DEF SavePolicy, SavesBack
    <2>4. ~overlapped => Agree'
      BY <1>1, <1>2, <2>2, <2>3 DEF WeixinInv, InTurn, Halfway, Agree
    <2> QED BY <1>1, <1>2, <2>2, <2>3, <2>4, WorkMoves, LoopsStay
  <1> QED BY <1>3, <1>4

LEMMA SaveContextPreserves == ASSUME WeixinInv, NEW w \in Works, SaveContext(w) PROVE WeixinInv'
  <1> USE WeixinAssumption
  <1>1. works[w] # None /\ works[w].kind = "inbound" /\ works[w].read /\ creds \in Credentials \cup {None}
        /\ works[w] \in [kind : {"inbound"}, bot : Bots, message : Nat, read : BOOLEAN, of : Credentials \cup {None}]
    BY DEF SaveContext, WeixinInv, WeixinTypeOK, Work
  <1>2. PICK k : k = [kind |-> "publish", bot |-> works[w].bot, message |-> works[w].message]
    OBVIOUS
  <1>3. k \in Work /\ k.kind = "publish"
    BY <1>1, <1>2 DEF Work
  <1>4. works' = [works EXCEPT ![w] = k] /\ UNCHANGED <<bridge, loops, inbox, overlapped, unsaved>>
    BY <1>2 DEF SaveContext
  <1>5. CASE creds' = creds
    <2>1. ~overlapped => Halfway(k)'
      BY <1>1, <1>3, <1>4, <1>5 DEF WeixinInv, InTurn, Halfway, Agree
    <2> QED BY <1>1, <1>3, <1>4, <1>5, <2>1, WorkMoves, LoopsStay DEF WeixinInv, WeixinTypeOK
  <1>6. CASE creds' # creds
    <2>1. PICK c : c = [works[w].of EXCEPT !.context = works[w].message]
      OBVIOUS
    <2>2. works[w].of # None /\ creds' = c
      BY <1>6, <2>1 DEF SaveContext, SavesBack
    <2>3. c \in Credentials /\ c.bot = works[w].of.bot /\ c.policy = works[w].of.policy
      BY <1>1, <2>1, <2>2 DEF Credentials
    <2>4. ~overlapped => Halfway(k)'
      BY <1>1, <1>3, <1>4, <2>2, <2>3 DEF WeixinInv, InTurn, Halfway, Agree
    <2> QED BY <1>1, <1>3, <1>4, <2>2, <2>3, <2>4, WorkMoves, LoopsStay DEF WeixinInv, WeixinTypeOK
  <1> QED BY <1>5, <1>6

LEMMA PublishPreserves == ASSUME WeixinInv, NEW w \in Works, PublishInbound(w) PROVE WeixinInv'
  <1> USE WeixinAssumption
  <1>1. works[w] # None /\ works[w].kind = "publish" /\ creds \in Credentials \cup {None} /\ UNCHANGED <<creds, bridge, inbox, overlapped, unsaved>>
    BY DEF PublishInbound, WeixinInv, WeixinTypeOK
  <1>2. CASE Vacates(w) /\ UNCHANGED loops
    <2>1. ~overlapped => Agree'
      BY <1>1, <1>2 DEF WeixinInv, InTurn, Halfway, Agree
    <2> QED BY <1>1, <1>2, <2>1, WorkMoves, LoopsStay DEF Vacates, WeixinInv, WeixinTypeOK
  <1>3. ASSUME NEW p \in {"all", "important"}, SetPolicy(p),
               works' = [works EXCEPT ![w] = [kind |-> "policy", policy |-> p, read |-> FALSE, of |-> None]]
        PROVE  WeixinInv'
    <2>1. PICK k : k = [kind |-> "policy", policy |-> p, read |-> FALSE, of |-> None]
      OBVIOUS
    <2>2. k \in Work /\ k.kind = "policy" /\ k.policy = p /\ ~k.read /\ p \in Policies
      BY <2>1 DEF Work, Policies
    <2>3. /\ loops' \in Seq(Loop) /\ Len(loops') = Len(loops)
          /\ \A l \in 1 .. Len(loops) : Tells(loops'[l]) /\ (loops'[l].running => l = bridge)
          /\ bridge # None => loops'[bridge].bot = loops[bridge].bot /\ loops'[bridge].policy = p
      BY <1>3, <2>2, PolicySet
    <2>4. ~overlapped => Halfway(k)'
      BY <1>1, <2>2, <2>3 DEF WeixinInv, InTurn, Halfway, Agree
    <2>5. works' \in [Works -> Work \cup {None}] /\ overlapped' \in BOOLEAN /\ (~overlapped' => InTurn')
      BY <1>1, <1>3, <2>1, <2>2, <2>4, WorkMoves
    <2>6. WeixinTypeOK'
      BY <1>1, <2>3, <2>5 DEF WeixinInv, WeixinTypeOK
    <2>7. LoopsOK'
      BY <1>1, <2>3 DEF LoopsOK
    <2> QED BY <2>5, <2>6, <2>7 DEF WeixinInv
  <1> QED BY <1>2, <1>3 DEF PublishInbound

\* A new loop is the only one that runs.
LEMMA LoopAppended ==
  ASSUME NEW s \in Seq(Loop), \A l \in 1 .. Len(s) : Tells(s[l]) /\ ~s[l].running,
         NEW row \in Loop, row.told = <<>>, loops' = Append(s, row), bridge' = Len(s) + 1
  PROVE  loops' \in Seq(Loop) /\ bridge' \in 1 .. Len(loops') /\ LoopsOK' /\ loops'[bridge'] = row
  <1>1. /\ Len(s) \in Nat /\ Len(loops') = Len(s) + 1 /\ loops'[Len(s) + 1] = row /\ loops' \in Seq(Loop)
        /\ \A l \in 1 .. Len(s) : loops'[l] = s[l]
    OBVIOUS
  <1>2. Tells(row)
    BY DEF Tells
  <1>3. ASSUME NEW l \in 1 .. Len(loops') PROVE Tells(loops'[l]) /\ (loops'[l].running => l = bridge')
    <2>1. l = Len(s) + 1 \/ l \in 1 .. Len(s)
      BY <1>1
    <2> QED BY <1>1, <1>2, <2>1
  <1> QED BY <1>1, <1>3 DEF LoopsOK

LEMMA BindingStartPreserves == ASSUME WeixinInv, NEW w \in Works, StartBinding(w) PROVE WeixinInv'
  <1> USE WeixinAssumption
  <1>1. works[w] # None /\ works[w].kind = "bind" /\ works[w].saved /\ works[w].bot \in Bots
    BY DEF StartBinding, WeixinInv, WeixinTypeOK, Work
  <1>2. works' = [works EXCEPT ![w] = None] /\ UNCHANGED <<creds, inbox, overlapped>> /\ unsaved' = FALSE
    BY DEF StartBinding, StartLoop, Vacates
  <1>3. PICK row : row = [bot |-> works[w].bot, policy |-> "all", running |-> TRUE, over |-> FALSE, buf |-> None, told |-> <<>>]
    OBVIOUS
  <1>4. row \in Loop /\ row.told = <<>> /\ row.bot = works[w].bot /\ row.policy = "all"
    BY <1>1, <1>3 DEF Loop, Policies
  <1>5. PICK s : s = Stopped(loops)
    OBVIOUS
  <1>6. s \in Seq(Loop) /\ Len(s) = Len(loops) /\ \A l \in 1 .. Len(s) : Tells(s[l]) /\ ~s[l].running
    BY <1>5, StoppedLoops
  <1>7. loops' = Append(s, row) /\ bridge' = Len(s) + 1
    BY <1>3, <1>5, <1>6 DEF StartBinding, StartLoop
  <1>8. loops' \in Seq(Loop) /\ bridge' \in 1 .. Len(loops') /\ LoopsOK' /\ loops'[bridge'] = row
    BY <1>4, <1>6, <1>7, LoopAppended
  <1>9. ~overlapped => Agree'
    BY <1>1, <1>2, <1>4, <1>8 DEF WeixinInv, InTurn, Halfway, Agree
  <1>10. works' \in [Works -> Work \cup {None}] /\ overlapped' \in BOOLEAN /\ (~overlapped' => InTurn')
    BY <1>1, <1>2, <1>9, WorkMoves
  <1>11. WeixinTypeOK'
    BY <1>2, <1>8, <1>10 DEF WeixinInv, WeixinTypeOK
  <1> QED BY <1>8, <1>10, <1>11 DEF WeixinInv

LEMMA PollPreserves ==
  ASSUME WeixinInv, NEW l \in Loops, NEW w \in Works, PollBrings(l, w)
  PROVE  WeixinInv'
  <1> USE WeixinAssumption
  <1>1. l \in 1 .. Len(loops) /\ loops \in Seq(Loop) /\ loops[l] \in Loop /\ loops[l].bot \in Bots /\ inbox[loops[l].bot] \in Nat
    <2>1. l \in 1 .. Len(loops) /\ loops \in Seq(Loop)
      BY DEF Loops, WeixinInv, WeixinTypeOK
    <2>2. loops[l] \in Loop
      BY <2>1
    <2> QED BY <2>1, <2>2 DEF Loop, WeixinInv, WeixinTypeOK
  <1>2. PICK f \in From(l) :
          /\ loops' = [loops EXCEPT ![l].buf = f + 1, ![l].told = Append(@, f + 1), ![l].over = ~loops[l].running]
          /\ Begins(w, [kind |-> "inbound", bot |-> loops[l].bot, message |-> f + 1, read |-> FALSE, of |-> None])
    BY DEF PollBrings
  <1>3. f \in Nat /\ (loops[l].buf # None => f = loops[l].buf)
    BY <1>1, <1>2 DEF From, Loop
  <1>4. PICK g \in Nat : g = f + 1
    BY <1>3
  <1>5. PICK row : row = [loops[l] EXCEPT !.buf = g, !.told = Append(@, g), !.over = ~loops[l].running]
    OBVIOUS
  <1>6. /\ row \in Loop /\ row.told = Append(loops[l].told, g) /\ row.buf = g
        /\ row.bot = loops[l].bot /\ row.policy = loops[l].policy /\ (row.running => loops[l].running)
    <2>0. loops[l].told \in Seq(Nat)
      BY <1>1 DEF Loop
    <2>1. PICK t : t = Append(loops[l].told, g)
      OBVIOUS
    <2>3. t \in Seq(Nat)
      BY <2>0, <2>1
    <2>2. row = [loops[l] EXCEPT !.buf = g, !.told = t, !.over = ~loops[l].running]
      BY <1>1, <1>5, <2>1 DEF Loop
    <2> QED BY <1>1, <2>1, <2>2, <2>3 DEF Loop
  <1>7. loops' = [loops EXCEPT ![l] = row]
    BY <1>2, <1>4, <1>5
  <1>8. /\ loops' \in Seq(Loop) /\ Len(loops') = Len(loops) /\ loops'[l] = row
        /\ \A k \in 1 .. Len(loops) : k # l => loops'[k] = loops[k]
    BY <1>1, <1>6, <1>7, LoopWritten
  <1>9. Tells(row)
    BY <1>1, <1>3, <1>4, <1>6, MessageTold DEF WeixinInv, LoopsOK
  <1>10. PICK k : k = [kind |-> "inbound", bot |-> loops[l].bot, message |-> g, read |-> FALSE, of |-> None]
    OBVIOUS
  <1>11. k \in Work /\ k.kind = "inbound" /\ ~k.read
    BY <1>1, <1>10 DEF Work
  <1>12. Begins(w, k) /\ UNCHANGED <<creds, bridge, inbox, unsaved>>
    BY <1>2, <1>4, <1>10 DEF PollBrings
  <1>13. LoopsOK'
    BY <1>1, <1>6, <1>8, <1>9, <1>12 DEF LoopsOK, WeixinInv
  <1>14. Agree => Agree'
    BY <1>1, <1>6, <1>8, <1>12 DEF Agree, WeixinInv, WeixinTypeOK
  <1>15. ~overlapped' => InTurn'
    BY <1>11, <1>12, <1>14, BeginsAlone DEF InTurn, Halfway
  <1>16. WeixinTypeOK'
    BY <1>8, <1>11, <1>12, BeginsAlone DEF WeixinTypeOK, WeixinInv
  <1> QED BY <1>13, <1>15, <1>16 DEF WeixinInv

LEMMA PollEndsPreserves == ASSUME WeixinInv, NEW l \in Loops, PollBringsNothing(l) PROVE WeixinInv'
  <1> USE WeixinAssumption
  <1>1. l \in 1 .. Len(loops) /\ loops \in Seq(Loop) /\ loops[l] \in Loop
    BY DEF Loops, WeixinInv, WeixinTypeOK
  <1>2. PICK row : row = [loops[l] EXCEPT !.over = TRUE]
    OBVIOUS
  <1>3. /\ row \in Loop /\ row.told = loops[l].told /\ row.buf = loops[l].buf
        /\ row.bot = loops[l].bot /\ row.policy = loops[l].policy /\ (row.running => loops[l].running)
    BY <1>1, <1>2 DEF Loop
  <1>4. loops' = [loops EXCEPT ![l] = row] /\ UNCHANGED <<creds, bridge, inbox, works, overlapped, unsaved>>
    BY <1>2 DEF PollBringsNothing
  <1>5. /\ loops' \in Seq(Loop) /\ Len(loops') = Len(loops) /\ loops'[l] = row
        /\ \A k \in 1 .. Len(loops) : k # l => loops'[k] = loops[k]
    BY <1>1, <1>3, <1>4, LoopWritten
  <1>6. Tells(row)
    BY <1>1, <1>3 DEF WeixinInv, LoopsOK, Tells
  <1>7. LoopsOK'
    BY <1>1, <1>3, <1>4, <1>5, <1>6 DEF LoopsOK, WeixinInv
  <1>8. \A k \in 1 .. Len(loops) : loops'[k].bot = loops[k].bot /\ loops'[k].policy = loops[k].policy
    BY <1>3, <1>5
  <1>9. (Agree => Agree') /\ \A v \in Works : Halfway(works[v]) => Halfway(works[v])'
    BY <1>4, <1>8 DEF Agree, Halfway, WeixinInv, WeixinTypeOK
  <1>10. ~overlapped' => InTurn'
    BY <1>4, <1>9 DEF InTurn, WeixinInv, Rest
  <1>11. WeixinTypeOK'
    BY <1>4, <1>5 DEF WeixinTypeOK, WeixinInv
  <1> QED BY <1>7, <1>10, <1>11 DEF WeixinInv

\* A request that fails leaves the bridge with a policy that was not saved, at most.
LEMMA FailurePreserves == ASSUME WeixinInv, NEW w \in Works, QueryFails(w) PROVE WeixinInv'
  <1>1. /\ works[w] # None /\ works' = [works EXCEPT ![w] = None]
        /\ UNCHANGED <<creds, bridge, loops, inbox, overlapped>> /\ creds \in Credentials \cup {None}
        /\ unsaved' = (unsaved \/ works[w].kind = "policy")
        /\ works[w].kind \in {"bind", "unbind", "policy", "start"} /\ (works[w].kind = "bind" => ~works[w].saved)
    BY DEF QueryFails, Vacates, WeixinInv, WeixinTypeOK
  <1>2. unsaved' \in BOOLEAN
    BY <1>1 DEF WeixinInv, WeixinTypeOK
  <1>3. ASSUME ~overlapped PROVE Agree'
    <2>1. Halfway(works[w])
      BY <1>1, <1>3 DEF WeixinInv, InTurn
    <2>2. CASE works[w].kind = "bind"
      BY <1>1, <2>1, <2>2 DEF Halfway, Agree
    <2>3. CASE works[w].kind \in {"unbind", "start"}
      BY <1>1, <2>1, <2>3 DEF Halfway, Agree
    <2>4. CASE works[w].kind = "policy"
      BY <1>1, <2>1, <2>4 DEF Halfway, Agree
    <2> QED BY <1>1, <2>2, <2>3, <2>4
  <1> QED BY <1>1, <1>2, <1>3, WorkMoves, LoopsStay

LEMMA RestartPreserves == ASSUME WeixinInv, NEW w \in Works, RestartBridges(w) PROVE WeixinInv'
  <1> USE WeixinAssumption
  <1>1. PICK s : s = [l \in Loops |-> [loops[l] EXCEPT !.running = FALSE, !.over = TRUE]]
    OBVIOUS
  <1>2. loops \in Seq(Loop) /\ Loops = 1 .. Len(loops) /\ Len(loops) \in Nat /\ creds \in Credentials \cup {None}
    BY DEF Loops, WeixinInv, WeixinTypeOK
  <1>3. ASSUME NEW l \in 1 .. Len(loops)
        PROVE  s[l] \in Loop /\ ~s[l].running /\ Tells(s[l])
    <2>1. loops[l] \in Loop /\ Tells(loops[l])
      BY <1>2 DEF WeixinInv, LoopsOK
    <2>2. s[l] = [loops[l] EXCEPT !.running = FALSE, !.over = TRUE]
      BY <1>1, <1>2
    <2>3. s[l] \in Loop /\ ~s[l].running /\ s[l].told = loops[l].told /\ s[l].buf = loops[l].buf
      BY <2>1, <2>2 DEF Loop
    <2> QED BY <2>1, <2>3 DEF Tells
  <1>4. s \in [1 .. Len(loops) -> Loop]
    BY <1>1, <1>2, <1>3
  <1>5. s \in Seq(Loop) /\ Len(s) = Len(loops)
    BY <1>2, <1>4
  <1>6. PICK k : k = [kind |-> "start", read |-> FALSE, of |-> None]
    OBVIOUS
  <1>7. k \in Work /\ k.kind = "start" /\ ~k.read
    BY <1>6 DEF Work
  <1>8. /\ works' = [v \in Works |-> IF v = w THEN k ELSE None] /\ UNCHANGED <<creds, inbox>>
        /\ loops' = s /\ bridge' = None /\ overlapped' = FALSE /\ unsaved' = FALSE
    BY <1>1, <1>6 DEF RestartBridges
  <1>9. InTurn'
    BY <1>7, <1>8 DEF InTurn, Agree, Halfway, Rest
  <1>10. LoopsOK'
    BY <1>3, <1>5, <1>8 DEF LoopsOK
  <1>11. WeixinTypeOK'
    BY <1>5, <1>7, <1>8 DEF WeixinTypeOK, WeixinInv
  <1> QED BY <1>9, <1>10, <1>11 DEF WeixinInv

\* What the start reads is a record of its own kind.
LEMMA StartWork ==
  ASSUME WeixinInv, NEW w \in Works, NEW read, AtStart(w, read)
  PROVE  /\ works[w] # None
         /\ \/ read = FALSE /\ works[w] \in [kind : {"start"}, read : {FALSE}, of : {None}]
            \/ read = TRUE /\ works[w] \in [kind : {"start"}, read : {TRUE}, of : Credentials]
         /\ ~overlapped => bridge = None /\ (read = TRUE => creds # None /\ works[w].of = creds)
  BY DEF AtStart, WeixinInv, WeixinTypeOK, Work, InTurn, Halfway

LEMMA LoadAtStartPreserves == ASSUME WeixinInv, NEW w \in Works, LoadAtStart(w) PROVE WeixinInv'
  <1>1. AtStart(w, FALSE) /\ UNCHANGED <<creds, bridge, loops, inbox, overlapped, unsaved>>
    BY DEF LoadAtStart
  <1>2. PICK k : k = [works[w] EXCEPT !.read = TRUE, !.of = creds]
    OBVIOUS
  <1>3. /\ works[w] # None
        /\ StartsAgain(creds) => k \in Work /\ k # None /\ k.kind = "start" /\ k.of = creds
    <2>1. works[w] # None /\ works[w] \in [kind : {"start"}, read : {FALSE}, of : {None}]
      BY <1>1, StartWork
    <2>2. ASSUME StartsAgain(creds) PROVE creds \in Credentials
      BY <2>2 DEF StartsAgain, WeixinInv, WeixinTypeOK
    <2>3. ASSUME StartsAgain(creds) PROVE k \in [kind : {"start"}, read : {TRUE}, of : Credentials] /\ k.of = creds
      BY <1>2, <2>1, <2>2, <2>3
    <2> QED BY <2>1, <2>3, WeixinAssumption DEF Work
  <1>4. \/ StartsAgain(creds) /\ works' = [works EXCEPT ![w] = k]
        \/ works' = [works EXCEPT ![w] = None]
    BY <1>2 DEF LoadAtStart, Vacates
  <1>5. ~overlapped => Agree' /\ (StartsAgain(creds) => Halfway(k)')
    BY <1>1, <1>3, StartWork DEF Agree, Halfway, StartsAgain
  <1> QED BY <1>1, <1>3, <1>4, <1>5, WorkMoves, LoopsStay DEF WeixinInv, WeixinTypeOK

LEMMA BackfillPreserves == ASSUME WeixinInv, NEW w \in Works, BackfillContext(w) PROVE WeixinInv'
  <1>1. AtStart(w, TRUE) /\ UNCHANGED <<bridge, loops, inbox, overlapped, unsaved>>
    BY DEF BackfillContext
  <1>2. PICK c \in Contexts : creds' = [works[w].of EXCEPT !.context = c] /\ works' = [works EXCEPT ![w].of = creds']
    BY DEF BackfillContext
  <1>3. c \in Nat
    <2>1. PICK l \in 1 .. Len(loops) : c \in Range(loops[l].told)
      BY DEF Contexts, Loops, WeixinInv, WeixinTypeOK
    <2>2. loops \in Seq(Loop)
      BY DEF WeixinInv, WeixinTypeOK
    <2>3. loops[l] \in Loop
      BY <2>2
    <2>4. loops[l].told \in Seq(Nat)
      BY <2>3 DEF Loop
    <2> QED BY <2>1, <2>4 DEF Range
  <1>4. works[w] # None /\ works[w] \in [kind : {"start"}, read : {TRUE}, of : Credentials]
    BY <1>1, StartWork
  <1>5. works[w].of \in Credentials
    BY <1>4
  <1>6. creds' \in Credentials /\ creds' # None
    BY <1>2, <1>3, <1>5, WeixinAssumption DEF Credentials
  <1>7. PICK k : k = [works[w] EXCEPT !.of = creds']
    OBVIOUS
  <1>8. k \in Work /\ k # None /\ k.kind = "start" /\ k.read /\ k.of = creds' /\ works' = [works EXCEPT ![w] = k]
    BY <1>2, <1>4, <1>6, <1>7, WeixinAssumption DEF Work
  <1>9. ~overlapped => Halfway(k)'
    BY <1>1, <1>6, <1>8, StartWork DEF Halfway
  <1> QED BY <1>1, <1>4, <1>6, <1>8, <1>9, WorkMoves, LoopsStay DEF WeixinInv, WeixinTypeOK

LEMMA StartAgainPreserves == ASSUME WeixinInv, NEW w \in Works, StartAgain(w) PROVE WeixinInv'
  <1> USE WeixinAssumption
  <1>1. AtStart(w, TRUE) /\ works' = [works EXCEPT ![w] = None] /\ UNCHANGED <<creds, inbox, overlapped>> /\ unsaved' = FALSE
    BY DEF StartAgain, StartLoop, Vacates
  <1>2. PICK c : c = works[w].of
    OBVIOUS
  <1>3. works[w] # None /\ c \in Credentials /\ (~overlapped => creds # None /\ c = creds)
    BY <1>1, <1>2, StartWork DEF StartAgain
  <1>4. PICK row : row = [bot |-> c.bot, policy |-> c.policy, running |-> TRUE, over |-> FALSE, buf |-> None, told |-> <<>>]
    OBVIOUS
  <1>5. row \in Loop /\ row.told = <<>> /\ row.bot = c.bot /\ row.policy = c.policy
    BY <1>3, <1>4 DEF Loop, Credentials
  <1>6. PICK s : s = Stopped(loops)
    OBVIOUS
  <1>7. s \in Seq(Loop) /\ Len(s) = Len(loops) /\ \A l \in 1 .. Len(s) : Tells(s[l]) /\ ~s[l].running
    BY <1>6, StoppedLoops
  <1>8. loops' = Append(s, row) /\ bridge' = Len(s) + 1
    BY <1>2, <1>4, <1>6, <1>7 DEF StartAgain, StartLoop
  <1>9. loops' \in Seq(Loop) /\ bridge' \in 1 .. Len(loops') /\ LoopsOK' /\ loops'[bridge'] = row
    BY <1>5, <1>7, <1>8, LoopAppended
  <1>10. ~overlapped => Agree'
    BY <1>1, <1>3, <1>5, <1>9 DEF Agree
  <1>11. works' \in [Works -> Work \cup {None}] /\ overlapped' \in BOOLEAN /\ (~overlapped' => InTurn')
    BY <1>1, <1>3, <1>10, WorkMoves
  <1>12. WeixinTypeOK'
    BY <1>1, <1>9, <1>11 DEF WeixinInv, WeixinTypeOK
  <1> QED BY <1>9, <1>11, <1>12 DEF WeixinInv

LEMMA WeixinNextInv == WeixinInv /\ [WeixinNext]_weixinVars => WeixinInv'
  <1> SUFFICES ASSUME WeixinInv, [WeixinNext]_weixinVars PROVE WeixinInv'
    OBVIOUS
  <1>1. ASSUME UNCHANGED <<creds, bridge, loops, works, overlapped, unsaved>>, inbox' \in [Bots -> Nat] PROVE WeixinInv'
    BY <1>1 DEF WeixinInv, WeixinTypeOK, LoopsOK, InTurn, Agree, Halfway, Rest
  <1>2. ASSUME NEW b \in Bots, WriteToBot(b) PROVE WeixinInv'
    BY <1>1, <1>2 DEF WriteToBot, WeixinInv, WeixinTypeOK
  <1>3. CASE UNCHANGED weixinVars
    BY <1>1, <1>3 DEF weixinVars, WeixinInv, WeixinTypeOK
  <1> QED BY <1>2, <1>3, BindPreserves, UnbindPreserves, PolicyPreserves, SaveBindingPreserves, BindingStartPreserves,
          DeleteBindingPreserves, LoadPreserves, SavePolicyPreserves, SaveContextPreserves, PublishPreserves,
          PollPreserves, PollEndsPreserves, FailurePreserves, RestartPreserves,
          LoadAtStartPreserves, BackfillPreserves, StartAgainPreserves DEF WeixinNext, LoopSteps

LEMMA WeixinInvImplies == WeixinInv => OneFaithfulBridge
  <1> USE WeixinAssumption
  <1> SUFFICES ASSUME WeixinInv PROVE OneFaithfulBridge
    OBVIOUS
  <1>1. Loops = 1 .. Len(loops)
    BY DEF Loops, WeixinInv, WeixinTypeOK
  <1>2. OneLoopRuns /\ LoopsTellInOrder
    BY <1>1 DEF OneLoopRuns, LoopsTellInOrder, WeixinInv, LoopsOK, Tells
  <1>3. BridgeFollowsCredentials
    BY DEF BridgeFollowsCredentials, WeixinInv, InTurn, Agree
  <1>4. CredentialsNameABot
    BY DEF CredentialsNameABot, WeixinInv, WeixinTypeOK, Credentials
  <1> QED BY <1>2, <1>3, <1>4 DEF OneFaithfulBridge

\* However bindings, policies, starts and messages interleave and fail (the bridge's
\* manager, its poll loops and its callbacks), at most one loop polls for the user
\* and tells of no message twice; and if nothing overlapped since the server started,
\* it serves the bot he is bound to, with his policy unless one could not be saved,
\* for any bots, works and bounds.
THEOREM BridgeIsAlwaysFaithful == WeixinSpec => []OneFaithfulBridge
  <1>1. WeixinInit => WeixinInv
    BY WeixinInitInv
  <1>2. WeixinInv /\ [WeixinNext]_weixinVars => WeixinInv'
    BY WeixinNextInv
  <1>3. WeixinInv => OneFaithfulBridge
    BY WeixinInvImplies
  <1> QED BY <1>1, <1>2, <1>3, PTL DEF WeixinSpec


-----------------------------------------------------------------------------
(* TaskRoutes.                                                              *)

\* What is proved of the board, for the board of the routes.
Board == INSTANCE TaskBoardProofs WITH
    board <- jobs, used <- jobIds, TaskIds <- Jobs, Sessions <- Helpers, Refs <- {},
    NoTask <- None, NoSession <- None, Keep <- "keep", MaxDepth <- 3, MaxBlockers <- 1,
    CreateStatuses <- {"todo"}, RefSets <- {{}}, FlagSets <- {AnyFlags},
    UpdateStatuses <- {"keep", "done"}, UpdateParents <- {},
    UpdateAssignees <- Helpers \cup {None}, UpdateRefs <- {{}}, LockModes <- {"editing"}

LEMMA JobsAreLegal == Board!InputsAreLegal
  <1>1. Board!IsFiniteSet(Jobs)
    BY TasksAssumption DEF TasksAssumption, IsFiniteSet, Board!IsFiniteSet
  <1> QED BY <1>1, TasksAssumption
          DEF TasksAssumption, Board!InputsAreLegal, Board!Statuses, Board!Modes, Board!Flags, AnyFlags

\* The routes' operations are those of the board.
LEMMA SameActive ==
  ASSUME NEW b, NEW t
  PROVE  Orchestrator!Active(b, t) = Board!Active(b, t)
  BY DEF Orchestrator!Active, Board!Active

LEMMA SameCreate ==
  ASSUME NEW t, NEW p
  PROVE  Orchestrator!CreateTask(t, p, "todo", None, AnyFlags, {})
         <=> Board!CreateTask(t, p, "todo", None, AnyFlags, {})
  BY Zenon DEF Orchestrator!CreateTask, Board!CreateTask, Orchestrator!WithinNesting, Board!WithinNesting

LEMMA SameUpdate ==
  ASSUME NEW t, NEW status, NEW h, NEW p
  PROVE  Orchestrator!UpdateTask(t, status, h, p, {}, FALSE)
         <=> Board!UpdateTask(t, status, h, p, {}, FALSE)
  BY Zenon DEF Orchestrator!UpdateTask, Board!UpdateTask, Orchestrator!LockAllows, Board!LockAllows,
     Orchestrator!CleanupActiveExecutionLinks, Board!CleanupActiveExecutionLinks,
     Orchestrator!HandleTaskCompletion, Board!HandleTaskCompletion,
     Orchestrator!PropagateBlockerToParent, Board!PropagateBlockerToParent,
     Orchestrator!ReadyForReview, Board!ReadyForReview, Orchestrator!Climb, Board!Climb,
     Orchestrator!Chain, Board!Chain, Orchestrator!Steps, Board!Steps,
     Orchestrator!Cardinality, Board!Cardinality

LEMMA SameDelete ==
  ASSUME NEW t
  PROVE  Orchestrator!DeleteTask(t) <=> Board!DeleteTask(t)
  BY Zenon DEF Orchestrator!DeleteTask, Board!DeleteTask,
     Orchestrator!CollectSubtaskIds, Board!CollectSubtaskIds

LEMMA SameStart ==
  ASSUME NEW t, NEW h
  PROVE  Orchestrator!StartTask(t, h, FALSE) <=> Board!StartTask(t, h, FALSE)
  BY Zenon DEF Orchestrator!StartTask, Board!StartTask, Orchestrator!LockAllows, Board!LockAllows,
     Orchestrator!HeldByOther, Board!HeldByOther, Orchestrator!Active, Board!Active,
     Orchestrator!DuplicateExecutionConflict, Board!DuplicateExecutionConflict

LEMMA SameComplete ==
  ASSUME NEW t, NEW h
  PROVE  Orchestrator!CompleteTask(t, h, FALSE) <=> Board!CompleteTask(t, h, FALSE)
  BY Zenon DEF Orchestrator!CompleteTask, Board!CompleteTask, Orchestrator!LockAllows, Board!LockAllows,
     Orchestrator!CleanupActiveExecutionLinks, Board!CleanupActiveExecutionLinks,
     Orchestrator!HandleTaskCompletion, Board!HandleTaskCompletion,
     Orchestrator!ReadyForReview, Board!ReadyForReview, Orchestrator!Climb, Board!Climb,
     Orchestrator!Chain, Board!Chain, Orchestrator!Steps, Board!Steps,
     Orchestrator!Cardinality, Board!Cardinality

LEMMA SameReport ==
  ASSUME NEW t
  PROVE  Orchestrator!ReportBlocker(t, FALSE) <=> Board!ReportBlocker(t, FALSE)
  BY Zenon DEF Orchestrator!ReportBlocker, Board!ReportBlocker, Orchestrator!LockAllows, Board!LockAllows,
     Orchestrator!PropagateBlockerToParent, Board!PropagateBlockerToParent,
     Orchestrator!Climb, Board!Climb, Orchestrator!Chain, Board!Chain, Orchestrator!Steps, Board!Steps,
     Orchestrator!Cardinality, Board!Cardinality

LEMMA SameResolve ==
  ASSUME NEW t, NEW isOpen
  PROVE  Orchestrator!ResolveBlocker(t, isOpen, FALSE) <=> Board!ResolveBlocker(t, isOpen, FALSE)
  BY Zenon DEF Orchestrator!ResolveBlocker, Board!ResolveBlocker, Orchestrator!LockAllows, Board!LockAllows,
     Orchestrator!MayUnblock, Board!MayUnblock, Orchestrator!Closes, Board!Closes,
     Orchestrator!UpdateParentBlockedStatus, Board!UpdateParentBlockedStatus,
     Orchestrator!FlaggedAfter, Board!FlaggedAfter, Orchestrator!Chain, Board!Chain,
     Orchestrator!Steps, Board!Steps, Orchestrator!Cardinality, Board!Cardinality

LEMMA SameLock ==
  ASSUME NEW t
  PROVE  /\ Orchestrator!SetHumanStatusLock(t, "editing") <=> Board!SetHumanStatusLock(t, "editing")
         /\ Orchestrator!ClearHumanStatusLock(t, "keep") <=> Board!ClearHumanStatusLock(t, "keep")
  BY Zenon DEF Orchestrator!SetHumanStatusLock, Board!SetHumanStatusLock,
     Orchestrator!ClearHumanStatusLock, Board!ClearHumanStatusLock

LEMMA SameRelease ==
  ASSUME NEW h
  PROVE  Orchestrator!ReleaseSessionTaskLocks(h) <=> Board!ReleaseSessionTaskLocks(h)
  BY Zenon DEF Orchestrator!ReleaseSessionTaskLocks, Board!ReleaseSessionTaskLocks,
     Orchestrator!Active, Board!Active

\* What an operation on the board comes to for the routes: the board stays well formed and
\* nobody takes a task.
Calm == Board!MadeInv' /\ Board!NobodyStarts

LEMMA BoardGoesOn ==
  ASSUME Board!MadeInv, Board!ActorNext(FALSE)
  PROVE  Board!MadeInv'
  <1>1. Board!Next
    BY DEF Board!Next
  <1> QED BY <1>1, JobsAreLegal, Board!MadeNext DEF Board!InputsAreLegal

LEMMA TasksAreJobs ==
  ASSUME Board!MadeInv
  PROVE  DOMAIN jobs \subseteq Jobs
  BY DEF Board!MadeInv, Board!Inv, Board!TypeOK

LEMMA EditIsCalm ==
  ASSUME Board!MadeInv, NEW e, e.helper \in Helpers \cup {None}, Edit(e)
  PROVE  Calm
  <1>1. CASE CreateRoute
    <2>1. PICK t \in Jobs, p \in Jobs \cup {None} :
             Board!CreateTask(t, p, "todo", None, AnyFlags, {})
      BY <1>1, SameCreate DEF CreateRoute
    <2>2. Board!ActorNext(FALSE)
      BY <2>1 DEF Board!ActorNext
    <2>3. Board!NobodyStarts
      BY <2>1, JobsAreLegal, Board!CreateSound DEF Board!InputsAreLegal
    <2> QED BY <2>2, <2>3, BoardGoesOn DEF Calm
  <1>2. CASE \E t \in DOMAIN jobs : UpdateRoute(e.helper, t)
    <2>1. PICK t \in DOMAIN jobs, status \in {"keep", "done"} :
             Board!UpdateTask(t, status, e.helper, jobs[t].parent, {}, FALSE)
      BY <1>2, SameUpdate DEF UpdateRoute
    <2>2. /\ e.helper \in Helpers \cup {None} \cup {jobs[t].assignee}
          /\ jobs[t].parent \in {} \cup {jobs[t].parent}
          /\ {} \in {{}} \cup {jobs[t].refs}
      OBVIOUS
    <2>3. Board!ActorNext(FALSE)
      BY <2>1, <2>2 DEF Board!ActorNext
    <2>4. Board!NobodyStarts
      BY <2>1, <2>2, JobsAreLegal, Board!UpdateSound DEF Board!InputsAreLegal
    <2> QED BY <2>3, <2>4, BoardGoesOn DEF Calm
  <1>3. CASE \E t \in DOMAIN jobs : DeleteRoute(t)
    <2>1. PICK t \in Jobs : Board!DeleteTask(t)
      BY <1>3, SameDelete, TasksAreJobs DEF DeleteRoute
    <2>2. Board!ActorNext(FALSE)
      BY <2>1 DEF Board!ActorNext
    <2>3. Board!NobodyStarts
      BY <2>1, JobsAreLegal, Board!DeleteSound DEF Board!InputsAreLegal
    <2> QED BY <2>2, <2>3, BoardGoesOn DEF Calm
  <1> QED BY <1>1, <1>2, <1>3 DEF Edit

LEMMA LockIsCalm ==
  ASSUME Board!MadeInv, Lock
  PROVE  Calm
  <1>1. PICK t \in DOMAIN jobs :
           Board!SetHumanStatusLock(t, "editing") \/ Board!ClearHumanStatusLock(t, "keep")
    BY SameLock DEF Lock, SetLockRoute, ClearLockRoute
  <1>2. Board!ActorNext(FALSE)
    BY <1>1, TasksAreJobs DEF Board!ActorNext
  <1>3. Board!NobodyStarts
    BY <1>1, JobsAreLegal, Board!LockSound
       DEF Board!InputsAreLegal, Board!SetHumanStatusLock, Board!ClearHumanStatusLock
  <1> QED BY <1>2, <1>3, BoardGoesOn DEF Calm

\* A release leaves nothing to the session.
LEMMA ReleaseIsCalm ==
  ASSUME Board!MadeInv, NEW h \in Helpers, ReleaseRoute(h)
  PROVE  Calm /\ \A t \in DOMAIN jobs' : h \notin Board!Active(jobs', t)
  <1>1. Board!ReleaseSessionTaskLocks(h)
    BY SameRelease DEF ReleaseRoute
  <1>2. Board!ActorNext(FALSE)
    BY <1>1 DEF Board!ActorNext
  <1>3. Board!NobodyStarts
    BY <1>1, JobsAreLegal, Board!ReleaseSound DEF Board!InputsAreLegal
  <1>4. \A t \in DOMAIN jobs' : h \notin Board!Active(jobs', t)
    BY <1>1, JobsAreLegal, Board!ReleaseFrees DEF Board!InputsAreLegal, Board!MadeInv
  <1> QED BY <1>2, <1>3, <1>4, BoardGoesOn DEF Calm

\* What a session does puts tasks in no hands but its own.
LEMMA ActIsItsOwn ==
  ASSUME Board!MadeInv, NEW h \in Helpers, NEW t \in DOMAIN jobs, Act(h, t)
  PROVE  Board!MadeInv' /\ (Board!NobodyStarts \/ Board!OnlyJoins(h))
  <1>1. t \in Jobs
    BY TasksAreJobs
  <1>2. CASE StartRoute(h, t)
    <2>1. Board!StartTask(t, h, FALSE)
      BY <1>2, SameStart DEF StartRoute
    <2>2. Board!ActorNext(FALSE)
      BY <1>1, <2>1 DEF Board!ActorNext
    <2>3. Board!OnlyJoins(h)
      BY <1>1, <2>1, JobsAreLegal, Board!StartSound DEF Board!InputsAreLegal
    <2> QED BY <2>2, <2>3, BoardGoesOn
  <1>3. CASE CompleteRoute(h, t)
    <2>1. Board!CompleteTask(t, h, FALSE)
      BY <1>3, SameComplete DEF CompleteRoute
    <2>2. Board!ActorNext(FALSE)
      BY <1>1, <2>1 DEF Board!ActorNext
    <2>3. Board!NobodyStarts
      BY <1>1, <2>1, JobsAreLegal, Board!CompleteSound DEF Board!InputsAreLegal
    <2> QED BY <2>2, <2>3, BoardGoesOn
  <1>4. CASE BlockerRoute(t)
    <2>1. Board!ReportBlocker(t, FALSE)
      BY <1>4, SameReport DEF BlockerRoute
    <2>2. Board!ActorNext(FALSE)
      BY <1>1, <2>1 DEF Board!ActorNext
    <2>3. Board!NobodyStarts
      BY <1>1, <2>1, JobsAreLegal, Board!ReportSound DEF Board!InputsAreLegal
    <2> QED BY <2>2, <2>3, BoardGoesOn
  <1>5. CASE ResolveRoute(t)
    <2>1. PICK isOpen \in BOOLEAN : Board!ResolveBlocker(t, isOpen, FALSE)
      BY <1>5, SameResolve DEF ResolveRoute
    <2>2. Board!ActorNext(FALSE)
      BY <1>1, <2>1 DEF Board!ActorNext
    <2>3. Board!NobodyStarts
      BY <1>1, <2>1, JobsAreLegal, Board!ResolveSound DEF Board!InputsAreLegal
    <2> QED BY <2>2, <2>3, BoardGoesOn
  <1>6. CASE CommentRoute(t)
    <2>1. jobs' = jobs /\ jobIds' = jobIds
      BY <1>6 DEF CommentRoute
    <2>2. Board!MadeInv'
      BY <2>1, JobsAreLegal, Board!MadeNext DEF Board!InputsAreLegal, Board!vars
    <2> QED BY <2>1, <2>2 DEF Board!NobodyStarts, Board!Active
  <1> QED BY <1>2, <1>3, <1>4, <1>5, <1>6 DEF Act

TasksTyped ==
  /\ errand \in [Couriers -> Errand \cup {None}]
  /\ helperRow \in [Helpers -> {None, "live", "deleted"}]
  /\ crew \subseteq Helpers

\* What was read of the team at the start is remembered as it was, or better; a row that was
\* deleted stays so.
Remembers(e) ==
  /\ e.crew = {} \/ e.helper \in e.crew => e.listed
  /\ ~e.alive => e.helper \in Helpers /\ helperRow[e.helper] = "deleted"
  /\ e.does \in {"act", "release"} => e.helper \in Helpers

\* Who goes to act on the board was welcome.
Welcome(e) ==
  e.does = "act" /\ e.at = "perform"
  => e.listed /\ (e.alive \/ HelperHome[e.helper] \notin {e.for, Captain})

\* Nothing comes any more from a session that was released, but releases.
Silent(e) == e.helper \in released => e.does = "release"

ErrandsOK == \A c \in Couriers : errand[c] # None => Remembers(errand[c]) /\ Welcome(errand[c]) /\ Silent(errand[c])

ReleasedOK ==
  /\ released \subseteq lost \cap Helpers
  /\ \A h \in released : \A t \in DOMAIN jobs : h \notin Board!Active(jobs, t)

TasksInv == Board!MadeInv /\ TasksTyped /\ ErrandsOK /\ ReleasedOK

LEMMA TasksInitInv == TasksInit => TasksInv
  <1> SUFFICES ASSUME TasksInit PROVE TasksInv
    OBVIOUS
  <1>1. ErrandsOK /\ ReleasedOK
    BY DEF TasksInit, ErrandsOK, ReleasedOK
  <1>2. TasksTyped
    BY TasksAssumption DEF TasksInit, TasksTyped, TasksAssumption
  <1>3. ASSUME NEW h \in Helpers
        PROVE  HeldAlready(h) \in Board!KanbanTask /\ HeldAlready(h).subtasks = {}
               /\ HeldAlready(h).depth = 0
               /\ \A g \in Helpers : HeldAlready(h).links[g] = "active" => g = h
    BY DEF HeldAlready, Board!KanbanTask, Board!Statuses, Board!Flags, AnyFlags, Board!LinkStatuses, Board!Modes
  <1>4. Board!MadeInv
    <2>1. CASE jobs = <<>>
      <3>1. DOMAIN jobs = {} /\ jobIds = {}
        BY <2>1 DEF TasksInit
      <3> QED BY <3>1 DEF Board!MadeInv, Board!ListedWereMade, Board!Inv, Board!TypeOK, Board!OneExecutor
    <2>2. CASE jobs # <<>>
      <3>1. PICK h \in Helpers : jobs = [t \in Jobs |-> HeldAlready(h)]
        BY <2>2 DEF TasksInit
      <3>2. DOMAIN jobs = Jobs /\ jobIds = Jobs
        BY <3>1 DEF TasksInit
      <3>3. \A t \in Jobs : /\ jobs[t] \in Board!KanbanTask /\ jobs[t].subtasks = {} /\ jobs[t].depth = 0
                            /\ \A g \in Helpers : jobs[t].links[g] = "active" => g = h
        BY <1>3, <3>1
      <3>4. Board!TypeOK
        BY <3>1, <3>2, <3>3 DEF Board!TypeOK
      <3>5. Board!OneExecutor
        BY <3>2, <3>3 DEF Board!OneExecutor, Board!Active
      <3>6. Board!ListedWereMade
        BY <3>2, <3>3 DEF Board!ListedWereMade
      <3> QED BY <3>4, <3>5, <3>6 DEF Board!MadeInv, Board!Inv
    <2> QED BY <2>1, <2>2
  <1> QED BY <1>1, <1>2, <1>4 DEF TasksInv

\* A step that leaves the board alone.
LEMMA BoardStays ==
  ASSUME TasksInv, jobs' = jobs, jobIds' = jobIds, released' = released, lost \subseteq lost',
         TasksTyped', ErrandsOK'
  PROVE  TasksInv' /\ TakersWereWelcome
  <1>1. Board!MadeInv'
    BY JobsAreLegal, Board!MadeNext DEF Board!InputsAreLegal, Board!vars, TasksInv
  <1>2. ReleasedOK'
    BY DEF TasksInv, ReleasedOK, Board!Active
  <1>3. TakersWereWelcome
    BY DEF TakersWereWelcome, HeldBy, Orchestrator!Active
  <1> QED BY <1>1, <1>2, <1>3 DEF TasksInv

Sound(e) == Remembers(e) /\ Welcome(e) /\ Silent(e)

\* A step of one errand that changes neither the team nor who was released.
LEMMA OneErrand ==
  ASSUME TasksInv, NEW c \in Couriers, NEW q \in Errand \cup {None},
         q # None => Sound(q),
         errand' = [errand EXCEPT ![c] = q],
         helperRow' = helperRow, crew' = crew, released' = released
  PROVE  TasksTyped' /\ ErrandsOK'
  <1>1. TasksTyped'
    BY DEF TasksInv, TasksTyped
  <1>2. ASSUME NEW d \in Couriers, errand'[d] # None
        PROVE  Sound(errand'[d])
    BY <1>2 DEF TasksInv, TasksTyped, ErrandsOK, Sound
  <1>3. ErrandsOK'
    BY <1>2 DEF ErrandsOK, Sound, Remembers, Welcome, Silent
  <1> QED BY <1>1, <1>3

\* An errand that goes on is the same but for its stage.
LEMMA GoesOnAs ==
  ASSUME TasksInv, NEW c \in Couriers, errand[c] # None,
         NEW s \in {"admit", "resolve", "perform", "drop", "observe"}, GoesOn(c, s),
         helperRow' = helperRow, crew' = crew, released' = released,
         s = "perform" => errand[c].does # "act" \/ errand[c].at = "perform"
  PROVE  TasksTyped' /\ ErrandsOK'
  <1> DEFINE e == errand[c]
             q == [e EXCEPT !.at = s]
  <1>1. e \in Errand /\ Sound(e)
    BY DEF TasksInv, TasksTyped, ErrandsOK, Sound
  <1>2. errand \in [Couriers -> Errand \cup {None}]
    BY DEF TasksInv, TasksTyped
  <1>3. errand' = [errand EXCEPT ![c] = q]
    BY <1>1, <1>2 DEF GoesOn
  <1> HIDE DEF e
  <1>4. /\ q \in Errand /\ q.at = s
        /\ q.for = e.for /\ q.does = e.does /\ q.helper = e.helper /\ q.crew = e.crew
        /\ q.listed = e.listed /\ q.alive = e.alive
    BY <1>1 DEF Errand
  <1> HIDE DEF q
  <1>5. Sound(q)
    BY <1>1, <1>4 DEF Sound, Remembers, Welcome, Silent, e
  <1> QED BY <1>3, <1>4, <1>5, OneErrand

LEMMA Leaves ==
  ASSUME TasksInv, NEW c \in Couriers, Departs(c),
         helperRow' = helperRow, crew' = crew, released' = released
  PROVE  TasksTyped' /\ ErrandsOK'
  BY OneErrand DEF Departs

LEMMA ReadTeamOK ==
  ASSUME TasksInv, NEW c \in Couriers, NEW account \in Visitors,
         NEW does \in {"edit", "act", "release"}, NEW h \in Helpers \cup {None},
         h = None => does = "edit", ReadTeam(c, account, does, h)
  PROVE  TasksTyped' /\ ErrandsOK'
  <1> DEFINE listed == crew = {} \/ h \in crew
             alive == h \notin Helpers \/ helperRow[h] # "deleted"
             q == [for |-> account, does |-> does, helper |-> h, crew |-> crew, at |-> "admit",
                   observed |-> None, listed |-> listed, alive |-> alive]
  <1>1. /\ errand' = [errand EXCEPT ![c] = q] /\ (h \notin lost \/ does = "release")
        /\ helperRow' = helperRow /\ crew' = crew /\ released' = released
    BY DEF ReadTeam, teamVars
  <1>2. listed \in BOOLEAN /\ alive \in BOOLEAN /\ crew \subseteq Helpers
    BY DEF TasksInv, TasksTyped
  <1>3. /\ crew = {} \/ h \in crew => listed
        /\ ~alive => h \in Helpers /\ helperRow[h] = "deleted"
    OBVIOUS
  <1> HIDE DEF listed, alive
  <1>4. q \in Errand
    BY <1>2 DEF Errand
  <1>5. Remembers(q) /\ Welcome(q)
    BY <1>3 DEF Remembers, Welcome
  <1>6. Silent(q)
    BY <1>1 DEF Silent, TasksInv, ReleasedOK
  <1> QED BY <1>1, <1>4, <1>5, <1>6, OneErrand DEF Sound

LEMMA ResolveOK ==
  ASSUME TasksInv, NEW c \in Couriers, ResolveTaskSession(c)
  PROVE  TasksTyped' /\ ErrandsOK'
  <1> DEFINE e == errand[c]
             observed == IF Found(e) THEN HelperHome[e.helper] ELSE Captain
             q == [e EXCEPT !.at = "perform", !.observed = observed]
  <1>1. /\ e # None /\ e.helper # None /\ Resolves(e)
        /\ errand' = [errand EXCEPT ![c].at = "perform", ![c].observed = observed]
        /\ helperRow' = helperRow /\ crew' = crew /\ released' = released
    BY DEF ResolveTaskSession, Stands, teamVars
  <1>2. e \in Errand /\ Sound(e) /\ errand \in [Couriers -> Errand \cup {None}]
    BY <1>1 DEF TasksInv, TasksTyped, ErrandsOK, Sound
  <1>3. e.helper \in Helpers
    BY <1>1, <1>2 DEF Errand
  <1>4. observed \in {None, Captain} \cup {HelperHome[h] : h \in Helpers}
    BY <1>3
  <1> HIDE DEF observed
  <1>5. errand' = [errand EXCEPT ![c] = q]
    BY <1>1, <1>2 DEF Errand
  <1>6. e.listed
    BY <1>1, <1>2 DEF Resolves, Sound, Remembers
  <1>7. e.alive \/ HelperHome[e.helper] \notin {e.for, Captain}
    BY <1>1, <1>2, TasksAssumption DEF TasksAssumption, Resolves, Found, Sound, Remembers
  <1> HIDE DEF e
  <1>8. /\ q \in Errand /\ q.at = "perform"
        /\ q.for = e.for /\ q.does = e.does /\ q.helper = e.helper /\ q.crew = e.crew
        /\ q.listed = e.listed /\ q.alive = e.alive
    BY <1>2, <1>4 DEF Errand
  <1> HIDE DEF q
  <1>9. Sound(q)
    BY <1>2, <1>6, <1>7, <1>8 DEF Sound, Remembers, Welcome, Silent
  <1> QED BY <1>1, <1>5, <1>8, <1>9, OneErrand

RemembersThen(e) ==
  /\ e.crew = {} \/ e.helper \in e.crew => e.listed
  /\ ~e.alive => e.helper \in Helpers /\ helperRow'[e.helper] = "deleted"
  /\ e.does \in {"act", "release"} => e.helper \in Helpers

\* A change of the team: a session joins, leaves or is deleted.
LEMMA TeamChanges ==
  ASSUME TasksInv, NEW h \in Helpers, Hire(h) \/ Unlist(h) \/ DeleteHelper(h)
  PROVE  TasksTyped' /\ ErrandsOK'
  <1>1. released' = released
    BY DEF Hire, Unlist, DeleteHelper
  <1>2. /\ helperRow' \in [Helpers -> {None, "live", "deleted"}] /\ crew' \subseteq Helpers
        /\ \A g \in Helpers : helperRow[g] = "deleted" => helperRow'[g] = "deleted"
    BY DEF Hire, Unlist, DeleteHelper, TasksInv, TasksTyped
  <1>3. ASSUME NEW d \in Couriers, errand[d] # None
        PROVE  /\ errand'[d] = errand[d] \/ errand'[d] = [errand[d] EXCEPT !.listed = TRUE]
    BY <1>3 DEF Hire, Unlist, DeleteHelper
  <1>4. ASSUME NEW d \in Couriers, errand[d] = None
        PROVE  errand'[d] = None
    BY <1>4 DEF Hire, Unlist, DeleteHelper
  <1>5. DOMAIN errand' = Couriers /\ errand' = [d \in Couriers |-> errand'[d]]
    BY DEF Hire, Unlist, DeleteHelper, TasksInv, TasksTyped
  <1>6. ASSUME NEW d \in Couriers, errand[d] # None
        PROVE  /\ errand'[d] \in Errand
               /\ RemembersThen(errand'[d]) /\ Welcome(errand'[d]) /\ Silent(errand'[d])
    <2> DEFINE e == errand[d]
               q == errand'[d]
    <2>1. e \in Errand /\ Remembers(e) /\ Welcome(e) /\ Silent(e)
      BY <1>6 DEF TasksInv, TasksTyped, ErrandsOK
    <2>2. q = e \/ q = [e EXCEPT !.listed = TRUE]
      BY <1>3, <1>6
    <2> HIDE DEF e, q
    <2>3. /\ q \in Errand /\ q.at = e.at /\ (e.listed => q.listed)
          /\ q.for = e.for /\ q.does = e.does /\ q.helper = e.helper /\ q.crew = e.crew
          /\ q.alive = e.alive
      BY <2>1, <2>2 DEF Errand
    <2>4. RemembersThen(q)
      BY <1>2, <2>1, <2>3 DEF Remembers, RemembersThen
    <2>5. Welcome(q) /\ Silent(q)
      BY <2>1, <2>3 DEF Welcome, Silent
    <2> QED BY <2>3, <2>4, <2>5 DEF q
  <1>7. ErrandsOK'
    BY <1>1, <1>4, <1>6 DEF ErrandsOK, Remembers, RemembersThen, Welcome, Silent
  <1>8. errand' \in [Couriers -> Errand \cup {None}]
    BY <1>4, <1>5, <1>6
  <1> QED BY <1>2, <1>7, <1>8 DEF TasksTyped

LEMMA LoseOK ==
  ASSUME TasksInv, NEW h \in Helpers, Lose(h)
  PROVE  TasksTyped' /\ ErrandsOK'
  BY DEF Lose, TasksInv, TasksTyped, ErrandsOK, Remembers, Welcome, Silent

\* The operation on the board: a session that takes a task was welcome, and one that was
\* released takes none.
LEMMA PerformOK ==
  ASSUME TasksInv, NEW c \in Couriers, Perform(c)
  PROVE  TasksInv' /\ TakersWereWelcome
  <1> DEFINE e == errand[c]
  <1>1. /\ e # None /\ e.at = "perform" /\ helperRow' = helperRow /\ crew' = crew /\ lost' = lost
        /\ released' = IF /\ e.does = "release" /\ e.helper \in lost
                          /\ \A d \in Couriers \ {c} : errand[d] # None => errand[d].helper # e.helper
                       THEN released \cup {e.helper} ELSE released
    BY DEF Perform, Stands, teamVars
  <1>2. e \in Errand /\ Remembers(e) /\ Welcome(e) /\ Silent(e) /\ Board!MadeInv
    BY <1>1 DEF TasksInv, TasksTyped, ErrandsOK
  <1>3. e.helper \in Helpers \cup {None}
    BY <1>2 DEF Errand
  <1>4. e.does \in {"act", "release"} => e.helper \in Helpers
    BY <1>2 DEF Remembers
  <1>5. /\ Board!MadeInv'
        /\ \/ Board!NobodyStarts
           \/ e.does = "act" /\ Board!OnlyJoins(e.helper)
        /\ e.does = "release" => \A t \in DOMAIN jobs' : e.helper \notin Board!Active(jobs', t)
    <2>1. CASE e.does = "edit" /\ Edit(e)
      BY <1>2, <1>3, <2>1, EditIsCalm DEF Calm
    <2>2. CASE e.does = "edit" /\ Lock
      BY <1>2, <2>2, LockIsCalm DEF Calm
    <2>3. CASE e.does = "release" /\ ReleaseRoute(e.helper)
      BY <1>2, <1>4, <2>3, ReleaseIsCalm DEF Calm
    <2>4. CASE e.does = "act" /\ \E t \in DOMAIN jobs : Act(e.helper, t)
      BY <1>2, <1>4, <2>4, ActIsItsOwn
    <2> QED BY <2>1, <2>2, <2>3, <2>4 DEF Perform
  <1>6. \E s \in {"drop", "observe"} : GoesOn(c, s)
    BY DEF Perform
  <1>7. ASSUME NEW h \in Helpers, NEW t \in DOMAIN jobs', h \in Board!Active(jobs', t)
        PROVE  \/ t \in DOMAIN jobs /\ h \in Board!Active(jobs, t)
               \/ e.does = "act" /\ h = e.helper
    BY <1>5, <1>7 DEF Board!NobodyStarts, Board!OnlyJoins
  <1>8. TakersWereWelcome
    <2> SUFFICES ASSUME NEW h \in Helpers, NEW t \in DOMAIN jobs',
                        h \in Orchestrator!Active(jobs', t), t \notin HeldBy(h)
                 PROVE  /\ e # None /\ e.helper = h /\ e.listed
                        /\ e.alive \/ HelperHome[h] \notin {e.for, Captain}
      BY DEF TakersWereWelcome
    <2>1. h \in Board!Active(jobs', t) /\ ~(t \in DOMAIN jobs /\ h \in Board!Active(jobs, t))
      BY SameActive DEF HeldBy
    <2>2. e.does = "act" /\ h = e.helper
      BY <1>7, <2>1
    <2> QED BY <1>1, <1>2, <2>2 DEF Welcome
  <1>9. ReleasedOK'
    <2>1. released' \subseteq lost' \cap Helpers
      BY <1>1, <1>4 DEF TasksInv, ReleasedOK
    <2>2. ASSUME NEW h \in released', NEW t \in DOMAIN jobs', h \in Board!Active(jobs', t)
          PROVE  FALSE
      <3>1. h \in Helpers
        BY <2>1
      <3>2. CASE h \in released
        <4>1. ~(t \in DOMAIN jobs /\ h \in Board!Active(jobs, t))
          BY <3>2 DEF TasksInv, ReleasedOK
        <4>2. e.does = "act" /\ h = e.helper
          BY <1>7, <2>2, <3>1, <4>1
        <4> QED BY <1>2, <3>2, <4>2 DEF Silent
      <3>3. CASE h \notin released
        <4>1. e.does = "release" /\ h = e.helper
          BY <1>1, <3>3
        <4> QED BY <1>5, <2>2, <4>1
      <3> QED BY <3>2, <3>3
    <2>3. \A h \in released' : \A t \in DOMAIN jobs' : h \notin Board!Active(jobs', t)
      BY <2>2
    <2> QED BY <2>1, <2>3 DEF ReleasedOK, Board!Active
  <1>10. TasksTyped' /\ ErrandsOK'
    <2>1. PICK s \in {"drop", "observe"} : GoesOn(c, s)
      BY <1>6
    <2> DEFINE q == [e EXCEPT !.at = s]
    <2>2. errand \in [Couriers -> Errand \cup {None}]
      BY DEF TasksInv, TasksTyped
    <2>3. errand' = [errand EXCEPT ![c] = q]
      BY <1>1, <1>2, <2>1, <2>2 DEF GoesOn
    <2> HIDE DEF e
    <2>4. /\ q \in Errand /\ q.at = s
          /\ q.for = e.for /\ q.does = e.does /\ q.helper = e.helper /\ q.crew = e.crew
          /\ q.listed = e.listed /\ q.alive = e.alive
      BY <1>2 DEF Errand
    <2> HIDE DEF q
    <2>5. Remembers(q) /\ Welcome(q)
      BY <1>2, <2>4 DEF Remembers, Welcome
    <2>6. q.helper \in released' => q.does = "release"
      BY <1>1, <1>2, <2>4 DEF Silent
    <2>7. ASSUME NEW d \in Couriers, d # c, errand[d] # None, errand[d].helper \in released'
          PROVE  errand[d].does = "release"
      <3>1. errand[d].helper \in released
        BY <1>1, <2>7 DEF e
      <3> QED BY <2>7, <3>1 DEF TasksInv, ErrandsOK, Silent
    <2>8. TasksTyped'
      BY <1>1, <2>2, <2>3, <2>4 DEF TasksInv, TasksTyped
    <2>9. ASSUME NEW d \in Couriers, errand'[d] # None
          PROVE  /\ Remembers(errand'[d]) /\ Welcome(errand'[d])
                 /\ errand'[d].helper \in released' => errand'[d].does = "release"
      <3>1. CASE d = c
        BY <2>2, <2>3, <2>5, <2>6, <3>1
      <3>2. CASE d # c
        BY <2>2, <2>3, <2>7, <2>9, <3>2 DEF TasksInv, ErrandsOK
      <3> QED BY <3>1, <3>2
    <2>10. ErrandsOK'
      BY <1>1, <2>9 DEF ErrandsOK, Remembers, Welcome, Silent
    <2> QED BY <2>8, <2>10
  <1> QED BY <1>5, <1>8, <1>9, <1>10 DEF TasksInv

LEMMA TasksStep ==
  ASSUME TasksInv, [TasksNext]_taskVars
  PROVE  TasksInv' /\ TakersWereWelcome
  <1>1. ASSUME TasksTyped', ErrandsOK', jobs' = jobs, jobIds' = jobIds, released' = released,
               lost \subseteq lost'
        PROVE  TasksInv' /\ TakersWereWelcome
    BY <1>1, BoardStays
  <1>2. CASE UNCHANGED taskVars
    <2>1. TasksTyped' /\ ErrandsOK'
      BY <1>2 DEF taskVars, TasksInv, TasksTyped, ErrandsOK, Remembers, Welcome, Silent
    <2> QED BY <1>1, <1>2, <2>1 DEF taskVars
  <1>3. ASSUME NEW c \in Couriers, NEW account \in Visitors, NEW does \in {"edit", "act", "release"},
               NEW h \in Helpers \cup {None}, h = None => does = "edit", ReadTeam(c, account, does, h)
        PROVE  TasksInv' /\ TakersWereWelcome
    <2>1. TasksTyped' /\ ErrandsOK'
      BY <1>3, ReadTeamOK
    <2> QED BY <1>1, <1>3, <2>1 DEF ReadTeam, teamVars
  <1>4. ASSUME NEW c \in Couriers, Admit(c)
        PROVE  TasksInv' /\ TakersWereWelcome
    <2>1. /\ errand[c] # None
          /\ \E s \in {"perform", "resolve"} : GoesOn(c, s) /\ (s = "perform" => errand[c].does # "act")
      BY <1>4 DEF Admit, Stands
    <2>2. /\ helperRow' = helperRow /\ crew' = crew /\ released' = released /\ lost' = lost
          /\ jobs' = jobs /\ jobIds' = jobIds
      BY <1>4 DEF Admit, teamVars
    <2>3. TasksTyped' /\ ErrandsOK'
      BY <2>1, <2>2, GoesOnAs
    <2> QED BY <1>1, <2>2, <2>3
  <1>5. ASSUME NEW c \in Couriers, ResolveTaskSession(c)
        PROVE  TasksInv' /\ TakersWereWelcome
    <2>1. TasksTyped' /\ ErrandsOK'
      BY <1>5, ResolveOK
    <2> QED BY <1>1, <1>5, <2>1 DEF ResolveTaskSession, teamVars
  <1>6. ASSUME NEW c \in Couriers, ResolveNobody(c)
        PROVE  TasksInv' /\ TakersWereWelcome
    <2>1. /\ helperRow' = helperRow /\ crew' = crew /\ released' = released /\ lost' = lost
          /\ jobs' = jobs /\ jobIds' = jobIds
      BY <1>6 DEF ResolveNobody, teamVars
    <2>2. errand[c].does # "act"
      BY <1>6, TasksAssumption
         DEF ResolveNobody, Stands, TasksAssumption, TasksInv, ErrandsOK, Remembers
    <2>3. errand[c] # None /\ GoesOn(c, "perform")
      BY <1>6 DEF ResolveNobody, Stands
    <2>4. TasksTyped' /\ ErrandsOK'
      BY <2>1, <2>2, <2>3, GoesOnAs
    <2> QED BY <1>1, <2>1, <2>4
  <1>7. ASSUME NEW c \in Couriers, TurnAway(c) \/ DropsOverview(c) \/ Observe(c)
        PROVE  TasksInv' /\ TakersWereWelcome
    <2>1. /\ Departs(c) /\ helperRow' = helperRow /\ crew' = crew /\ released' = released /\ lost' = lost
          /\ jobs' = jobs /\ jobIds' = jobIds
      BY <1>7 DEF TurnAway, DropsOverview, Observe, teamVars
    <2>2. TasksTyped' /\ ErrandsOK'
      BY <2>1, Leaves
    <2> QED BY <1>1, <2>1, <2>2
  <1>8. ASSUME NEW c \in Couriers, Perform(c)
        PROVE  TasksInv' /\ TakersWereWelcome
    BY <1>8, PerformOK
  <1>9. ASSUME NEW h \in Helpers, Hire(h) \/ Unlist(h) \/ DeleteHelper(h)
        PROVE  TasksInv' /\ TakersWereWelcome
    <2>1. TasksTyped' /\ ErrandsOK'
      BY <1>9, TeamChanges
    <2> QED BY <1>1, <1>9, <2>1 DEF Hire, Unlist, DeleteHelper
  <1>10. ASSUME NEW h \in Helpers, Lose(h)
         PROVE  TasksInv' /\ TakersWereWelcome
    <2>1. TasksTyped' /\ ErrandsOK'
      BY <1>10, LoseOK
    <2> QED BY <1>1, <1>10, <2>1 DEF Lose
  <1>11. ASSUME NEW c \in Couriers, NEW account \in Visitors,
                \/ ReadTeam(c, account, "edit", None)
                \/ \E does \in {"edit", "act", "release"}, h \in Helpers : ReadTeam(c, account, does, h)
         PROVE  TasksInv' /\ TakersWereWelcome
    <2>1. CASE ReadTeam(c, account, "edit", None)
      BY <1>3, <2>1
    <2>2. ASSUME NEW does \in {"edit", "act", "release"}, NEW h \in Helpers, ReadTeam(c, account, does, h)
          PROVE  TasksInv' /\ TakersWereWelcome
      <3>1. h # None
        BY TasksAssumption DEF TasksAssumption
      <3> QED BY <1>3, <2>2, <3>1
    <2> QED BY <1>11, <2>1, <2>2
  <1> QED BY <1>2, <1>4, <1>5, <1>6, <1>7, <1>8, <1>9, <1>10, <1>11 DEF TasksNext

\* Who takes a task was welcome in the team while the request was under way, and a dead
\* session that was released holds nothing any more, whatever arrives late, for any number
\* of sessions, tasks and requests.
THEOREM HoldersAlwaysEntitled == TasksSpec => HoldersAreEntitled
  <1>1. TasksInv /\ [TasksNext]_taskVars => TasksInv' /\ [TakersWereWelcome /\ TheReleasedHoldNothing]_taskVars
    <2>1. ASSUME TasksInv, [TasksNext]_taskVars
          PROVE  TasksInv' /\ TakersWereWelcome /\ TheReleasedHoldNothing
      <3>1. TasksInv' /\ TakersWereWelcome
        BY <2>1, TasksStep
      <3>2. TheReleasedHoldNothing
        BY <3>1 DEF TasksInv, ReleasedOK, TheReleasedHoldNothing, Board!Active, Orchestrator!Active
      <3> QED BY <3>1, <3>2
    <2> QED BY <2>1
  <1> QED BY <1>1, TasksInitInv, PTL DEF TasksSpec, HoldersAreEntitled
=============================================================================
