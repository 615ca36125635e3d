-------------------------- MODULE TeamRosterProofs --------------------------
(***************************************************************************)
(* Whatever the accounts, their sessions and the number of calls: a        *)
(* registration is written if and only if it changes the roster, no row    *)
(* changes hands, a batch leaves clean rosters, and the overview that is   *)
(* kept for an account is right about its teams.                           *)
(***************************************************************************)
EXTENDS TeamRoster, FiniteSetTheorems, SequenceTheorems, WellFoundedInduction, TLAPS

-----------------------------------------------------------------------------
(* Numbers, and sequences that are made step by step.                       *)

\* The least of a set of numbers.
LEMMA LeastOf ==
  ASSUME NEW S \in SUBSET Nat, S # {}
  PROVE  \E n \in S : \A k \in S : n <= k
  <1>1. IsWellFoundedOn(OpToRel(<, Nat), Nat)
    BY NatLessThanWellFounded
  <1>2. PICK n \in S : \A k \in S : <<k, n>> \notin OpToRel(<, Nat)
    BY <1>1, WFMin
  <1>3. \A k \in S : ~(k < n)
    BY <1>2 DEF OpToRel
  <1> QED BY <1>3

LEMMA MinOf ==
  ASSUME NEW S \in SUBSET Nat, S # {}
  PROVE  Min(S) \in S /\ \A k \in S : Min(S) <= k
  BY LeastOf DEF Min

\* There is a chain of values in which each follows from the one before.
IsChain(f, m, S, a, G) == f \in [0 .. m -> S] /\ f[0] = a /\ \A n \in 1 .. m : f[n] = G[<<n, f[n - 1]>>]

LEMMA ChainExists ==
  ASSUME NEW S, NEW a \in S, NEW N \in Nat, NEW G \in [(1 .. N) \X S -> S]
  PROVE  \E f : IsChain(f, N, S, a, G)
  <1> DEFINE Chain(f, m) == IsChain(f, m, S, a, G)
             Bad == {m \in 0 .. N : ~\E f : Chain(f, m)}
  <1>1. SUFFICES ASSUME Bad # {} PROVE FALSE
    <2>1. Bad = {} => \E f : Chain(f, N)
      <3>1. N \in 0 .. N
        OBVIOUS
      <3> HIDE DEF Chain
      <3> QED BY <3>1
    <2> QED BY <1>1, <2>1
  <1>2. PICK m \in Bad : \A k \in Bad : m <= k
    <2>1. Bad \in SUBSET Nat
      OBVIOUS
    <2> QED BY <1>1, <2>1, LeastOf
  <1>3. m # 0
    <2>1. Chain([x \in 0 .. 0 |-> a], 0)
      BY DEF IsChain
    <2> QED BY <2>1
  <1>4. PICK g : Chain(g, m - 1)
    <2>1. m - 1 \in 0 .. N /\ m - 1 < m
      BY <1>3
    <2>2. m - 1 \notin Bad
      <3>1. m \in Nat
        OBVIOUS
      <3> HIDE DEF Bad
      <3> QED BY <1>2, <2>1, <3>1
    <2> HIDE DEF Chain
    <2> QED BY <2>1, <2>2
  <1> DEFINE h == [n \in 0 .. m |-> IF n = m THEN G[<<m, g[m - 1]>>] ELSE g[n]]
  <1>5. m \in 1 .. N
    BY <1>3
  <1>6. g[m - 1] \in S
    BY <1>4, <1>5 DEF IsChain
  <1>7. h \in [0 .. m -> S] /\ h[0] = a
    BY <1>4, <1>5, <1>6 DEF IsChain
  <1>8. \A n \in 1 .. m : h[n] = G[<<n, h[n - 1]>>]
    <2>1. TAKE n \in 1 .. m
    <2>2. CASE n = m
      <3>1. h[n - 1] = g[m - 1] /\ h[n] = G[<<m, g[m - 1]>>]
        BY <1>5, <2>2
      <3> QED BY <2>2, <3>1
    <2>3. CASE n # m
      <3>1. n \in 1 .. m - 1 /\ n - 1 \in 0 .. m - 1 /\ n - 1 # m
        BY <1>5, <2>3
      <3>2. h[n - 1] = g[n - 1] /\ h[n] = g[n]
        BY <1>5, <2>3, <3>1
      <3> QED BY <1>4, <3>1, <3>2 DEF IsChain
    <2> QED BY <2>2, <2>3
  <1>9. Chain(h, m)
    BY <1>7, <1>8 DEF IsChain
  <1> QED BY <1>9

\* What each value of a chain hands on to the next holds of the last.
LEMMA ChainStays ==
  ASSUME NEW S, NEW N \in Nat, NEW f, f[0] \in S, \A n \in 1 .. N : f[n - 1] \in S => f[n] \in S
  PROVE  \A n \in 0 .. N : f[n] \in S
  <1> DEFINE Bad == {m \in 0 .. N : f[m] \notin S}
  <1>1. SUFFICES ASSUME Bad # {} PROVE FALSE
    BY <1>1
  <1>2. PICK m \in Bad : \A k \in Bad : m <= k
    <2>1. Bad \in SUBSET Nat
      OBVIOUS
    <2> QED BY <1>1, <2>1, LeastOf
  <1>3. m \in 1 .. N /\ m - 1 \in 0 .. N /\ m - 1 < m
    OBVIOUS
  <1>4. m - 1 \notin Bad
    BY <1>2, <1>3
  <1> QED BY <1>3, <1>4

\* A roster without some sessions is a roster, and names none of them.
LEMMA WithoutThem ==
  ASSUME NEW roster \in Seq(Member), NEW gone
  PROVE  /\ Without(roster, gone) \in Seq(Member)
         /\ \A i \in DOMAIN Without(roster, gone) : Without(roster, gone)[i].session \notin gone
  <1> DEFINE Kept == {x \in Member : x.session \notin gone}
             N == Len(roster)
             G == [p \in (1 .. N) \X Seq(Kept) |->
                     IF roster[p[1]].session \in gone THEN p[2] ELSE Append(p[2], roster[p[1]])]
             Follows(f) == f = [n \in 0 .. N |-> IF n = 0 THEN <<>>
                                 ELSE IF roster[n].session \in gone THEN f[n - 1] ELSE Append(f[n - 1], roster[n])]
             kept == CHOOSE f : Follows(f)
  <1>1. N \in Nat /\ \A n \in 1 .. N : roster[n] \in Member
    OBVIOUS
  <1>2. \A n \in 1 .. N : \A s \in Seq(Kept) :
           (IF roster[n].session \in gone THEN s ELSE Append(s, roster[n])) \in Seq(Kept)
    <2>1. TAKE n \in 1 .. N
    <2>2. TAKE s \in Seq(Kept)
    <2>3. CASE roster[n].session \in gone
      BY <2>3
    <2>4. CASE roster[n].session \notin gone
      <3>1. roster[n] \in Kept
        BY <1>1, <2>4
      <3>2. Append(s, roster[n]) \in Seq(Kept)
        BY <3>1
      <3> QED BY <2>4, <3>2
    <2> QED BY <2>3, <2>4
  <1>3. G \in [(1 .. N) \X Seq(Kept) -> Seq(Kept)]
    BY <1>2
  <1>4. <<>> \in Seq(Kept)
    OBVIOUS
  <1>5. PICK g \in [0 .. N -> Seq(Kept)] : g[0] = <<>> /\ \A n \in 1 .. N : g[n] = G[<<n, g[n - 1]>>]
    <2> DEFINE S == Seq(Kept)
               a == <<>>
    <2>1. G \in [(1 .. N) \X S -> S] /\ a \in S
      BY <1>3, <1>4
    <2>2. \E f : IsChain(f, N, S, a, G)
      <3> HIDE DEF G, N, S, a
      <3> QED BY <1>1, <2>1, ChainExists
    <2> QED BY <2>2 DEF IsChain
  <1>6. Follows(g)
    <2>1. \A n \in 1 .. N : g[n] = IF roster[n].session \in gone THEN g[n - 1] ELSE Append(g[n - 1], roster[n])
      <3>1. TAKE n \in 1 .. N
      <3>2. g[n - 1] \in Seq(Kept)
        BY <1>1
      <3>3. <<n, g[n - 1]>> \in (1 .. N) \X Seq(Kept)
        BY <3>2
      <3> QED BY <1>5, <3>3
    <2>2. g = [n \in 0 .. N |-> g[n]]
      BY <1>5
    <2>3. \A n \in 0 .. N : g[n] = IF n = 0 THEN <<>>
             ELSE IF roster[n].session \in gone THEN g[n - 1] ELSE Append(g[n - 1], roster[n])
      <3>1. TAKE n \in 0 .. N
      <3>2. n = 0 \/ (n \in 1 .. N /\ n # 0)
        BY <1>1
      <3> HIDE DEF N, G
      <3> QED BY <1>5, <2>1, <3>2
    <2> HIDE DEF N, G
    <2> QED BY <2>2, <2>3
  <1>7. Follows(kept)
    <2> HIDE DEF Follows
    <2> QED BY <1>6
  <1>8. Without(roster, gone) = kept[N]
    BY DEF Without
  <1>9. kept[0] = <<>>
    <2> HIDE DEF kept, N
    <2> QED BY <1>1, <1>7
  <1>10. \A n \in 1 .. N : kept[n - 1] \in Seq(Kept) => kept[n] \in Seq(Kept)
    <2>1. TAKE n \in 1 .. N
    <2>2. kept[n] = IF roster[n].session \in gone THEN kept[n - 1] ELSE Append(kept[n - 1], roster[n])
      <3>1. n \in 0 .. N /\ n # 0
        BY <1>1
      <3> HIDE DEF kept, N
      <3> QED BY <1>7, <3>1
    <2> HIDE DEF kept, Kept, N
    <2> QED BY <1>2, <2>2
  <1>11. kept[N] \in Seq(Kept)
    <2>1. \A n \in 0 .. N : kept[n] \in Seq(Kept)
      <3> DEFINE S == Seq(Kept)
      <3>1. kept[0] \in S /\ \A n \in 1 .. N : kept[n - 1] \in S => kept[n] \in S
        BY <1>4, <1>9, <1>10
      <3>2. \A n \in 0 .. N : kept[n] \in S
        <4> HIDE DEF kept, N, S
        <4> QED BY <1>1, <3>1, ChainStays
      <3> QED BY <3>2
    <2>2. N \in 0 .. N
      BY <1>1
    <2> HIDE DEF kept, Kept, N
    <2> QED BY <2>1, <2>2
  <1>12. \A s \in Seq(Kept) : s \in Seq(Member) /\ \A i \in DOMAIN s : s[i].session \notin gone
    <2>1. TAKE s \in Seq(Kept)
    <2>2. \A i \in 1 .. Len(s) : s[i] \in Kept
      OBVIOUS
    <2>3. s \in Seq(Member)
      BY <2>2
    <2> QED BY <2>2, <2>3
  <1> HIDE DEF kept, Kept, N
  <1> QED BY <1>8, <1>11, <1>12

-----------------------------------------------------------------------------
(* Registrations.                                                           *)

LEMMA MatchingIsBelow ==
  ASSUME NEW roster \in Seq(Member), NEW r \in Member, Matching(roster, r) # {}
  PROVE  LET i == Min(Matching(roster, r))
         IN  /\ i \in DOMAIN roster /\ roster[i] \in Member /\ SameMember(roster[i], r)
             /\ \A j \in DOMAIN roster : SameMember(roster[j], r) => i <= j
  <1>1. Matching(roster, r) \in SUBSET Nat
    BY DEF Matching
  <1>2. Min(Matching(roster, r)) \in Matching(roster, r) /\ \A j \in Matching(roster, r) : Min(Matching(roster, r)) <= j
    BY <1>1, MinOf
  <1> QED BY <1>2 DEF Matching

LEMMA UpdatedIsMember ==
  ASSUME NEW m \in Member, NEW r \in Member
  PROVE  Updated(m, r) \in Member
  BY DEF Member, Updated, Or, Candidate

LEMMA RegisteredIsRoster ==
  ASSUME NEW roster \in Seq(Member), NEW r \in Member
  PROVE  Registered(roster, r) \in Seq(Member)
  <1>1. CASE Matching(roster, r) = {}
    <2>1. [r EXCEPT !.candidate = Candidate(r)] \in Member
      BY DEF Member, Candidate, Or
    <2> QED BY <1>1, <2>1 DEF Registered
  <1>2. CASE Matching(roster, r) # {}
    <2> DEFINE i == Min(Matching(roster, r))
    <2>1. i \in DOMAIN roster /\ roster[i] \in Member
      BY <1>2, MatchingIsBelow
    <2>2. Updated(roster[i], r) \in Member
      BY <2>1, UpdatedIsMember
    <2>3. Registered(roster, r) = [roster EXCEPT ![i] = Updated(roster[i], r)]
      BY <1>2 DEF Registered
    <2> HIDE DEF i
    <2> QED BY <2>1, <2>2, <2>3
  <1> QED BY <1>1, <1>2

\* A member is as it is registered exactly if registering it changes nothing.
LEMMA ChangedIsExact ==
  ASSUME NEW m \in Member, NEW r \in Member
  PROVE  Changed(m, r) <=> Updated(m, r) # m
  BY DEF Member, Changed, Updated, Or, Candidate, ClearsImage

\* A member that was just registered is as it is registered.
LEMMA UpdatedIsSettled ==
  ASSUME NEW m \in Member, NEW r \in Member, SameMember(m, r)
  PROVE  SameMember(Updated(m, r), r) /\ ~Changed(Updated(m, r), r)
  <1>1. SameMember(Updated(m, r), r)
    BY DEF SameMember, Updated, Or
  <1>2. ~Changed(Updated(m, r), r)
    BY DEF Changed, Updated, Or, Candidate, ClearsImage
  <1> QED BY <1>1, <1>2

LEMMA NewIsSettled ==
  ASSUME NEW r \in Member
  PROVE  LET m == [r EXCEPT !.candidate = Candidate(r)] IN SameMember(m, r) /\ ~Changed(m, r)
  BY DEF SameMember, Changed, Or, Candidate, ClearsImage, Member

\* Registering a member again changes nothing, and it is written exactly if it does.
LEMMA RegisteringIsExact ==
  ASSUME NEW roster \in Seq(Member), NEW r \in Member
  PROVE  /\ ~Registers(Registered(roster, r), r)
         /\ Registers(roster, r) <=> Registered(roster, r) # roster
  <1> DEFINE next == Registered(roster, r)
  <1>1. next \in Seq(Member)
    BY RegisteredIsRoster
  <1>2. CASE Matching(roster, r) = {}
    <2> DEFINE m == [r EXCEPT !.candidate = Candidate(r)]
    <2>1. next = Append(roster, m) /\ m \in Member
      BY <1>2 DEF Registered, Member, Candidate, Or
    <2>2. SameMember(m, r) /\ ~Changed(m, r)
      BY NewIsSettled
    <2> HIDE DEF m
    <2>3. Len(next) = Len(roster) + 1 /\ next[Len(roster) + 1] = m
          /\ \A j \in DOMAIN roster : next[j] = roster[j]
      BY <2>1
    <2>4. Len(roster) + 1 \in Matching(next, r)
      BY <1>1, <2>2, <2>3 DEF Matching
    <2> DEFINE i == Min(Matching(next, r))
    <2>5. i \in DOMAIN next /\ SameMember(next[i], r)
      BY <1>1, <2>4, MatchingIsBelow
    <2>6. i = Len(roster) + 1
      <3> HIDE DEF i
      <3> QED BY <1>1, <1>2, <2>3, <2>5 DEF Matching
    <2>7. ~Registers(next, r)
      BY <2>2, <2>3, <2>4, <2>6 DEF Registers
    <2>8. next # roster
      BY <2>3
    <2> QED BY <1>2, <2>7, <2>8 DEF Registers
  <1>3. CASE Matching(roster, r) # {}
    <2> DEFINE i == Min(Matching(roster, r))
               k == Min(Matching(next, r))
    <2>1. /\ i \in DOMAIN roster /\ roster[i] \in Member /\ SameMember(roster[i], r)
          /\ \A j \in DOMAIN roster : SameMember(roster[j], r) => i <= j
      BY <1>3, MatchingIsBelow
    <2>2. next = [roster EXCEPT ![i] = Updated(roster[i], r)]
      BY <1>3 DEF Registered
    <2>3. SameMember(Updated(roster[i], r), r) /\ ~Changed(Updated(roster[i], r), r)
      BY <2>1, UpdatedIsSettled
    <2> HIDE DEF i
    <2>4. DOMAIN next = DOMAIN roster /\ next[i] = Updated(roster[i], r)
          /\ \A j \in DOMAIN roster : j # i => next[j] = roster[j]
      BY <2>1, <2>2
    <2> HIDE DEF next
    <2>5. i \in Matching(next, r)
      BY <2>1, <2>3, <2>4 DEF Matching
    <2>6. /\ k \in DOMAIN next /\ SameMember(next[k], r)
          /\ \A j \in DOMAIN next : SameMember(next[j], r) => k <= j
      BY <1>1, <2>5, MatchingIsBelow
    <2>7. k = i
      <3> HIDE DEF k
      <3>1. i \in Nat /\ k \in Nat
        BY <1>1, <2>1, <2>6
      <3>2. k <= i
        BY <2>1, <2>3, <2>4, <2>6
      <3>3. k # i => i <= k
        BY <2>1, <2>4, <2>6
      <3> QED BY <3>1, <3>2, <3>3
    <2>8. ~Registers(next, r)
      BY <2>3, <2>4, <2>5, <2>7 DEF Registers
    <2>9. Registers(roster, r) <=> Changed(roster[i], r)
      BY <1>3 DEF Registers, i
    <2>10. next # roster <=> Updated(roster[i], r) # roster[i]
      <3>1. next = roster => next[i] = roster[i]
        OBVIOUS
      <3>2. Updated(roster[i], r) = roster[i] => next = roster
        BY <2>1, <2>2 DEF next
      <3> QED BY <2>4, <3>1, <3>2
    <2>11. Changed(roster[i], r) <=> Updated(roster[i], r) # roster[i]
      BY <2>1, ChangedIsExact
    <2> QED BY <2>8, <2>9, <2>10, <2>11 DEF next
  <1> QED BY <1>2, <1>3

-----------------------------------------------------------------------------
(* The members and bodies that calls make.                                  *)

LEMMA Joined ==
  ASSUME NEW S, NEW seqs, Len(seqs) \in Nat, DOMAIN seqs = 1 .. Len(seqs), \A i \in 1 .. Len(seqs) : seqs[i] \in Seq(S)
  PROVE  Len(seqs) # 0 => FlattenSeq(seqs) \in Seq(S)
  <1> SUFFICES ASSUME Len(seqs) # 0 PROVE FlattenSeq(seqs) \in Seq(S)
    OBVIOUS
  <1> DEFINE N == Len(seqs)
             M == N - 1
             T == Seq(S)
             G == [p \in (1 .. M) \X T |-> p[2] \o seqs[p[1] + 1]]
             Follows(f) == f = [i \in 1 .. N |-> IF i = 1 THEN seqs[i] ELSE f[i - 1] \o seqs[i]]
             flat == CHOOSE f : Follows(f)
  <1>1. N \in Nat /\ M \in Nat /\ N = M + 1 /\ \A i \in 1 .. N : seqs[i] \in T
    OBVIOUS
  <1>2. G \in [(1 .. M) \X T -> T]
    <2>1. \A n \in 1 .. M : seqs[n + 1] \in Seq(S)
      BY <1>1
    <2>2. \A n \in 1 .. M : \A s \in Seq(S) : s \o seqs[n + 1] \in Seq(S)
      <3> HIDE DEF M
      <3> QED BY <2>1
    <2> QED BY <2>2
  <1>3. PICK g : IsChain(g, M, T, seqs[1], G)
    <2>1. seqs[1] \in T
      BY <1>1
    <2> HIDE DEF G, M, T
    <2> QED BY <1>1, <1>2, <2>1, ChainExists
  <1> DEFINE h == [i \in 1 .. N |-> g[i - 1]]
  <1>4. Follows(h)
    <2>1. \A i \in 1 .. N : h[i] = IF i = 1 THEN seqs[i] ELSE h[i - 1] \o seqs[i]
      <3>1. TAKE i \in 1 .. N
      <3>2. CASE i = 1
        BY <1>1, <1>3, <3>2 DEF IsChain
      <3>3. CASE i # 1
        <4>1. i - 1 \in 1 .. M /\ i - 1 \in 1 .. N /\ i - 2 \in 0 .. M /\ (i - 1) + 1 = i /\ (i - 1) - 1 = i - 2
          BY <1>1, <3>3
        <4>2. g[i - 1] = G[<<i - 1, g[i - 2]>>] /\ g[i - 2] \in T
          <5> HIDE DEF G, M, N, T
          <5> QED BY <1>3, <4>1 DEF IsChain
        <4>3. <<i - 1, g[i - 2]>> \in (1 .. M) \X T
          BY <4>1, <4>2
        <4>4. g[i - 1] = g[i - 2] \o seqs[i]
          <5> HIDE DEF M, N, T
          <5> QED BY <4>1, <4>2, <4>3
        <4>5. h[i] = g[i - 1] /\ h[i - 1] = g[i - 2]
          <5> HIDE DEF M, N, T
          <5> QED BY <4>1
        <4> QED BY <3>3, <4>4, <4>5
      <3> QED BY <3>2, <3>3
    <2> QED BY <2>1
  <1>5. Follows(flat)
    <2> HIDE DEF Follows
    <2> QED BY <1>4
  <1>6. FlattenSeq(seqs) = flat[N]
    BY DEF FlattenSeq
  <1> HIDE DEF flat
  <1> DEFINE k == [i \in 0 .. M |-> flat[i + 1]]
  <1>7. k[0] \in T
    <2> HIDE DEF N, M, T
    <2>1. 1 \in 1 .. N /\ 0 \in 0 .. M
      BY <1>1
    <2> QED BY <1>1, <1>5, <2>1
  <1>8. \A n \in 1 .. M : k[n - 1] \in T => k[n] \in T
    <2>1. TAKE n \in 1 .. M
    <2>2. n + 1 \in 1 .. N /\ n + 1 # 1 /\ (n + 1) - 1 = n /\ n \in 0 .. M /\ n - 1 \in 0 .. M /\ (n - 1) + 1 = n
      BY <1>1
    <2>3. flat[n + 1] = flat[n] \o seqs[n + 1]
      <3> HIDE DEF N, M, T
      <3> QED BY <1>5, <2>2
    <2>4. k[n - 1] = flat[n] /\ k[n] = flat[n + 1]
      <3> HIDE DEF N, M, T
      <3> QED BY <2>2
    <2>5. seqs[n + 1] \in T
      BY <1>1, <2>2
    <2>6. flat[n] \in Seq(S) => flat[n] \o seqs[n + 1] \in Seq(S)
      BY <2>5
    <2> QED BY <2>3, <2>4, <2>6
  <1>9. \A n \in 0 .. M : k[n] \in T
    <2> HIDE DEF k, M, T
    <2> QED BY <1>1, <1>7, <1>8, ChainStays
  <1>10. flat[N] = k[M] /\ M \in 0 .. M
    BY <1>1
  <1> QED BY <1>6, <1>9, <1>10

LEMMA PlannedIsRoster ==
  ASSUME NEW id \in AllIds, NEW seats \in SeatPlans
  PROVE  Planned(id, seats) \in Seq(Member)
  <1> DEFINE who(i, n) == <<Or(seats[i].id, i), IF seats[i].quantity > 1 THEN n ELSE 0>>
             unit(i, n) == [id |-> who(i, n), tag |-> <<id, who(i, n)>>, session |-> <<id, who(i, n)>>, role |-> seats[i].role,
                            runtime |-> seats[i].runtime, image |-> seats[i].image,
                            candidate |-> seats[i].image, info |-> None]
             units == [i \in DOMAIN seats |-> [n \in 1 .. seats[i].quantity |-> unit(i, n)]]
  <1>1. seats \in Seq(CorpsSeat)
    BY RosterAssumption
  <1>2. \A i \in 1 .. Len(seats) : seats[i] \in CorpsSeat
    BY <1>1
  <1>3. \A i \in 1 .. Len(seats) : \A n \in 1 .. seats[i].quantity : unit(i, n) \in Member
    <2>1. TAKE i \in 1 .. Len(seats)
    <2>2. TAKE n \in 1 .. seats[i].quantity
    <2>3. seats[i].quantity \in Nat /\ i \in DOMAIN seats
      BY <1>1, <1>2 DEF CorpsSeat
    <2>4. (IF seats[i].quantity > 1 THEN n ELSE 0) \in 0 .. seats[i].quantity
      BY <2>3
    <2>5. who(i, n) \in {<<Or(seats[i].id, i), k>> : k \in 0 .. seats[i].quantity}
      BY <2>4
    <2>6. who(i, n) \in PlannedIds(seats)
      BY <2>3, <2>5 DEF PlannedIds
    <2>7. who(i, n) \in SeatIds
      BY <2>6 DEF SeatIds
    <2>8. <<id, who(i, n)>> \in Tags
      BY <2>7 DEF Tags
    <2> HIDE DEF who
    <2> QED BY <1>2, <2>7, <2>8 DEF Member, CorpsSeat, Whose
  <1>4. \A i \in 1 .. Len(seats) : units[i] \in Seq(Member)
    <2>1. TAKE i \in 1 .. Len(seats)
    <2>2. seats[i].quantity \in Nat /\ i \in DOMAIN seats
      BY <1>1, <1>2 DEF CorpsSeat
    <2>3. \A n \in 1 .. seats[i].quantity : unit(i, n) \in Member
      BY <1>3
    <2> HIDE DEF unit
    <2>4. units[i] \in [1 .. seats[i].quantity -> Member]
      BY <2>2, <2>3
    <2> QED BY <2>2, <2>4, SeqDef
  <1>5. DOMAIN units = 1 .. Len(seats) /\ Len(units) = Len(seats) /\ Len(seats) \in Nat
    BY <1>1, LenProperties
  <1>6. Planned(id, seats) = FlattenSeq(units)
    BY DEF Planned
  <1> HIDE DEF units
  <1>7. CASE Len(units) # 0
    BY <1>4, <1>5, <1>6, <1>7, Joined
  <1>8. CASE Len(units) = 0
    <2>1. FlattenSeq(units) = units
      BY <1>8 DEF FlattenSeq
    <2>2. units = <<>>
      BY <1>5, <1>8 DEF units
    <2> QED BY <1>6, <2>1, <2>2
  <1> QED BY <1>7, <1>8

LEMMA PatchedIsMember ==
  ASSUME NEW m \in Member, NEW r \in Member
  PROVE  PatchedAgent(m, r) \in Member
  <1> DEFINE m1 == [m EXCEPT !.id = Or(r.id, @)]
             m2 == [m1 EXCEPT !.session = r.session]
             m3 == [m2 EXCEPT !.tag = Or(r.tag, @)]
             m4 == [m3 EXCEPT !.runtime = Or(r.runtime, @)]
             m5 == [m4 EXCEPT !.info = Or(r.info, @)]
             m6 == [m5 EXCEPT !.image = IF r.runtime # None /\ m.runtime # r.runtime /\ r.image = None
                                        THEN None ELSE Or(r.image, @)]
  <1>1. m1 \in Member
    BY DEF Member, Or
  <1>2. m2 \in Member
    <2> HIDE DEF m1
    <2> QED BY <1>1 DEF Member
  <1>3. m3 \in Member
    <2> HIDE DEF m2
    <2> QED BY <1>2 DEF Member, Or
  <1>4. m4 \in Member
    <2> HIDE DEF m3
    <2> QED BY <1>3 DEF Member, Or
  <1>5. m5 \in Member
    <2> HIDE DEF m4
    <2> QED BY <1>4 DEF Member, Or
  <1>6. m6 \in Member
    <2> HIDE DEF m5
    <2> QED BY <1>5 DEF Member, Or
  <1>7. PatchedAgent(m, r) = m6
    BY DEF PatchedAgent
  <1> QED BY <1>6, <1>7

\* A body whose roster is replaced, one that is put away or taken out, one that is
\* promoted.
LEMMA ContentStays ==
  ASSUME NEW b \in Content
  PROVE  /\ b.kind = "team" => \A m \in Seq(Member) : [b EXCEPT !.members = m] \in Content
         /\ b.kind = "team" => \A x \in BOOLEAN : [b EXCEPT !.archived = x] \in Content
         /\ [b EXCEPT !.kind = "team"] \in Content
         /\ \A m \in Member : b.kind = "standalone" => [b EXCEPT !.members[1] = m] \in Content
  <1> DEFINE B == [kind : {"team", "standalone"}, archived : BOOLEAN, members : Seq(Member)]
  <1>1. b \in B /\ (b.kind = "standalone" => Len(b.members) = 1)
    BY DEF Content
  <1>2. \A x \in B : (x.kind = "standalone" => Len(x.members) = 1) => x \in Content
    BY DEF Content
  <1>3. ASSUME b.kind = "team", NEW m \in Seq(Member) PROVE [b EXCEPT !.members = m] \in Content
    <2>1. [b EXCEPT !.members = m] \in B /\ [b EXCEPT !.members = m].kind = "team"
      BY <1>1, <1>3
    <2> QED BY <1>2, <2>1
  <1>4. ASSUME b.kind = "team", NEW x \in BOOLEAN PROVE [b EXCEPT !.archived = x] \in Content
    <2>1. [b EXCEPT !.archived = x] \in B /\ [b EXCEPT !.archived = x].kind = "team"
      BY <1>1, <1>4
    <2> QED BY <1>2, <2>1
  <1>5. [b EXCEPT !.kind = "team"] \in Content
    <2>1. [b EXCEPT !.kind = "team"] \in B /\ [b EXCEPT !.kind = "team"].kind = "team"
      BY <1>1
    <2> QED BY <1>2, <2>1
  <1>6. ASSUME NEW m \in Member, b.kind = "standalone" PROVE [b EXCEPT !.members[1] = m] \in Content
    <2> DEFINE ms == [b.members EXCEPT ![1] = m]
    <2>1. b.members \in Seq(Member) /\ Len(b.members) = 1
      BY <1>1, <1>6
    <2>2. ms \in Seq(Member) /\ Len(ms) = 1
      BY <2>1
    <2>3. [b EXCEPT !.members[1] = m] = [b EXCEPT !.members = ms]
      BY <1>1
    <2> HIDE DEF ms
    <2>4. [b EXCEPT !.members = ms] \in B /\ [b EXCEPT !.members = ms].members = ms
      BY <1>1, <2>2
    <2> QED BY <1>2, <2>2, <2>3, <2>4
  <1> QED BY <1>3, <1>4, <1>5, <1>6

\* The rows of artifacts.
LEMMA RowOf ==
  ASSUME TypeOK, NEW id \in AllIds, artifact[id] # None
  PROVE  /\ artifact[id] \in Row /\ artifact[id].owner \in Users /\ Body(id) \in Content
         /\ Body(id).members \in Seq(Member) /\ InRoster(Body(id)) \subseteq Whose
  <1>1. artifact[id] \in Row
    BY DEF TypeOK
  <1>2. artifact[id].owner \in Users /\ Body(id) \in Content
    BY <1>1 DEF Row, Body
  <1>3. Body(id).members \in Seq(Member)
    BY <1>2 DEF Content
  <1>4. \A i \in DOMAIN Body(id).members : Body(id).members[i] \in Member
    BY <1>3
  <1>5. InRoster(Body(id)) \subseteq Whose
    BY <1>4 DEF InRoster, Member
  <1> QED BY <1>1, <1>2, <1>3, <1>5

LEMMA WriteIsUpdate ==
  ASSUME TypeOK, NEW id \in AllIds, artifact[id] # None, NEW body \in Content
  PROVE  Write(id, body) \in SUBSET Update /\ Write(id, body) # {}
  BY RowOf DEF Write, Update

LEMMA OverviewIsOne ==
  ASSUME TypeOK, NEW u
  PROVE  Overview(u) \in Overviews
  <1>1. \A id \in AllIds : id \in Listed(u) =>
           [owner |-> artifact[id].owner, members |-> artifact[id].body.members] \in Team
    <2>1. TAKE id \in AllIds
    <2>2. ASSUME id \in Listed(u) PROVE artifact[id] # None
      BY <2>2 DEF Listed, Shown, IsTeam
    <2> QED BY <2>2, RowOf DEF Team, Body
  <1> QED BY <1>1 DEF Overview, Overviews

-----------------------------------------------------------------------------
(* Calls that begin.                                                        *)

\* What is true of every call that begins.
Opening(q) ==
    /\ q \in Call /\ q.meanwhile = {}
    /\ q.pc \in {"sessions", "write", "create", "close", "agent", "erase", "cache"}
    /\ \/ q.pc \in {"write", "create", "close", "agent"}
       \/ q.pc = "sessions" /\ q.kind \in {"archive", "unarchive"}
       => q.todo # {}
    /\ q.kind = "delete" \/ q.pc \in {"create", "erase"} => q.id \in AllIds
    /\ q.kind \in {"delete", "retire"} => q.owner \in Users
    /\ q.pc = "create" /\ q.seen => artifact[q.id] # None /\ artifact[q.id].owner = q.by
    /\ q.pc = "cache" => q.teams = Overview(q.by)
    /\ q.pc \in {"write", "create"} => q.kind \notin Batches
    /\ q.kind = "batchArchive" => \A s \in q.some : Owns(q.by, s)

Begins(c, q) == Starts(c, q) /\ UNCHANGED <<artifact, session, cached>>

LEMMA RequestIsCall ==
  ASSUME NEW kind \in Kinds, NEW u \in Users, NEW id \in AllIds \cup {None}, NEW some \in SUBSET Whose,
         NEW pc \in Stages, NEW todo \in SUBSET Update
  PROVE  Request(kind, u, id, some, pc, todo) \in Call
  <1>1. [x \in AllIds |-> None] \in Overviews
    BY DEF Overviews
  <1> QED BY <1>1 DEF Request, Call

\* A team that someone may write, and what may be written to it.
LEMMA TeamOf ==
  ASSUME TypeOK, NEW id \in AllIds, IsTeam(id)
  PROVE  /\ artifact[id] # None /\ Body(id) \in Content /\ Body(id).kind = "team"
         /\ Body(id).members \in Seq(Member)
  BY RowOf DEF IsTeam, Body

LEMMA TeamWrite ==
  ASSUME TypeOK, NEW c \in Clients, NEW u \in Users, NEW id \in AllIds,
         NEW kind \in Kinds \ (Batches \cup {"delete", "retire"}), NEW some \in SUBSET Whose,
         NEW pc \in {"sessions", "write", "close", "agent"}, NEW body \in Content, artifact[id] # None
  PROVE  Opening(Request(kind, u, id, some, pc, Write(id, body)))
  <1> DEFINE q == Request(kind, u, id, some, pc, Write(id, body))
  <1>1. Write(id, body) \in SUBSET Update /\ Write(id, body) # {}
    BY WriteIsUpdate
  <1>2. q \in Call
    BY <1>1, RequestIsCall DEF Stages
  <1>3. /\ q.meanwhile = {} /\ q.pc = pc /\ q.kind = kind /\ q.todo = Write(id, body) /\ q.seen = FALSE /\ q.id = id
    BY DEF Request
  <1>4. q.kind # "batchArchive"
    BY <1>3 DEF Batches
  <1> HIDE DEF q
  <1>5. Opening(q)
    BY <1>1, <1>2, <1>3, <1>4 DEF Opening
  <1> QED BY <1>5 DEF q

LEMMA OnTeamOpens ==
  ASSUME TypeOK, NEW c \in Clients, NEW u \in Users, NEW id \in AllIds, OnTeam(c, u, id)
  PROVE  \E q : Begins(c, q) /\ Opening(q)
  <1> USE DEF Begins
  <1>1. ASSUME NEW r \in Registrations, AddTeamMember(c, u, id, r)
        PROVE  \E q : Begins(c, q) /\ Opening(q)
    <2>1. IsTeam(id)
      BY <1>1 DEF AddTeamMember, Accessible
    <2>2. r \in Member /\ {r.session} \in SUBSET Whose
      BY RosterAssumption DEF Member
    <2>3. [Body(id) EXCEPT !.members = Registered(Body(id).members, r)] \in Content
      BY <2>1, <2>2, TeamOf, RegisteredIsRoster, ContentStays
    <2> DEFINE q == Request("add", u, id, {r.session}, "write",
                            Write(id, [Body(id) EXCEPT !.members = Registered(Body(id).members, r)]))
    <2>4. Opening(q)
      BY <2>1, <2>2, <2>3, TeamOf, TeamWrite DEF Kinds, Batches
    <2>5. Begins(c, q)
      BY <1>1 DEF AddTeamMember
    <2> QED BY <2>4, <2>5
  <1>2. ASSUME NEW r \in Registrations, PatchAgent(c, u, id, r)
        PROVE  \E q : Begins(c, q) /\ Opening(q)
    <2>1. artifact[id] # None /\ Body(id).kind = "standalone"
      BY <1>2 DEF PatchAgent, Agent, Body
    <2>2. Body(id) \in Content /\ Body(id).members \in Seq(Member) /\ Len(Body(id).members) = 1
      BY <2>1, RowOf DEF Content
    <2>3. PatchedAgent(Body(id).members[1], r) \in Member
      BY <2>2, PatchedIsMember, RosterAssumption
    <2>4. [Body(id) EXCEPT !.members[1] = PatchedAgent(Body(id).members[1], r)] \in Content
      BY <2>1, <2>2, <2>3, ContentStays
    <2> DEFINE q == Request("patch", u, id, {}, "agent",
                            Write(id, [Body(id) EXCEPT !.members[1] = PatchedAgent(Body(id).members[1], r)]))
    <2>5. Opening(q)
      BY <2>1, <2>4, TeamWrite DEF Kinds, Batches
    <2>6. Begins(c, q)
      <3>1. [Body(id) EXCEPT !.members[1] = PatchedAgent(@, r)]
              = [Body(id) EXCEPT !.members[1] = PatchedAgent(Body(id).members[1], r)]
        BY <2>2 DEF Content
      <3> QED BY <1>2, <3>1 DEF PatchAgent
    <2> QED BY <2>5, <2>6
  <1>3. ASSUME NEW s \in Sessions, RemoveTeamMember(c, u, id, s)
        PROVE  \E q : Begins(c, q) /\ Opening(q)
    <2>1. IsTeam(id)
      BY <1>3 DEF RemoveTeamMember, Accessible
    <2>2. {s} \in SUBSET Whose
      BY DEF Whose
    <2>3. [Body(id) EXCEPT !.members = Without(Body(id).members, {s})] \in Content
      BY <2>1, TeamOf, WithoutThem, ContentStays
    <2> DEFINE q == Request("remove", u, id, {s}, "write",
                            Write(id, [Body(id) EXCEPT !.members = Without(Body(id).members, {s})]))
    <2>4. Opening(q)
      BY <2>1, <2>2, <2>3, TeamOf, TeamWrite DEF Kinds, Batches
    <2>5. Begins(c, q)
      BY <1>3 DEF RemoveTeamMember
    <2> QED BY <2>4, <2>5
  <1>4. ASSUME NEW s \in Sessions, RetireBypassAgent(c, u, id, s)
        PROVE  \E q : Begins(c, q) /\ Opening(q)
    <2>1. IsTeam(id)
      BY <1>4 DEF RetireBypassAgent, Accessible
    <2>2. {s} \in SUBSET Whose
      BY DEF Whose
    <2>3. [Body(id) EXCEPT !.members = Without(Body(id).members, {s})] \in Content
      BY <2>1, TeamOf, WithoutThem, ContentStays
    <2> DEFINE p == Request("retire", u, id, {s}, "agent",
                            Write(id, [Body(id) EXCEPT !.members = Without(Body(id).members, {s})]))
               q == [p EXCEPT !.owner = artifact[id].owner]
    <2>4. p \in Call /\ p.todo # {}
      <3>1. /\ Write(id, [Body(id) EXCEPT !.members = Without(Body(id).members, {s})]) \in SUBSET Update
            /\ Write(id, [Body(id) EXCEPT !.members = Without(Body(id).members, {s})]) # {}
        BY <2>1, <2>3, TeamOf, WriteIsUpdate
      <3>2. p \in Call
        BY <2>2, <3>1, RequestIsCall DEF Kinds, Stages
      <3> QED BY <3>1, <3>2 DEF Request
    <2>5. p.pc = "agent" /\ p.kind = "retire" /\ p.meanwhile = {}
      BY DEF Request
    <2>6. artifact[id].owner \in Users
      BY <2>1, TeamOf, RowOf
    <2>7. Begins(c, q)
      BY <1>4 DEF RetireBypassAgent
    <2> HIDE DEF p
    <2>8. Opening(q)
      <3>1. q \in Call /\ q.pc = p.pc /\ q.kind = p.kind /\ q.meanwhile = p.meanwhile /\ q.todo = p.todo
            /\ q.owner \in Users
        BY <2>4, <2>6 DEF Call
      <3> HIDE DEF q
      <3> QED BY <2>4, <2>5, <3>1 DEF Opening
    <2> QED BY <2>7, <2>8
  <1>5. ASSUME RenameTeam(c, u, id)
        PROVE  \E q : Begins(c, q) /\ Opening(q)
    <2>1. IsTeam(id)
      BY <1>5 DEF RenameTeam, Accessible
    <2> DEFINE q == Request("rename", u, id, {}, "write", Write(id, Body(id)))
    <2>2. Opening(q)
      BY <2>1, TeamOf, TeamWrite DEF Kinds, Batches
    <2>3. Begins(c, q)
      BY <1>5 DEF RenameTeam
    <2> QED BY <2>2, <2>3
  <1>6. ASSUME NEW named \in Named, ArchiveTeam(c, u, id, named) \/ UnarchiveTeam(c, u, id, named)
        PROVE  \E q : Begins(c, q) /\ Opening(q)
    <2>1. IsTeam(id)
      BY <1>6 DEF ArchiveTeam, UnarchiveTeam, Accessible
    <2>2. InRoster(Body(id)) \cup named \in SUBSET Whose
      BY <2>1, TeamOf, RowOf, RosterAssumption DEF Whose
    <2>3. [Body(id) EXCEPT !.archived = TRUE] \in Content /\ [Body(id) EXCEPT !.archived = FALSE] \in Content
      BY <2>1, TeamOf, ContentStays
    <2> DEFINE q(kind, x) == Request(kind, u, id, InRoster(Body(id)) \cup named, "sessions",
                                     Write(id, [Body(id) EXCEPT !.archived = x]))
    <2>4. Opening(q("archive", TRUE)) /\ Opening(q("unarchive", FALSE))
      BY <2>1, <2>2, <2>3, TeamOf, TeamWrite DEF Kinds, Batches
    <2>5. Begins(c, q("archive", TRUE)) \/ Begins(c, q("unarchive", FALSE))
      BY <1>6 DEF ArchiveTeam, UnarchiveTeam
    <2> QED BY <2>4, <2>5
  <1>7. ASSUME NEW named \in Named, DeleteTeam(c, u, id, named)
        PROVE  \E q : Begins(c, q) /\ Opening(q)
    <2>1. IsTeam(id)
      BY <1>7 DEF DeleteTeam, Accessible
    <2>2. InRoster(Body(id)) \cup named \in SUBSET Whose /\ artifact[id].owner \in Users
      BY <2>1, TeamOf, RowOf, RosterAssumption DEF Whose
    <2> DEFINE p == Request("delete", u, id, InRoster(Body(id)) \cup named, "sessions", {})
               q == [p EXCEPT !.owner = artifact[id].owner]
    <2>3. p \in Call
      BY <2>2, RequestIsCall DEF Kinds, Stages
    <2>4. p.pc = "sessions" /\ p.kind = "delete" /\ p.id = id /\ p.meanwhile = {}
      BY DEF Request
    <2>5. Begins(c, q)
      BY <1>7 DEF DeleteTeam
    <2> HIDE DEF p
    <2>6. q \in Call /\ q.pc = "sessions" /\ q.kind = "delete" /\ q.id = id /\ q.meanwhile = {} /\ q.owner \in Users
      BY <2>2, <2>3, <2>4 DEF Call
    <2> HIDE DEF q
    <2>7. Opening(q)
      BY <2>6 DEF Opening
    <2> QED BY <2>5, <2>7
  <1>8. ASSUME ArchiveAgent(c, u, id)
        PROVE  \E q : Begins(c, q) /\ Opening(q)
    <2>1. artifact[id] # None
      BY <1>8 DEF ArchiveAgent, Agent
    <2> DEFINE q == Request("shelve", u, id, InRoster(Body(id)), "close", Write(id, Body(id)))
    <2>2. Opening(q)
      BY <2>1, RowOf, TeamWrite DEF Kinds, Batches
    <2>3. Begins(c, q)
      BY <1>8 DEF ArchiveAgent
    <2> QED BY <2>2, <2>3
  <1>9. ASSUME PromoteAgent(c, u, id)
        PROVE  \E q : Begins(c, q) /\ Opening(q)
    <2>1. artifact[id] # None
      BY <1>9 DEF PromoteAgent, Agent
    <2>2. [Body(id) EXCEPT !.kind = "team"] \in Content
      BY <2>1, RowOf, ContentStays
    <2> DEFINE q == Request("promote", u, id, {}, "agent", Write(id, [Body(id) EXCEPT !.kind = "team"]))
    <2>3. Opening(q)
      BY <2>1, <2>2, TeamWrite DEF Kinds, Batches
    <2>4. Begins(c, q)
      BY <1>9 DEF PromoteAgent
    <2> QED BY <2>3, <2>4
  <1>10. ASSUME NEW body \in Bodies, RewriteArtifact(c, u, id, body)
        PROVE  \E q : Begins(c, q) /\ Opening(q)
    <2>1. artifact[id] # None
      BY <1>10 DEF RewriteArtifact, HasArtifact
    <2>2. body \in Content
      BY RosterAssumption DEF Bodies
    <2> DEFINE q == Request("rewrite", u, id, {}, "agent", Write(id, body))
    <2>3. Opening(q)
      BY <2>1, <2>2, TeamWrite DEF Kinds, Batches
    <2>4. Begins(c, q)
      BY <1>10 DEF RewriteArtifact
    <2> QED BY <2>3, <2>4
  <1>11. ASSUME EraseArtifact(c, u, id)
        PROVE  \E q : Begins(c, q) /\ Opening(q)
    <2> DEFINE q == Request("erase", u, id, {}, "erase", {})
    <2>1. q \in Call
      BY RequestIsCall DEF Kinds, Stages
    <2>2. q.pc = "erase" /\ q.kind = "erase" /\ q.id = id /\ q.meanwhile = {}
      BY DEF Request
    <2>3. Begins(c, q)
      BY <1>11 DEF EraseArtifact
    <2> HIDE DEF q
    <2>4. Opening(q)
      BY <2>1, <2>2 DEF Opening
    <2> QED BY <2>3, <2>4
  <1> QED BY <1>1, <1>2, <1>3, <1>4, <1>5, <1>6, <1>7, <1>8, <1>9, <1>10, <1>11 DEF OnTeam

LEMMA OtherOpens ==
  ASSUME TypeOK, NEW c \in Clients, NEW u \in Users,
         \/ \E id \in Ids, seats \in SeatPlans : Create(c, u, id, seats)
         \/ \E kind \in Batches, named \in Named : Batch(c, u, kind, named)
         \/ ComputeOverview(c, u)
  PROVE  \E q : Begins(c, q) /\ Opening(q)
  <1> USE DEF Begins
  <1>1. ASSUME NEW id \in Ids, NEW seats \in SeatPlans, Create(c, u, id, seats)
        PROVE  \E q : Begins(c, q) /\ Opening(q)
    <2> DEFINE mine == artifact[id] # None /\ artifact[id].owner = u
               todo(t) == {[id |-> t, body |-> TeamBody(Planned(id, seats)), owner |-> u]}
               p(t) == Request("create", u, t, {}, "create", todo(t))
               q(t) == [p(t) EXCEPT !.seen = mine]
    <2>1. PICK t \in IF artifact[id] # None /\ artifact[id].owner # u THEN Unused ELSE {id} : Starts(c, q(t))
      BY <1>1 DEF Create
    <2>2. t \in AllIds /\ id \in AllIds /\ (mine => t = id)
      BY <2>1 DEF Unused, AllIds
    <2>3. TeamBody(Planned(id, seats)) \in Content
      BY <2>2, PlannedIsRoster DEF TeamBody, Content
    <2>4. todo(t) \in SUBSET Update /\ todo(t) # {}
      BY <2>2, <2>3 DEF Update
    <2>5. p(t) \in Call
      BY <2>2, <2>4, RequestIsCall DEF Kinds, Stages
    <2>6. p(t).pc = "create" /\ p(t).kind = "create" /\ p(t).id = t /\ p(t).meanwhile = {} /\ p(t).todo = todo(t) /\ p(t).by = u
      BY DEF Request
    <2> HIDE DEF p
    <2>7. mine \in BOOLEAN
      OBVIOUS
    <2>8. /\ q(t) \in Call /\ q(t).pc = "create" /\ q(t).kind = "create" /\ q(t).id = t /\ q(t).meanwhile = {}
          /\ q(t).todo = todo(t) /\ q(t).by = u /\ q(t).seen = mine
      <3> HIDE DEF mine
      <3> QED BY <2>5, <2>6, <2>7 DEF Call
    <2>9. Begins(c, q(t))
      BY <1>1, <2>1 DEF Create
    <2> HIDE DEF q, todo
    <2>10. Opening(q(t))
      BY <2>2, <2>4, <2>8 DEF Opening, Batches
    <2> QED BY <2>9, <2>10
  <1>2. ASSUME NEW kind \in Batches, NEW named \in Named, Batch(c, u, kind, named)
        PROVE  \E q : Begins(c, q) /\ Opening(q)
    <2> DEFINE mine == {s \in named : Owns(u, s)}
               q == Request(kind, u, None, mine, "sessions", {})
    <2>1. mine \in SUBSET Whose
      BY RosterAssumption DEF Whose
    <2>2. q \in Call
      BY <2>1, RequestIsCall DEF Kinds, Stages
    <2>3. q.pc = "sessions" /\ q.kind = kind /\ q.kind \notin {"delete", "retire", "archive", "unarchive"}
         /\ q.meanwhile = {} /\ q.some = mine /\ q.by = u
      BY DEF Request, Batches
    <2>4. Begins(c, q)
      BY <1>2 DEF Batch
    <2> HIDE DEF q
    <2>5. Opening(q)
      BY <2>2, <2>3 DEF Opening
    <2> QED BY <2>4, <2>5
  <1>3. ASSUME ComputeOverview(c, u)
        PROVE  \E q : Begins(c, q) /\ Opening(q)
    <2> DEFINE p == Request("overview", u, None, {}, "cache", {})
               q == [p EXCEPT !.teams = Overview(u)]
    <2>1. p \in Call
      BY RequestIsCall DEF Kinds, Stages
    <2>2. p.pc = "cache" /\ p.kind = "overview" /\ p.meanwhile = {} /\ p.by = u
      BY DEF Request
    <2>3. Begins(c, q)
      BY <1>3 DEF ComputeOverview
    <2>4. Overview(u) \in Overviews
      BY OverviewIsOne
    <2> HIDE DEF p
    <2>5. q \in Call /\ q.pc = "cache" /\ q.kind = "overview" /\ q.meanwhile = {} /\ q.by = u /\ q.teams = Overview(u)
      BY <2>1, <2>2, <2>4 DEF Call
    <2> HIDE DEF q
    <2>6. Opening(q)
      BY <2>5 DEF Opening
    <2> QED BY <2>3, <2>6
  <1> QED BY <1>1, <1>2, <1>3

-----------------------------------------------------------------------------
(* What a step does to the calls.                                           *)

\* The calls of the others go on as they were, or with a note.
SameCall(p, q) ==
    /\ p.kind = q.kind /\ p.by = q.by /\ p.id = q.id /\ p.some = q.some /\ p.pc = q.pc /\ p.owner = q.owner
    /\ p.todo = q.todo /\ p.seen = q.seen /\ p.teams = q.teams

Quietly(c) == \A d \in Clients \ {c} : call'[d] = call[d]
Noting(c, what) ==
    \A d \in Clients \ {c} :
        /\ call[d] = None <=> call'[d] = None
        /\ call[d] # None => /\ call'[d] \in Call /\ SameCall(call'[d], call[d])
                             /\ call'[d].meanwhile = call[d].meanwhile \cup {what}

LEMMA CallOf ==
  ASSUME TypeOK, NEW c \in Clients, call[c] # None
  PROVE  /\ call[c] \in Call /\ call[c].by \in Users /\ call[c].id \in AllIds \cup {None}
         /\ call[c].some \in SUBSET Whose /\ call[c].owner \in Users \cup {None} /\ call[c].todo \in SUBSET Update
         /\ call[c].seen \in BOOLEAN /\ call[c].teams \in Overviews
         /\ call[c].kind \in Kinds /\ call[c].pc \in Stages
  <1>1. call[c] \in Call
    BY DEF TypeOK
  <1> QED BY <1>1 DEF Call

LEMMA MovesIs ==
  ASSUME TypeOK, NEW c \in Clients, NEW next \in Call \cup {None}, Moves(c, next)
  PROVE  call' \in [Clients -> Call \cup {None}] /\ call'[c] = next /\ Quietly(c)
  BY DEF TypeOK, Moves, Quietly

LEMMA DisturbedIs ==
  ASSUME TypeOK, NEW c \in Clients, NEW what \in {"wrote", "removed"}, NEW next \in Call \cup {None},
         call' = Disturbed(c, what, next)
  PROVE  call' \in [Clients -> Call \cup {None}] /\ call'[c] = next /\ Noting(c, what)
  <1>1. ASSUME NEW d \in Clients, d # c
        PROVE  /\ call'[d] \in Call \cup {None} /\ (call[d] = None <=> call'[d] = None)
               /\ call[d] # None => /\ call'[d] \in Call /\ SameCall(call'[d], call[d])
                                    /\ call'[d].meanwhile = call[d].meanwhile \cup {what}
    <2>1. CASE call[d] = None
      BY <1>1, <2>1 DEF Disturbed
    <2>2. CASE call[d] # None
      <3>1. call[d] \in Call
        BY <2>2, CallOf
      <3> DEFINE q == [call[d] EXCEPT !.meanwhile = @ \cup {what}]
      <3>2. q \in Call /\ SameCall(q, call[d]) /\ q.meanwhile = call[d].meanwhile \cup {what}
        BY <3>1 DEF Call, SameCall
      <3>3. call'[d] = q
        BY <1>1, <2>2 DEF Disturbed
      <3> HIDE DEF q
      <3> QED BY <2>2, <3>2, <3>3, RosterAssumption
    <2> QED BY <2>1, <2>2
  <1>2. call'[c] = next /\ call' = [d \in Clients |-> call'[d]]
    BY DEF Disturbed
  <1>3. \A d \in Clients : call'[d] \in Call \cup {None}
    BY <1>1, <1>2
  <1>4. call' \in [Clients -> Call \cup {None}]
    BY <1>2, <1>3
  <1>5. Noting(c, what)
    BY <1>1 DEF Noting
  <1> QED BY <1>2, <1>4, <1>5

\* Where a call goes on.
Onward(c, pc) ==
    /\ call'[c] \in Call /\ call'[c].pc = pc
    /\ call'[c].kind = call[c].kind /\ call'[c].by = call[c].by /\ call'[c].some = call[c].some
    /\ call'[c].teams = call[c].teams /\ call'[c].meanwhile = call[c].meanwhile
GoesOn(c, pc) ==
    Onward(c, pc) /\ call'[c].id = call[c].id /\ call'[c].owner = call[c].owner /\ call'[c].todo = call[c].todo

LEMMA TouchSessionsDoes ==
  ASSUME TypeOK, NEW c \in Clients, TouchSessions(c)
  PROVE  /\ call' \in [Clients -> Call \cup {None}] /\ Quietly(c) /\ At(c, "sessions")
         /\ \/ call'[c] = None
            \/ GoesOn(c, "list") /\ call[c].kind = "batchArchive"
            \/ GoesOn(c, "write") /\ call[c].kind \in {"archive", "unarchive"}
         /\ Sets(c, call[c].kind \in {"unarchive", "batchUnarchive"})
         /\ UNCHANGED <<artifact, cached, calls>>
  <1>1. At(c, "sessions") /\ call[c] \in Call
    BY CallOf DEF TouchSessions, At
  <1> DEFINE l == [call[c] EXCEPT !.pc = "list"]
             w == [call[c] EXCEPT !.pc = "write"]
  <1>2. l \in Call /\ w \in Call
    BY <1>1 DEF Call, Stages
  <1>3. Moves(c, None) \/ (Moves(c, l) /\ call[c].kind = "batchArchive")
        \/ (Moves(c, w) /\ call[c].kind \in {"archive", "unarchive"})
    BY DEF TouchSessions, Ends
  <1>4. CASE Moves(c, None)
    BY <1>1, <1>4, MovesIs DEF TouchSessions
  <1>5. CASE Moves(c, l) /\ call[c].kind = "batchArchive"
    <2>1. call' \in [Clients -> Call \cup {None}] /\ call'[c] = l /\ Quietly(c)
      BY <1>2, <1>5, MovesIs
    <2>2. GoesOn(c, "list")
      BY <1>1, <1>2, <2>1 DEF GoesOn, Onward, Call
    <2> QED BY <1>1, <1>5, <2>1, <2>2 DEF TouchSessions
  <1>6. CASE Moves(c, w) /\ call[c].kind \in {"archive", "unarchive"}
    <2>1. call' \in [Clients -> Call \cup {None}] /\ call'[c] = w /\ Quietly(c)
      BY <1>2, <1>6, MovesIs
    <2>2. GoesOn(c, "write")
      BY <1>1, <1>2, <2>1 DEF GoesOn, Onward, Call
    <2> QED BY <1>1, <1>6, <2>1, <2>2 DEF TouchSessions
  <1> QED BY <1>3, <1>4, <1>5, <1>6

LEMMA RemoveSessionsDoes ==
  ASSUME TypeOK, NEW c \in Clients, RemoveSessions(c)
  PROVE  /\ call' \in [Clients -> Call \cup {None}] /\ Noting(c, "removed") /\ At(c, "sessions")
         /\ GoesOn(c, "list") /\ call[c].kind = "batchDelete" /\ Drops(c)
         /\ UNCHANGED <<artifact, cached, calls>>
  <1>1. At(c, "sessions") /\ call[c] \in Call
    BY CallOf DEF RemoveSessions, At
  <1> DEFINE l == [call[c] EXCEPT !.pc = "list"]
  <1>2. l \in Call
    BY <1>1 DEF Call, Stages
  <1>3. call' = Disturbed(c, "removed", l)
    BY DEF RemoveSessions
  <1>4. call' \in [Clients -> Call \cup {None}] /\ call'[c] = l /\ Noting(c, "removed")
    <2> HIDE DEF l
    <2> QED BY <1>2, <1>3, DisturbedIs
  <1>5. GoesOn(c, "list")
    BY <1>1, <1>2, <1>4 DEF GoesOn, Onward, Call
  <1> QED BY <1>1, <1>4, <1>5 DEF RemoveSessions

LEMMA RemoveTeamDoes ==
  ASSUME TypeOK, NEW c \in Clients, RemoveTeam(c)
  PROVE  /\ call' \in [Clients -> Call \cup {None}] /\ At(c, "sessions") /\ call[c].kind = "delete"
         /\ call[c].id \in AllIds /\ call[c].owner \in Users /\ UNCHANGED calls
         /\ \/ call'[c] = None /\ Quietly(c) /\ UNCHANGED <<artifact, session, cached>>
            \/ /\ GoesOn(c, "drop") /\ Noting(c, "removed") /\ Drops(c)
               /\ artifact[call[c].id] # None /\ artifact' = [artifact EXCEPT ![call[c].id] = None]
               /\ Trusted(call[c].id, call[c].owner)
  <1>1. At(c, "sessions") /\ call[c] \in Call /\ call[c].kind = "delete" /\ UNCHANGED calls
    BY CallOf DEF RemoveTeam, At
  <1>2. call[c].id \in AllIds /\ call[c].owner \in Users
    BY <1>1 DEF TypeOK, At
  <1> DEFINE l == [call[c] EXCEPT !.pc = "drop"]
  <1>3. l \in Call
    BY <1>1 DEF Call, Stages
  <1>4. CASE artifact[call[c].id] = None
    <2>1. Moves(c, None) /\ UNCHANGED <<artifact, session, cached>>
      BY <1>4 DEF RemoveTeam, Ends
    <2> QED BY <1>1, <1>2, <2>1, MovesIs
  <1>5. CASE artifact[call[c].id] # None
    <2>1. /\ Drops(c) /\ Trusted(call[c].id, call[c].owner) /\ artifact' = [artifact EXCEPT ![call[c].id] = None]
          /\ call' = Disturbed(c, "removed", l)
      BY <1>5 DEF RemoveTeam
    <2>2. call' \in [Clients -> Call \cup {None}] /\ call'[c] = l /\ Noting(c, "removed")
      <3> HIDE DEF l
      <3> QED BY <1>3, <2>1, DisturbedIs
    <2>3. GoesOn(c, "drop")
      BY <1>1, <1>3, <2>2 DEF GoesOn, Onward, Call
    <2> QED BY <1>1, <1>2, <1>5, <2>1, <2>2, <2>3
  <1> QED BY <1>4, <1>5

\* The writes that a batch finds.
Found(c) == {id \in Listed(call[c].by) : InRoster(Body(id)) \cap call[c].some # {}}
Cleaned(c, id) == [Body(id) EXCEPT !.members = Without(Body(id).members, call[c].some)]

LEMMA ListTeamsDoes ==
  ASSUME TypeOK, NEW c \in Clients, ListTeams(c)
  PROVE  /\ call' \in [Clients -> Call \cup {None}] /\ Quietly(c) /\ At(c, "list")
         /\ Onward(c, IF Found(c) = {} THEN "done" ELSE "write")
         /\ call'[c].id = call[c].id /\ call'[c].owner = call[c].owner
         /\ call'[c].todo = UNION {Write(id, Cleaned(c, id)) : id \in Found(c)}
         /\ \A id \in Found(c) : Cleaned(c, id) \in Content /\ Write(id, Cleaned(c, id)) # {}
         /\ UNCHANGED <<artifact, session, cached, calls>>
  <1>1. At(c, "list") /\ call[c] \in Call
    BY CallOf DEF ListTeams, At
  <1>2. \A id \in Found(c) : Cleaned(c, id) \in Content /\ Write(id, Cleaned(c, id)) \in SUBSET Update
                              /\ Write(id, Cleaned(c, id)) # {}
    <2>1. TAKE id \in Found(c)
    <2>2. id \in AllIds /\ IsTeam(id)
      BY DEF Found, Listed, Shown
    <2>3. Cleaned(c, id) \in Content
      BY <2>2, TeamOf, WithoutThem, ContentStays DEF Cleaned
    <2> QED BY <2>2, <2>3, TeamOf, WriteIsUpdate
  <1> DEFINE todo == UNION {Write(id, Cleaned(c, id)) : id \in Found(c)}
             pc == IF Found(c) = {} THEN "done" ELSE "write"
             l == [call[c] EXCEPT !.pc = pc, !.todo = todo]
  <1>3. todo \in SUBSET Update
    BY <1>2
  <1>4. Moves(c, l) /\ UNCHANGED <<artifact, session, cached, calls>>
    BY DEF ListTeams, Found, Cleaned
  <1> HIDE DEF todo
  <1>5. l \in Call /\ l.pc = pc /\ l.todo = todo
    BY <1>1, <1>3 DEF Call, Stages
  <1>6. call' \in [Clients -> Call \cup {None}] /\ call'[c] = l /\ Quietly(c)
    <2> HIDE DEF l
    <2> QED BY <1>4, <1>5, MovesIs
  <1>7. Onward(c, pc) /\ call'[c].id = call[c].id /\ call'[c].owner = call[c].owner /\ call'[c].todo = todo
    BY <1>1, <1>5, <1>6 DEF Onward, Call
  <1> QED BY <1>1, <1>2, <1>4, <1>6, <1>7 DEF todo

\* A write that hits the row, and drops the overview of the owner that was read.
Hits(c, id, body, owner) ==
    /\ id \in AllIds /\ body \in Content /\ owner \in Users
    /\ artifact[id] # None /\ artifact' = [artifact EXCEPT ![id].body = body]
    /\ Trusted(id, owner) /\ Noting(c, "wrote") /\ Onward(c, "drop") /\ call'[c].owner = owner

LEMMA WriteBodyDoes ==
  ASSUME TypeOK, NEW c \in Clients, WriteBody(c)
  PROVE  /\ call' \in [Clients -> Call \cup {None}] /\ At(c, "write") /\ UNCHANGED <<session, calls>>
         /\ \/ call'[c] = None /\ Quietly(c) /\ UNCHANGED <<artifact, cached>>
            \/ \E w \in call[c].todo : /\ Hits(c, w.id, w.body, w.owner) /\ call'[c].id = call[c].id
                                       /\ call'[c].todo = call[c].todo \ {w}
  <1>1. At(c, "write") /\ call[c] \in Call /\ call[c].todo \in SUBSET Update
    BY CallOf DEF WriteBody, At
  <1>2. PICK w \in call[c].todo :
          IF artifact[w.id] = None THEN Ends(c) /\ UNCHANGED <<artifact, cached>>
          ELSE /\ artifact' = [artifact EXCEPT ![w.id].body = w.body]
               /\ Trusted(w.id, w.owner)
               /\ call' = Disturbed(c, "wrote", [call[c] EXCEPT !.pc = "drop", !.owner = w.owner,
                                                       !.todo = @ \ {w}])
    BY DEF WriteBody
  <1>3. w.id \in AllIds /\ w.body \in Content /\ w.owner \in Users
    BY <1>1 DEF Update
  <1> DEFINE l == [call[c] EXCEPT !.pc = "drop", !.owner = w.owner, !.todo = @ \ {w}]
  <1>4. l \in Call /\ l.pc = "drop" /\ l.owner = w.owner /\ l.todo = call[c].todo \ {w}
    BY <1>1, <1>3 DEF Call, Stages
  <1>5. CASE artifact[w.id] = None
    <2>1. Moves(c, None) /\ UNCHANGED <<artifact, cached>>
      BY <1>2, <1>5 DEF Ends
    <2> QED BY <1>1, <2>1, MovesIs DEF WriteBody
  <1>6. CASE artifact[w.id] # None
    <2>1. call' = Disturbed(c, "wrote", l)
      BY <1>2, <1>6
    <2>2. call' \in [Clients -> Call \cup {None}] /\ call'[c] = l /\ Noting(c, "wrote")
      <3> HIDE DEF l
      <3> QED BY <1>4, <2>1, DisturbedIs
    <2>3. Onward(c, "drop") /\ call'[c].id = call[c].id
      BY <1>1, <1>4, <2>2 DEF Onward, Call
    <2>4. Hits(c, w.id, w.body, w.owner) /\ call'[c].todo = call[c].todo \ {w}
      <3> HIDE DEF l
      <3> QED BY <1>2, <1>3, <1>4, <1>6, <2>2, <2>3 DEF Hits
    <2> QED BY <1>1, <2>2, <2>3, <2>4 DEF WriteBody
  <1> QED BY <1>5, <1>6

LEMMA DropOverviewDoes ==
  ASSUME TypeOK, NEW c \in Clients, DropOverview(c)
  PROVE  /\ call' \in [Clients -> Call \cup {None}] /\ Quietly(c) /\ At(c, "drop") /\ call[c].owner \in Users
         /\ GoesOn(c, IF call[c].todo = {} THEN "done" ELSE "write")
         /\ Dropped(c) /\ UNCHANGED <<artifact, session, calls>>
  <1>1. At(c, "drop") /\ call[c] \in Call /\ call[c].owner \in Users
    BY CallOf DEF DropOverview, At, TypeOK
  <1> DEFINE pc == IF call[c].todo = {} THEN "done" ELSE "write"
             l == [call[c] EXCEPT !.pc = pc]
  <1>2. pc \in Stages
    BY DEF Stages
  <1>3. Moves(c, l) /\ Dropped(c) /\ UNCHANGED <<artifact, session, calls>>
    BY DEF DropOverview
  <1> HIDE DEF pc
  <1>4. l \in Call
    BY <1>1, <1>2 DEF Call
  <1>5. call' \in [Clients -> Call \cup {None}] /\ call'[c] = l /\ Quietly(c)
    <2> HIDE DEF l
    <2> QED BY <1>3, <1>4, MovesIs
  <1>6. GoesOn(c, pc)
    BY <1>1, <1>4, <1>5 DEF GoesOn, Onward, Call
  <1> QED BY <1>1, <1>3, <1>5, <1>6 DEF pc

LEMMA CreateArtifactDoes ==
  ASSUME TypeOK, NEW c \in Clients, CreateArtifact(c)
  PROVE  /\ call' \in [Clients -> Call \cup {None}] /\ At(c, "create") /\ call[c].id \in AllIds
         /\ UNCHANGED <<session, calls>>
         /\ \/ call'[c] = None /\ Quietly(c) /\ UNCHANGED <<artifact, cached>>
            \/ \E body : /\ call[c].seen /\ Hits(c, call[c].id, body, call[c].by)
                         /\ call'[c].todo = {} /\ call'[c].id = call[c].id
            \/ \E body \in Content :
                  /\ artifact[call[c].id] = None /\ UNCHANGED cached
                  /\ artifact' = [artifact EXCEPT ![call[c].id] = [owner |-> call[c].by, body |-> body]]
                  /\ Noting(c, "wrote") /\ Onward(c, "drop") /\ call'[c].todo = {} /\ call'[c].id = call[c].id
                  /\ call'[c].owner = call[c].by
            \/ /\ Onward(c, "create") /\ Quietly(c) /\ call'[c].id \in AllIds /\ UNCHANGED <<artifact, cached>>
               /\ call'[c].todo = call[c].todo /\ call'[c].owner = call[c].owner
               /\ call'[c].seen => call'[c].id = call[c].id /\ TakenByOwn(c)
  <1>1. At(c, "create") /\ call[c] \in Call /\ call[c].todo \in SUBSET Update /\ call[c].by \in Users
        /\ UNCHANGED <<session, calls>>
        /\ call[c].seen \in BOOLEAN
    BY CallOf DEF CreateArtifact, At
  <1>2. call[c].id \in AllIds
    BY <1>1 DEF At, TypeOK
  <1> DEFINE id == call[c].id
             Taken == /\ \E target \in IF TakenByOwn(c) THEN {id} ELSE Unused :
                           Moves(c, [call[c] EXCEPT !.seen = TakenByOwn(c), !.id = target])
                      /\ UNCHANGED <<artifact, cached>>
  <1>3. PICK w \in call[c].todo :
             CASE call[c].seen /\ artifact[id] = None -> Ends(c) /\ UNCHANGED <<artifact, cached>>
               [] call[c].seen /\ artifact[id] # None ->
                     /\ artifact' = [artifact EXCEPT ![id].body = w.body]
                     /\ Trusted(id, call[c].by)
                     /\ Saved(c)
               [] ~call[c].seen /\ artifact[id] = None ->
                     /\ artifact' = [artifact EXCEPT ![id] = [owner |-> call[c].by, body |-> w.body]]
                     /\ Saved(c)
                     /\ UNCHANGED cached
               [] OTHER -> Taken
    <2> HIDE DEF Taken
    <2> QED BY DEF CreateArtifact, Taken
  <1>4. w.body \in Content
    BY <1>1 DEF Update
  <1> DEFINE l == [call[c] EXCEPT !.pc = "drop", !.owner = call[c].by, !.todo = {}]
  <1>5. l \in Call /\ l.pc = "drop" /\ l.owner = call[c].by /\ l.todo = {}
    BY <1>1 DEF Call, Stages
  <1>6. ASSUME Saved(c)
        PROVE  /\ call' \in [Clients -> Call \cup {None}] /\ Noting(c, "wrote") /\ Onward(c, "drop")
               /\ call'[c].todo = {} /\ call'[c].id = id /\ call'[c].owner = call[c].by
    <2>1. call' = Disturbed(c, "wrote", l)
      BY <1>6 DEF Saved
    <2>2. call' \in [Clients -> Call \cup {None}] /\ call'[c] = l /\ Noting(c, "wrote")
      <3> HIDE DEF l
      <3> QED BY <1>5, <2>1, DisturbedIs
    <2> QED BY <1>1, <1>5, <2>2 DEF Onward, Call
  <1>7. CASE call[c].seen /\ artifact[id] = None
    <2>1. Moves(c, None) /\ UNCHANGED <<artifact, cached>>
      BY <1>3, <1>7 DEF Ends
    <2> QED BY <1>1, <1>2, <2>1, MovesIs
  <1>8. CASE call[c].seen /\ artifact[id] # None
    <2>1. artifact' = [artifact EXCEPT ![id].body = w.body] /\ Trusted(id, call[c].by) /\ Saved(c)
      BY <1>3, <1>8
    <2>2. Hits(c, id, w.body, call[c].by)
      BY <1>1, <1>2, <1>4, <1>6, <1>8, <2>1 DEF Hits
    <2> QED BY <1>1, <1>2, <1>6, <1>8, <2>1, <2>2
  <1>9. CASE ~call[c].seen /\ artifact[id] = None
    <2>1. artifact' = [artifact EXCEPT ![id] = [owner |-> call[c].by, body |-> w.body]] /\ Saved(c) /\ UNCHANGED cached
      BY <1>3, <1>9
    <2> QED BY <1>1, <1>2, <1>4, <1>6, <1>9, <2>1
  <1>10. CASE ~call[c].seen /\ artifact[id] # None
    <2>1. Taken
      <3> HIDE DEF Taken
      <3> QED BY <1>3, <1>10
    <2>2. PICK target \in IF TakenByOwn(c) THEN {id} ELSE Unused :
            Moves(c, [call[c] EXCEPT !.seen = TakenByOwn(c), !.id = target])
      BY <2>1
    <2> DEFINE own == TakenByOwn(c)
               m == [call[c] EXCEPT !.seen = own, !.id = target]
    <2>3. own \in BOOLEAN /\ target \in AllIds /\ (own => target = id)
      BY <1>2, <2>2 DEF TakenByOwn, Unused, AllIds
    <2>4. m \in Call /\ m.seen = own /\ m.id = target /\ m.pc = "create" /\ m.todo = call[c].todo /\ m.owner = call[c].owner
      <3> HIDE DEF own
      <3> QED BY <1>1, <2>3 DEF Call, At
    <2>5. call' \in [Clients -> Call \cup {None}] /\ call'[c] = m /\ Quietly(c)
      <3>1. Moves(c, m)
        BY <2>2
      <3> HIDE DEF m
      <3> QED BY <2>4, <3>1, MovesIs
    <2>6. Onward(c, "create")
      <3> HIDE DEF own
      <3> QED BY <1>1, <2>3, <2>4, <2>5 DEF Onward, Call
    <2>7. UNCHANGED <<artifact, cached>>
      BY <2>1
    <2> HIDE DEF m
    <2> QED BY <1>1, <1>2, <2>3, <2>4, <2>5, <2>6, <2>7
  <1> QED BY <1>1, <1>7, <1>8, <1>9, <1>10

LEMMA CloseSessionsDoes ==
  ASSUME TypeOK, NEW c \in Clients, CloseSessions(c)
  PROVE  /\ call' \in [Clients -> Call \cup {None}] /\ Quietly(c) /\ At(c, "close") /\ GoesOn(c, "agent")
         /\ Sets(c, FALSE) /\ UNCHANGED <<artifact, cached, calls>>
  <1>1. At(c, "close") /\ call[c] \in Call
    BY CallOf DEF CloseSessions, At
  <1> DEFINE l == [call[c] EXCEPT !.pc = "agent"]
  <1>2. l \in Call
    BY <1>1 DEF Call, Stages
  <1>3. Moves(c, l)
    BY DEF CloseSessions
  <1>4. call' \in [Clients -> Call \cup {None}] /\ call'[c] = l /\ Quietly(c)
    <2> HIDE DEF l
    <2> QED BY <1>2, <1>3, MovesIs
  <1>5. GoesOn(c, "agent")
    BY <1>1, <1>2, <1>4 DEF GoesOn, Onward, Call
  <1> QED BY <1>1, <1>4, <1>5 DEF CloseSessions

LEMMA WriteAgentDoes ==
  ASSUME TypeOK, NEW c \in Clients, WriteAgent(c)
  PROVE  /\ call' \in [Clients -> Call \cup {None}] /\ At(c, "agent") /\ UNCHANGED <<session, calls>>
         /\ \/ call'[c] = None /\ Quietly(c) /\ UNCHANGED <<artifact, cached>>
            \/ \E w \in call[c].todo :
                  /\ w.id \in AllIds /\ w.body \in Content /\ artifact[w.id] # None
                  /\ artifact' = [artifact EXCEPT ![w.id].body = w.body]
                  /\ Noting(c, "wrote") /\ cached' = Doubtful(w.id)
                  /\ call'[c] = None \/ (GoesOn(c, "retired") /\ call[c].kind = "retire")
  <1>1. At(c, "agent") /\ call[c] \in Call /\ call[c].todo \in SUBSET Update /\ UNCHANGED <<session, calls>>
    BY CallOf DEF WriteAgent, At
  <1> DEFINE l == [call[c] EXCEPT !.pc = "retired"]
             next == IF call[c].kind = "retire" THEN l ELSE None
  <1>2. PICK w \in call[c].todo :
          IF artifact[w.id] = None THEN Ends(c) /\ UNCHANGED <<artifact, cached>>
          ELSE /\ artifact' = [artifact EXCEPT ![w.id].body = w.body]
               /\ call' = Disturbed(c, "wrote", next)
               /\ cached' = Doubtful(w.id)
    BY DEF WriteAgent
  <1>3. w.id \in AllIds /\ w.body \in Content
    BY <1>1 DEF Update
  <1>4. l \in Call
    BY <1>1 DEF Call, Stages
  <1>5. CASE artifact[w.id] = None
    <2>1. Moves(c, None) /\ UNCHANGED <<artifact, cached>>
      BY <1>2, <1>5 DEF Ends
    <2> QED BY <1>1, <2>1, MovesIs
  <1>6. CASE artifact[w.id] # None
    <2>1. call' \in [Clients -> Call \cup {None}] /\ call'[c] = next /\ Noting(c, "wrote")
      <3>1. next \in Call \cup {None} /\ call' = Disturbed(c, "wrote", next)
        BY <1>2, <1>4, <1>6
      <3> HIDE DEF next
      <3> QED BY <3>1, DisturbedIs
    <2>2. call'[c] = None \/ (GoesOn(c, "retired") /\ call[c].kind = "retire")
      BY <1>1, <1>4, <2>1 DEF GoesOn, Onward, Call
    <2>3. artifact' = [artifact EXCEPT ![w.id].body = w.body] /\ cached' = Doubtful(w.id)
      BY <1>2, <1>6
    <2> QED BY <1>1, <1>3, <1>6, <2>1, <2>2, <2>3
  <1> QED BY <1>5, <1>6

LEMMA EndingDoes ==
  ASSUME TypeOK, NEW c \in Clients, Finish(c) \/ CloseRetired(c) \/ CacheOverview(c)
  PROVE  /\ call' \in [Clients -> Call \cup {None}] /\ Quietly(c) /\ call'[c] = None
         /\ At(c, "done") \/ At(c, "retired") \/ At(c, "cache")
         /\ UNCHANGED <<artifact, calls>>
  BY MovesIs DEF Finish, CloseRetired, CacheOverview, Ends

LEMMA RemoveArtifactDoes ==
  ASSUME TypeOK, NEW c \in Clients, RemoveArtifact(c)
  PROVE  /\ call' \in [Clients -> Call \cup {None}] /\ At(c, "erase") /\ call[c].id \in AllIds
         /\ call'[c] = None /\ UNCHANGED <<session, calls>>
         /\ \/ Quietly(c) /\ UNCHANGED <<artifact, cached>>
            \/ /\ Noting(c, "removed") /\ artifact' = [artifact EXCEPT ![call[c].id] = None]
               /\ cached' = Doubtful(call[c].id)
  <1>1. At(c, "erase") /\ call[c].id \in AllIds /\ UNCHANGED <<session, calls>>
    BY DEF RemoveArtifact, At, TypeOK
  <1>2. CASE artifact[call[c].id] = None
    <2>1. Moves(c, None) /\ UNCHANGED <<artifact, cached>>
      BY <1>2 DEF RemoveArtifact, Ends
    <2> QED BY <1>1, <2>1, MovesIs
  <1>3. CASE artifact[call[c].id] # None
    <2>1. /\ artifact' = [artifact EXCEPT ![call[c].id] = None] /\ cached' = Doubtful(call[c].id)
          /\ call' = Disturbed(c, "removed", None)
      BY <1>3 DEF RemoveArtifact
    <2> QED BY <1>1, <2>1, DisturbedIs
  <1> QED BY <1>2, <1>3

\* A drop that fails, and a call that ends before its next query is through.
LEMMA DropFailsDoes ==
  ASSUME TypeOK, NEW c \in Clients, DropFails(c)
  PROVE  /\ call' \in [Clients -> Call \cup {None}] /\ Quietly(c) /\ At(c, "drop") /\ call[c].owner \in Users
         /\ GoesOn(c, IF call[c].todo = {} THEN "done" ELSE "write")
         /\ Outdated(c) /\ UNCHANGED <<artifact, session, calls>>
  <1>1. At(c, "drop") /\ call[c] \in Call /\ call[c].owner \in Users
    BY CallOf DEF DropFails, At, TypeOK
  <1> DEFINE pc == IF call[c].todo = {} THEN "done" ELSE "write"
             l == [call[c] EXCEPT !.pc = pc]
  <1>2. pc \in Stages
    BY DEF Stages
  <1>3. Moves(c, l) /\ Outdated(c) /\ UNCHANGED <<artifact, session, calls>>
    BY DEF DropFails
  <1> HIDE DEF pc
  <1>4. l \in Call
    BY <1>1, <1>2 DEF Call
  <1>5. call' \in [Clients -> Call \cup {None}] /\ call'[c] = l /\ Quietly(c)
    <2> HIDE DEF l
    <2> QED BY <1>3, <1>4, MovesIs
  <1>6. GoesOn(c, pc)
    BY <1>1, <1>4, <1>5 DEF GoesOn, Onward, Call
  <1> QED BY <1>1, <1>3, <1>5, <1>6 DEF pc

LEMMA FailsDoes ==
  ASSUME TypeOK, NEW c \in Clients, Fails(c)
  PROVE  /\ call' \in [Clients -> Call \cup {None}] /\ Quietly(c) /\ call[c] # None /\ call'[c] = None
         /\ \/ At(c, "drop") /\ Outdated(c)
            \/ ~At(c, "drop") /\ UNCHANGED cached
         /\ UNCHANGED <<artifact, session, calls>>
  BY MovesIs DEF Fails, Ends, At

\* A row that is made beside the routes of teams is noted by the calls under way.
LEMMA NewArtifactDoes ==
  ASSUME TypeOK, NEW c \in Clients, NEW u \in Users, NEW id \in Ids, NEW body \in Bodies,
         NewArtifact(c, u, id, body)
  PROVE  /\ call' \in [Clients -> Call \cup {None}] /\ Noting(c, "wrote") /\ call[c] = None /\ call'[c] = None
         /\ artifact' \in [AllIds -> Row \cup {None}] /\ calls' \in 0 .. MaxCalls /\ UNCHANGED <<session, cached>>
         /\ \A x \in AllIds : artifact[x] # None => artifact'[x] = artifact[x]
  <1>1. /\ call[c] = None /\ artifact[id] = None /\ call' = Disturbed(c, "wrote", None)
        /\ artifact' = [artifact EXCEPT ![id] = [owner |-> u, body |-> body]]
        /\ calls < MaxCalls /\ calls' = calls + 1 /\ UNCHANGED <<session, cached>>
    BY DEF NewArtifact
  <1>2. calls' \in 0 .. MaxCalls
    BY <1>1, RosterAssumption DEF TypeOK
  <1>3. call' \in [Clients -> Call \cup {None}] /\ call'[c] = None /\ Noting(c, "wrote")
    BY <1>1, DisturbedIs
  <1>4. id \in AllIds /\ [owner |-> u, body |-> body] \in Row
    BY RosterAssumption DEF AllIds, Bodies, Row
  <1>5. artifact' \in [AllIds -> Row \cup {None}] /\ \A x \in AllIds : artifact[x] # None => artifact'[x] = artifact[x]
    <2> DEFINE row == [owner |-> u, body |-> body]
    <2> HIDE DEF row
    <2> QED BY <1>1, <1>4 DEF TypeOK, row
  <1> QED BY <1>1, <1>2, <1>3, <1>5

LEMMA BeginsDoes ==
  ASSUME TypeOK, NEW c \in Clients, NEW q, Begins(c, q), Opening(q)
  PROVE  /\ call[c] = None /\ call' \in [Clients -> Call \cup {None}] /\ Quietly(c) /\ call'[c] = q /\ q \in Call
         /\ calls' \in 0 .. MaxCalls /\ UNCHANGED <<artifact, session, cached>>
  <1>1. call[c] = None /\ Moves(c, q) /\ q \in Call /\ calls < MaxCalls /\ calls' = calls + 1
    BY DEF Begins, Starts, Opening
  <1> QED BY <1>1, MovesIs, RosterAssumption DEF Begins, TypeOK

\* The kinds of steps.
Does(c) ==
    \/ TouchSessions(c) \/ RemoveSessions(c) \/ RemoveTeam(c) \/ ListTeams(c)
    \/ WriteBody(c) \/ DropOverview(c) \/ CreateArtifact(c) \/ CloseSessions(c) \/ WriteAgent(c)
    \/ Finish(c) \/ CloseRetired(c) \/ CacheOverview(c)
    \/ RemoveArtifact(c) \/ DropFails(c) \/ Fails(c)

LEMMA StepIsOneOf ==
  ASSUME TypeOK, [Next]_vars
  PROVE  \/ \E c \in Clients : Does(c)
         \/ \E c \in Clients, q \in Call : Begins(c, q) /\ Opening(q)
         \/ \E c \in Clients, u \in Users, r \in Registrations : CreateAgent(c, u, r)
         \/ \E c \in Clients, u \in Users, id \in Ids, body \in Bodies : NewArtifact(c, u, id, body)
         \/ \E u \in Users : ExpireOverview(u) \/ \E s \in Sessions : DeleteSession(u, s)
         \/ UNCHANGED vars
  <1> USE DEF Does
  <1>1. ASSUME NEW c \in Clients, Step(c)
        PROVE  Does(c)
    BY <1>1 DEF Step
  <1>2. ASSUME NEW c \in Clients, NEW u \in Users,
               \/ \E id \in AllIds : OnTeam(c, u, id)
               \/ \E id \in Ids, seats \in SeatPlans : Create(c, u, id, seats)
               \/ \E kind \in Batches, named \in Named : Batch(c, u, kind, named)
               \/ ComputeOverview(c, u)
        PROVE  \E q \in Call : Begins(c, q) /\ Opening(q)
    <2>1. PICK q : Begins(c, q) /\ Opening(q)
      BY <1>2, OnTeamOpens, OtherOpens
    <2> QED BY <2>1 DEF Opening
  <1> QED BY <1>1, <1>2 DEF Next

-----------------------------------------------------------------------------
(* Types.                                                                   *)

\* What the types say of a call.
Formed(q) ==
    /\ \/ q.pc \in {"write", "create", "close", "agent"}
       \/ q.pc = "sessions" /\ q.kind \in {"archive", "unarchive"}
       => q.todo # {}
    /\ q.pc = "drop" \/ q.kind \in {"delete", "retire"} => q.owner \in Users
    /\ q.kind = "delete" \/ q.pc \in {"create", "erase"} => q.id \in AllIds

LEMMA NotedIsFormed ==
  ASSUME TypeOK, NEW c \in Clients, NEW d \in Clients, d # c, call'[d] # None,
         Quietly(c) \/ Noting(c, "wrote") \/ Noting(c, "removed")
  PROVE  call[d] # None /\ Formed(call'[d])
  <1>1. call[d] # None /\ (call'[d] = call[d] \/ SameCall(call'[d], call[d]))
    BY DEF Quietly, Noting
  <1>2. Formed(call[d])
    BY <1>1 DEF TypeOK, Formed
  <1> QED BY <1>1, <1>2 DEF Formed, SameCall

LEMMA CallsStayFormed ==
  ASSUME TypeOK, NEW c \in Clients, call' \in [Clients -> Call \cup {None}],
         Quietly(c) \/ Noting(c, "wrote") \/ Noting(c, "removed"),
         call'[c] = None \/ Formed(call'[c])
  PROVE  \A d \in Clients : call'[d] # None => Formed(call'[d])
  BY NotedIsFormed

LEMMA RowsStay ==
  ASSUME TypeOK, NEW id \in AllIds, NEW body \in Content, artifact[id] # None
  PROVE  [artifact EXCEPT ![id].body = body] \in [AllIds -> Row \cup {None}]
  <1>1. artifact[id] \in Row /\ artifact \in [AllIds -> Row \cup {None}]
    BY RowOf DEF TypeOK
  <1>2. [artifact[id] EXCEPT !.body = body] \in Row
    BY <1>1 DEF Row
  <1>3. [artifact EXCEPT ![id].body = body] = [artifact EXCEPT ![id] = [artifact[id] EXCEPT !.body = body]]
    BY <1>1
  <1> QED BY <1>1, <1>2, <1>3

LEMMA DoubtfulIsTyped ==
  ASSUME TypeOK
  PROVE  /\ \A id : Doubtful(id) \in [Users -> [teams : Overviews, clean : BOOLEAN] \cup {None}]
         /\ \A c : Outdated(c) => cached' \in [Users -> [teams : Overviews, clean : BOOLEAN] \cup {None}]
  BY DEF TypeOK, Doubtful, Outdated

LEMMA SessionsStay ==
  ASSUME TypeOK, NEW c \in Clients, Drops(c) \/ \E b \in BOOLEAN : Sets(c, b)
  PROVE  /\ session' \in [Sessions -> [owner : Users \cup {None}, active : BOOLEAN, deleted : BOOLEAN]]
         /\ (\E b \in BOOLEAN : Sets(c, b)) => \A s \in Sessions : session'[s].owner = session[s].owner
  <1>1. \A s \in Sessions : session[s] \in [owner : Users \cup {None}, active : BOOLEAN, deleted : BOOLEAN]
    BY DEF TypeOK
  <1>2. ASSUME NEW b \in BOOLEAN, Sets(c, b)
        PROVE  /\ session' \in [Sessions -> [owner : Users \cup {None}, active : BOOLEAN, deleted : BOOLEAN]]
               /\ \A s \in Sessions : session'[s].owner = session[s].owner
    BY <1>1, <1>2 DEF Sets
  <1>3. ASSUME Drops(c)
        PROVE  session' \in [Sessions -> [owner : Users \cup {None}, active : BOOLEAN, deleted : BOOLEAN]]
    BY <1>1, <1>3 DEF Drops
  <1> QED BY <1>2, <1>3

SessionType == [Sessions -> [owner : Users \cup {None}, active : BOOLEAN, deleted : BOOLEAN]]
CachedType == [Users -> [teams : Overviews, clean : BOOLEAN] \cup {None}]

LEMMA TypeFromParts ==
  ASSUME TypeOK, NEW c \in Clients, artifact' \in [AllIds -> Row \cup {None}], session' \in SessionType,
         call' \in [Clients -> Call \cup {None}], cached' \in CachedType, calls' \in 0 .. MaxCalls,
         Quietly(c) \/ Noting(c, "wrote") \/ Noting(c, "removed"),
         call'[c] = None \/ Formed(call'[c])
  PROVE  TypeOK'
  <1>1. \A d \in Clients : call'[d] # None => Formed(call'[d])
    BY CallsStayFormed
  <1> QED BY <1>1 DEF TypeOK, Formed, SessionType, CachedType

LEMMA DoesTyped ==
  ASSUME TypeOK, NEW c \in Clients, Does(c)
  PROVE  TypeOK'
  <1> DEFINE Ok == [AllIds -> Row \cup {None}]
  <1>1. artifact \in Ok /\ session \in SessionType /\ cached \in CachedType /\ calls \in 0 .. MaxCalls
    BY DEF TypeOK, SessionType, CachedType
  <1>2. call[c] # None => Formed(call[c])
    BY DEF TypeOK, Formed
  <1>3. \A id \in AllIds, owner \in Users : Trusted(id, owner) => cached' \in CachedType
    BY <1>1, DoubtfulIsTyped DEF Trusted, CachedType
  <1>4. CASE TouchSessions(c)
    <2>1. session' \in SessionType
      <3> DEFINE b == call[c].kind \in {"unarchive", "batchUnarchive"}
      <3>1. b \in BOOLEAN /\ Sets(c, b)
        BY <1>4, TouchSessionsDoes
      <3> HIDE DEF b
      <3> QED BY <3>1, SessionsStay DEF SessionType
    <2>2. call'[c] = None \/ Formed(call'[c])
      BY <1>2, <1>4, TouchSessionsDoes DEF GoesOn, Onward, Formed, At
    <2> QED BY <1>1, <1>4, <2>1, <2>2, TouchSessionsDoes, TypeFromParts
  <1>5. CASE RemoveSessions(c)
    <2>1. session' \in SessionType
      BY <1>5, RemoveSessionsDoes, SessionsStay DEF SessionType
    <2>2. Formed(call'[c])
      BY <1>2, <1>5, RemoveSessionsDoes DEF GoesOn, Onward, Formed, At
    <2> QED BY <1>1, <1>5, <2>1, <2>2, RemoveSessionsDoes, TypeFromParts
  <1>6. CASE RemoveTeam(c)
    <2>1. session' \in SessionType
      BY <1>1, <1>6, RemoveTeamDoes, SessionsStay DEF SessionType
    <2>2. call'[c] = None \/ Formed(call'[c])
      BY <1>2, <1>6, RemoveTeamDoes DEF GoesOn, Onward, Formed, At
    <2>3. artifact' \in Ok /\ cached' \in CachedType
      BY <1>1, <1>3, <1>6, RemoveTeamDoes
    <2>4. Quietly(c) \/ Noting(c, "removed")
      BY <1>6, RemoveTeamDoes
    <2>5. call' \in [Clients -> Call \cup {None}] /\ UNCHANGED calls
      BY <1>6, RemoveTeamDoes
    <2> QED BY <1>1, <2>1, <2>2, <2>3, <2>4, <2>5, TypeFromParts
  <1>7. CASE ListTeams(c)
    <2>1. /\ call' \in [Clients -> Call \cup {None}] /\ Quietly(c) /\ At(c, "list")
          /\ Onward(c, IF Found(c) = {} THEN "done" ELSE "write")
          /\ call'[c].id = call[c].id /\ call'[c].owner = call[c].owner
          /\ call'[c].todo = UNION {Write(id, Cleaned(c, id)) : id \in Found(c)}
          /\ \A id \in Found(c) : Write(id, Cleaned(c, id)) # {}
          /\ UNCHANGED <<artifact, session, cached, calls>>
      BY <1>7, ListTeamsDoes
    <2>2. Found(c) # {} => call'[c].todo # {}
      BY <2>1
    <2>3. Formed(call'[c])
      BY <1>2, <2>1, <2>2 DEF Onward, Formed, At
    <2> QED BY <1>1, <2>1, <2>3, TypeFromParts
  <1>8. CASE WriteBody(c)
    <2>1. CASE call'[c] = None /\ Quietly(c) /\ UNCHANGED <<artifact, cached>>
      BY <1>1, <1>8, <2>1, WriteBodyDoes, TypeFromParts
    <2>2. ASSUME NEW w \in call[c].todo, Hits(c, w.id, w.body, w.owner), call'[c].id = call[c].id
          PROVE  TypeOK'
      <3>1. artifact' \in Ok /\ cached' \in CachedType
        BY <1>3, <2>2, RowsStay DEF Hits
      <3>2. Formed(call'[c])
        BY <1>2, <1>8, <2>2, WriteBodyDoes DEF Hits, Onward, Formed, At
      <3>3. call' \in [Clients -> Call \cup {None}] /\ UNCHANGED <<session, calls>> /\ Noting(c, "wrote")
        BY <1>8, <2>2, WriteBodyDoes DEF Hits
      <3> QED BY <1>1, <3>1, <3>2, <3>3, TypeFromParts
    <2> QED BY <1>8, <2>1, <2>2, WriteBodyDoes
  <1>9. CASE DropOverview(c)
    <2>1. cached' \in CachedType
      BY <1>1, <1>9, DropOverviewDoes DEF Dropped, CachedType
    <2>2. Formed(call'[c])
      BY <1>2, <1>9, DropOverviewDoes DEF GoesOn, Onward, Formed, At
    <2> QED BY <1>1, <1>9, <2>1, <2>2, DropOverviewDoes, TypeFromParts
  <1>10. CASE CreateArtifact(c)
    <2>1. /\ call' \in [Clients -> Call \cup {None}] /\ UNCHANGED <<session, calls>> /\ call[c].id \in AllIds
          /\ At(c, "create") /\ call[c].by \in Users
      BY <1>10, CreateArtifactDoes, CallOf DEF At
    <2>2. CASE call'[c] = None /\ Quietly(c) /\ UNCHANGED <<artifact, cached>>
      BY <1>1, <2>1, <2>2, TypeFromParts
    <2>3. ASSUME NEW body, Hits(c, call[c].id, body, call[c].by), call'[c].todo = {}, call'[c].id = call[c].id
          PROVE  TypeOK'
      <3>1. artifact' \in Ok /\ cached' \in CachedType
        BY <1>3, <2>3, RowsStay DEF Hits
      <3>2. Formed(call'[c])
        BY <2>1, <2>3 DEF Hits, Onward, Formed
      <3>3. Noting(c, "wrote")
        BY <2>3 DEF Hits
      <3> QED BY <1>1, <2>1, <3>1, <3>2, <3>3, TypeFromParts
    <2>4. ASSUME NEW body \in Content, UNCHANGED cached,
                 artifact' = [artifact EXCEPT ![call[c].id] = [owner |-> call[c].by, body |-> body]],
                 Noting(c, "wrote"), Onward(c, "drop"), call'[c].todo = {}, call'[c].id = call[c].id,
                 call'[c].owner = call[c].by
          PROVE  TypeOK'
      <3>1. artifact' \in Ok
        BY <1>1, <2>1, <2>4 DEF Row
      <3>2. Formed(call'[c])
        BY <2>1, <2>4 DEF Onward, Formed
      <3> QED BY <1>1, <2>1, <2>4, <3>1, <3>2, TypeFromParts
    <2>5. CASE /\ Onward(c, "create") /\ Quietly(c) /\ call'[c].id \in AllIds /\ UNCHANGED <<artifact, cached>>
               /\ call'[c].todo = call[c].todo /\ call'[c].owner = call[c].owner
      <3>1. Formed(call'[c])
        BY <1>2, <2>1, <2>5 DEF Onward, Formed, At
      <3> QED BY <1>1, <2>1, <2>5, <3>1, TypeFromParts
    <2> QED BY <1>10, <2>2, <2>3, <2>4, <2>5, CreateArtifactDoes
  <1>11. CASE CloseSessions(c)
    <2>1. session' \in SessionType
      BY <1>11, CloseSessionsDoes, SessionsStay DEF SessionType
    <2>2. Formed(call'[c])
      BY <1>2, <1>11, CloseSessionsDoes DEF GoesOn, Onward, Formed, At
    <2> QED BY <1>1, <1>11, <2>1, <2>2, CloseSessionsDoes, TypeFromParts
  <1>12. CASE WriteAgent(c)
    <2>1. CASE call'[c] = None /\ Quietly(c) /\ UNCHANGED <<artifact, cached>>
      BY <1>1, <1>12, <2>1, WriteAgentDoes, TypeFromParts
    <2>2. ASSUME NEW w \in call[c].todo, w.id \in AllIds, w.body \in Content, artifact[w.id] # None,
                 artifact' = [artifact EXCEPT ![w.id].body = w.body], Noting(c, "wrote"), cached' = Doubtful(w.id),
                 call'[c] = None \/ (GoesOn(c, "retired") /\ call[c].kind = "retire")
          PROVE  TypeOK'
      <3>1. artifact' \in Ok /\ cached' \in CachedType
        BY <2>2, RowsStay, DoubtfulIsTyped DEF CachedType
      <3>2. call'[c] = None \/ Formed(call'[c])
        BY <1>2, <1>12, <2>2, WriteAgentDoes DEF GoesOn, Onward, Formed, At
      <3>3. call' \in [Clients -> Call \cup {None}] /\ UNCHANGED <<session, calls>>
        BY <1>12, WriteAgentDoes
      <3> QED BY <1>1, <2>2, <3>1, <3>2, <3>3, TypeFromParts
    <2> QED BY <1>12, <2>1, <2>2, WriteAgentDoes
  <1>13. CASE Finish(c) \/ CloseRetired(c) \/ CacheOverview(c)
    <2>1. session' \in SessionType
      BY <1>1, <1>13 DEF Finish, CloseRetired, CacheOverview, SessionType
    <2>2. cached' \in CachedType
      <3>1. CASE CacheOverview(c)
        <4>1. call[c].by \in Users /\ call[c].teams \in Overviews
          BY <3>1, CallOf DEF CacheOverview, At
        <4> QED BY <1>1, <3>1, <4>1 DEF CacheOverview, CachedType, Undisturbed
      <3> QED BY <1>1, <1>13, <3>1 DEF Finish, CloseRetired
    <2> QED BY <1>1, <1>13, <2>1, <2>2, EndingDoes, TypeFromParts
  <1>14. CASE RemoveArtifact(c)
    <2>1. artifact' \in Ok /\ cached' \in CachedType
      BY <1>1, <1>14, RemoveArtifactDoes, DoubtfulIsTyped DEF CachedType
    <2> QED BY <1>1, <1>14, <2>1, RemoveArtifactDoes, TypeFromParts
  <1>15. CASE DropFails(c)
    <2>1. cached' \in CachedType
      BY <1>15, DropFailsDoes, DoubtfulIsTyped DEF CachedType
    <2>2. Formed(call'[c])
      BY <1>2, <1>15, DropFailsDoes DEF GoesOn, Onward, Formed, At
    <2> QED BY <1>1, <1>15, <2>1, <2>2, DropFailsDoes, TypeFromParts
  <1>16. CASE Fails(c)
    <2>1. cached' \in CachedType
      BY <1>1, <1>16, FailsDoes, DoubtfulIsTyped DEF CachedType
    <2> QED BY <1>1, <1>16, <2>1, FailsDoes, TypeFromParts
  <1> QED BY <1>4, <1>5, <1>6, <1>7, <1>8, <1>9, <1>10, <1>11, <1>12, <1>13, <1>14, <1>15, <1>16 DEF Does

\* What the steps that are no call's leave alone.
LEMMA CreateAgentDoes ==
  ASSUME TypeOK, NEW c \in Clients, NEW u \in Users, NEW r \in Registrations, CreateAgent(c, u, r)
  PROVE  /\ \E id \in AllIds, row \in Row : /\ artifact[id] = None /\ row.body.kind = "standalone"
                                            /\ artifact' = [artifact EXCEPT ![id] = row]
         /\ calls' \in 0 .. MaxCalls /\ UNCHANGED <<session, call, cached>>
  <1>1. PICK id \in Unused, s \in {None} \cup {t \in {r.session} : Owns(u, t)} :
          artifact' = [artifact EXCEPT ![id] =
            [owner |-> u, body |-> [kind |-> "standalone", archived |-> FALSE,
                                    members |-> <<[r EXCEPT !.session = s]>>]]]
    BY DEF CreateAgent
  <1>2. id \in AllIds /\ artifact[id] = None
    BY <1>1 DEF Unused, AllIds
  <1>3. r \in Member
    BY RosterAssumption
  <1> DEFINE m == [r EXCEPT !.session = s]
             body == [kind |-> "standalone", archived |-> FALSE, members |-> <<m>>]
             row == [owner |-> u, body |-> body]
  <1>4. m \in Member
    <2>1. s \in Whose
      BY <1>1, <1>3 DEF Member, Whose
    <2> QED BY <1>3, <2>1 DEF Member
  <1>5. body \in Content
    <2> HIDE DEF m
    <2>1. <<m>> \in Seq(Member) /\ Len(<<m>>) = 1
      BY <1>4
    <2> QED BY <2>1 DEF Content
  <1>6. row \in Row /\ row.body.kind = "standalone"
    <2> HIDE DEF m
    <2> QED BY <1>5 DEF Row
  <1>7. artifact' = [artifact EXCEPT ![id] = row]
    BY <1>1
  <1>8. calls' \in 0 .. MaxCalls /\ UNCHANGED <<session, call, cached>>
    BY RosterAssumption DEF CreateAgent, TypeOK
  <1> HIDE DEF row
  <1> QED BY <1>2, <1>6, <1>7, <1>8

LEMMA DeleteSessionDoes ==
  ASSUME TypeOK, NEW u \in Users, NEW s \in Sessions, DeleteSession(u, s)
  PROVE  /\ session' \in SessionType /\ \A t \in Sessions : session'[t].owner = session[t].owner
         /\ calls' \in 0 .. MaxCalls /\ UNCHANGED <<artifact, call, cached>>
  <1>1. session \in SessionType
    BY DEF TypeOK, SessionType
  <1> DEFINE row == [session[s] EXCEPT !.active = FALSE, !.deleted = TRUE]
  <1>2. row \in [owner : Users \cup {None}, active : BOOLEAN, deleted : BOOLEAN] /\ row.owner = session[s].owner
    BY <1>1 DEF SessionType
  <1>3. session' = [session EXCEPT ![s] = row]
    BY <1>1 DEF DeleteSession, SessionType
  <1>4. session' \in SessionType /\ \A t \in Sessions : session'[t].owner = session[t].owner
    <2> HIDE DEF row
    <2> QED BY <1>1, <1>2, <1>3 DEF SessionType
  <1> QED BY <1>4, RosterAssumption DEF DeleteSession, TypeOK

LEMMA StepTyped ==
  ASSUME TypeOK, [Next]_vars
  PROVE  TypeOK'
  <1>1. ASSUME NEW c \in Clients, NEW q \in Call, Begins(c, q), Opening(q)
        PROVE  TypeOK'
    <2>1. Formed(q)
      BY <1>1 DEF Opening, Formed
    <2>2. call' \in [Clients -> Call \cup {None}] /\ Quietly(c) /\ call'[c] = q /\ calls' \in 0 .. MaxCalls
          /\ UNCHANGED <<artifact, session, cached>>
      BY <1>1, BeginsDoes
    <2>3. artifact' \in [AllIds -> Row \cup {None}] /\ session' \in SessionType /\ cached' \in CachedType
      BY <2>2 DEF TypeOK, SessionType, CachedType
    <2> QED BY <2>1, <2>2, <2>3, TypeFromParts
  <1>2. ASSUME NEW c \in Clients, NEW u \in Users, NEW r \in Registrations, CreateAgent(c, u, r)
        PROVE  TypeOK'
    <2>1. artifact' \in [AllIds -> Row \cup {None}]
      BY <1>2, CreateAgentDoes DEF TypeOK
    <2> QED BY <1>2, <2>1, CreateAgentDoes DEF TypeOK
  <1>3. ASSUME NEW u \in Users, ExpireOverview(u)
        PROVE  TypeOK'
    BY <1>3 DEF ExpireOverview, TypeOK
  <1>4. ASSUME NEW u \in Users, NEW s \in Sessions, DeleteSession(u, s)
        PROVE  TypeOK'
    BY <1>4, DeleteSessionDoes DEF TypeOK, SessionType
  <1>5. CASE UNCHANGED vars
    BY <1>5 DEF vars, TypeOK
  <1>6. ASSUME NEW c \in Clients, NEW u \in Users, NEW id \in Ids, NEW body \in Bodies, NewArtifact(c, u, id, body)
        PROVE  TypeOK'
    <2>1. session \in SessionType /\ cached \in CachedType
      BY DEF TypeOK, SessionType, CachedType
    <2> QED BY <1>6, <2>1, NewArtifactDoes, TypeFromParts
  <1> QED BY <1>1, <1>2, <1>3, <1>4, <1>5, <1>6, StepIsOneOf, DoesTyped

LEMMA InitTyped ==
  ASSUME Init
  PROVE  TypeOK
  <1>1. PICK u \in Users, rows \in Worlds :
          artifact = [id \in AllIds |-> IF id \in DOMAIN rows THEN [owner |-> u, body |-> rows[id]] ELSE None]
    BY DEF Init
  <1>2. artifact \in [AllIds -> Row \cup {None}]
    BY <1>1, RosterAssumption DEF Row
  <1>3. session \in [Sessions -> [owner : Users \cup {None}, active : BOOLEAN, deleted : BOOLEAN]]
    BY DEF Init
  <1>4. call \in [Clients -> Call \cup {None}] /\ \A c \in Clients : call[c] = None
    BY DEF Init
  <1>5. calls \in 0 .. MaxCalls
    BY RosterAssumption DEF Init
  <1>6. \A v \in Users : Overview(v) \in Overviews
    <2>1. \A id \in AllIds : artifact[id] # None =>
             artifact[id].owner \in Users /\ artifact[id].body.members \in Seq(Member)
      BY <1>2 DEF Row, Content
    <2>2. \A v \in Users : \A id \in AllIds : id \in Listed(v) =>
             [owner |-> artifact[id].owner, members |-> artifact[id].body.members] \in Team
      BY <2>1 DEF Listed, Shown, IsTeam, Team
    <2> QED BY <2>2 DEF Overview, Overviews
  <1>7. cached \in CachedType
    <2>1. PICK some : cached = [v \in Users |-> IF v \in some THEN [teams |-> Overview(v), clean |-> TRUE] ELSE None]
      BY DEF Init
    <2> QED BY <1>6, <2>1 DEF CachedType
  <1> QED BY <1>2, <1>3, <1>4, <1>5, <1>7 DEF TypeOK, CachedType

\* The variables have their types: rows, calls and overviews are whole whatever
\* the calls that interleave.
THEOREM RosterIsTyped == Spec => []TypeOK
  <1>1. Init => TypeOK
    BY InitTyped
  <1>2. TypeOK /\ [Next]_vars => TypeOK'
    BY StepTyped
  <1> QED BY <1>1, <1>2, PTL DEF Spec

\* A registration is written and announced if and only if it changes the roster,
\* so that one that is sent again is silent (addTeamMember).
THEOREM RegistrationsAreExact == Spec => []RegistrationIsExact
  <1>1. TypeOK => RegistrationIsExact
    <2>1. SUFFICES ASSUME TypeOK, NEW id \in AllIds, NEW r \in Registrations, IsTeam(id)
                   PROVE  /\ ~Registers(Registered(Body(id).members, r), r)
                          /\ Registers(Body(id).members, r) <=> Registered(Body(id).members, r) # Body(id).members
      BY DEF RegistrationIsExact, RetriedAddIsSilent, NoChangeIsMissed
    <2>2. Body(id).members \in Seq(Member) /\ r \in Member
      BY <2>1, TeamOf, RosterAssumption
    <2> QED BY <2>2, RegisteringIsExact
  <1> QED BY <1>1, RosterIsTyped, PTL

-----------------------------------------------------------------------------
(* Owners.                                                                  *)

\* A call that takes the row it is to write for its caller's is right, short of a
\* removal meanwhile.
IsOwn(q) ==
    \/ artifact[q.id] # None /\ artifact[q.id].owner = q.by
    \/ "removed" \in q.meanwhile
SeenIsOwn == \A c \in Clients : At(c, "create") /\ call[c].seen => IsOwn(call[c])

OwnersInv == TypeOK /\ SeenIsOwn

\* The call of another is where it was.
LEMMA OtherIsAt ==
  ASSUME TypeOK, TypeOK', NEW c \in Clients, NEW d \in Clients, d # c, call'[d] # None,
         Quietly(c) \/ Noting(c, "wrote") \/ Noting(c, "removed")
  PROVE  /\ call[d] # None /\ SameCall(call'[d], call[d]) /\ call[d].meanwhile \subseteq call'[d].meanwhile
         /\ Noting(c, "wrote") => "wrote" \in call'[d].meanwhile
         /\ Noting(c, "removed") => "removed" \in call'[d].meanwhile
  BY DEF Quietly, Noting, SameCall

\* A row that is written keeps its owner.
LEMMA WritingKeepsOwners ==
  ASSUME TypeOK, NEW id \in AllIds, NEW body \in Content, artifact[id] # None, artifact' = [artifact EXCEPT ![id].body = body]
  PROVE  \A x \in AllIds : /\ artifact[x] # None => artifact'[x] # None /\ artifact'[x].owner = artifact[x].owner
                           /\ x # id => artifact'[x] = artifact[x]
  <1>1. artifact[id] \in Row /\ artifact \in [AllIds -> Row \cup {None}]
    BY RowOf DEF TypeOK
  <1>2. [artifact[id] EXCEPT !.body = body].owner = artifact[id].owner /\ [artifact[id] EXCEPT !.body = body] \in Row
    BY <1>1 DEF Row
  <1>3. artifact' = [artifact EXCEPT ![id] = [artifact[id] EXCEPT !.body = body]]
    BY <1>1
  <1> QED BY <1>1, <1>2, <1>3, RosterAssumption

KeepsOwners == \A x \in AllIds : artifact[x] # None => artifact'[x] # None /\ artifact'[x].owner = artifact[x].owner

LEMMA DoesKeepsOwners ==
  ASSUME TypeOK, NEW c \in Clients, Does(c)
  PROVE  /\ Quietly(c) \/ Noting(c, "wrote") \/ Noting(c, "removed")
         /\ KeepsOwners \/ Noting(c, "removed")
         /\ \A x \in AllIds : artifact[x] # None /\ artifact'[x] # None => artifact'[x].owner = artifact[x].owner
  <1>1. CASE UNCHANGED artifact /\ (Quietly(c) \/ Noting(c, "wrote") \/ Noting(c, "removed"))
    BY <1>1 DEF KeepsOwners
  <1>2. ASSUME NEW id \in AllIds, NEW body \in Content, artifact[id] # None,
               artifact' = [artifact EXCEPT ![id].body = body], Noting(c, "wrote")
        PROVE  /\ KeepsOwners
               /\ \A x \in AllIds : artifact[x] # None /\ artifact'[x] # None => artifact'[x].owner = artifact[x].owner
    BY <1>2, WritingKeepsOwners DEF KeepsOwners
  <1>3. CASE RemoveTeam(c)
    <2>1. CASE UNCHANGED artifact
      BY <1>1, <1>3, <2>1, RemoveTeamDoes
    <2>2. CASE Noting(c, "removed") /\ artifact' = [artifact EXCEPT ![call[c].id] = None]
      BY <1>3, <2>2, RemoveTeamDoes DEF TypeOK
    <2> QED BY <1>3, <2>1, <2>2, RemoveTeamDoes
  <1>4. CASE WriteBody(c)
    <2>1. CASE UNCHANGED artifact /\ Quietly(c)
      BY <1>1, <2>1
    <2>2. ASSUME NEW w \in call[c].todo, Hits(c, w.id, w.body, w.owner)
          PROVE  Noting(c, "wrote") /\ w.id \in AllIds /\ w.body \in Content /\ artifact[w.id] # None
                 /\ artifact' = [artifact EXCEPT ![w.id].body = w.body]
      BY <2>2 DEF Hits
    <2> QED BY <1>2, <1>4, <2>1, <2>2, WriteBodyDoes
  <1>5. CASE CreateArtifact(c)
    <2>1. CASE UNCHANGED artifact /\ Quietly(c)
      BY <1>1, <2>1
    <2>2. ASSUME NEW body, Hits(c, call[c].id, body, call[c].by)
          PROVE  Noting(c, "wrote") /\ call[c].id \in AllIds /\ body \in Content /\ artifact[call[c].id] # None
                 /\ artifact' = [artifact EXCEPT ![call[c].id].body = body]
      BY <2>2 DEF Hits
    <2>3. ASSUME NEW body, artifact[call[c].id] = None, Noting(c, "wrote"),
                 artifact' = [artifact EXCEPT ![call[c].id] = [owner |-> call[c].by, body |-> body]]
          PROVE  /\ KeepsOwners
                 /\ \A x \in AllIds : artifact[x] # None /\ artifact'[x] # None => artifact'[x].owner = artifact[x].owner
      BY <2>3 DEF KeepsOwners, TypeOK
    <2>4. CASE \E body : Hits(c, call[c].id, body, call[c].by)
      BY <1>2, <2>2, <2>4
    <2>5. CASE \E body : /\ artifact[call[c].id] = None /\ Noting(c, "wrote")
                         /\ artifact' = [artifact EXCEPT ![call[c].id] = [owner |-> call[c].by, body |-> body]]
      BY <2>3, <2>5
    <2>6. \/ UNCHANGED artifact /\ Quietly(c)
          \/ \E body : Hits(c, call[c].id, body, call[c].by)
          \/ \E body : /\ artifact[call[c].id] = None /\ Noting(c, "wrote")
                       /\ artifact' = [artifact EXCEPT ![call[c].id] = [owner |-> call[c].by, body |-> body]]
      BY <1>5, CreateArtifactDoes
    <2> QED BY <2>1, <2>4, <2>5, <2>6
  <1>6. CASE WriteAgent(c)
    <2>1. CASE UNCHANGED artifact /\ Quietly(c)
      BY <1>1, <2>1
    <2> QED BY <1>2, <1>6, <2>1, WriteAgentDoes
  <1>7. CASE RemoveArtifact(c)
    <2>1. CASE UNCHANGED artifact /\ Quietly(c)
      BY <1>1, <2>1
    <2>2. CASE Noting(c, "removed") /\ artifact' = [artifact EXCEPT ![call[c].id] = None]
      BY <1>7, <2>2, RemoveArtifactDoes DEF TypeOK
    <2> QED BY <1>7, <2>1, <2>2, RemoveArtifactDoes
  <1> QED BY <1>1, <1>3, <1>4, <1>5, <1>6, <1>7, TouchSessionsDoes, RemoveSessionsDoes, ListTeamsDoes, DropOverviewDoes,
             CloseSessionsDoes, EndingDoes, DropFailsDoes, FailsDoes DEF Does

LEMMA CreateAgentKeepsOwners ==
  ASSUME TypeOK, NEW c \in Clients, NEW u \in Users, NEW r \in Registrations, CreateAgent(c, u, r)
  PROVE  \A x \in AllIds : artifact[x] # None => artifact'[x] = artifact[x]
  BY CreateAgentDoes DEF TypeOK

\* Where a call is that may write the row it saw.
LEMMA DoesCreate ==
  ASSUME TypeOK, TypeOK', NEW c \in Clients, Does(c), call'[c] # None, call'[c].pc = "create", call'[c].seen
  PROVE  UNCHANGED artifact /\ TakenByOwn(c) /\ call'[c].id = call[c].id /\ call'[c].by = call[c].by
  <1>1. ~(TouchSessions(c) \/ RemoveSessions(c) \/ RemoveTeam(c))
    BY TouchSessionsDoes, RemoveSessionsDoes, RemoveTeamDoes DEF GoesOn, Onward
  <1>2. ~ListTeams(c)
    BY ListTeamsDoes DEF Onward
  <1>3. ~WriteBody(c) /\ ~DropOverview(c)
    BY WriteBodyDoes, DropOverviewDoes DEF Hits, GoesOn, Onward
  <1>4. ~CloseSessions(c) /\ ~WriteAgent(c) /\ ~(Finish(c) \/ CloseRetired(c) \/ CacheOverview(c))
    BY CloseSessionsDoes, WriteAgentDoes, EndingDoes DEF GoesOn, Onward
  <1>5. ~RemoveArtifact(c) /\ ~DropFails(c) /\ ~Fails(c)
    BY RemoveArtifactDoes, DropFailsDoes, FailsDoes DEF GoesOn, Onward
  <1>6. CreateArtifact(c)
    BY <1>1, <1>2, <1>3, <1>4, <1>5 DEF Does
  <1> QED BY <1>6, CreateArtifactDoes DEF Hits, Onward

LEMMA StepKeepsOwn ==
  ASSUME OwnersInv, [Next]_vars
  PROVE  OwnersInv'
  <1>1. TypeOK /\ TypeOK'
    BY StepTyped DEF OwnersInv
  <1>2. ASSUME NEW c \in Clients, Does(c), NEW d \in Clients, call'[d] # None, call'[d].pc = "create", call'[d].seen
        PROVE  \/ artifact'[call'[d].id] # None /\ artifact'[call'[d].id].owner = call'[d].by
               \/ "removed" \in call'[d].meanwhile
    <2>1. CASE d = c
      BY <1>1, <1>2, <2>1, DoesCreate DEF TakenByOwn
    <2>2. CASE d # c
      <3>1. call[d] # None /\ SameCall(call'[d], call[d]) /\ call[d].meanwhile \subseteq call'[d].meanwhile
            /\ (Noting(c, "removed") => "removed" \in call'[d].meanwhile)
        BY <1>1, <1>2, <2>2, DoesKeepsOwners, OtherIsAt
      <3>2. call[d].pc = "create" /\ call[d].seen /\ call'[d].id = call[d].id /\ call'[d].by = call[d].by
        BY <1>2, <3>1 DEF SameCall
      <3>3. IsOwn(call[d]) /\ call[d].id \in AllIds
        BY <1>1, <3>1, <3>2 DEF OwnersInv, SeenIsOwn, At, TypeOK
      <3>4. KeepsOwners \/ Noting(c, "removed")
        BY <1>1, <1>2, DoesKeepsOwners
      <3> QED BY <3>1, <3>2, <3>3, <3>4 DEF IsOwn, KeepsOwners
    <2> QED BY <2>1, <2>2
  <1>3. ASSUME NEW c \in Clients, NEW q \in Call, Begins(c, q), Opening(q)
        PROVE  SeenIsOwn'
    <2>1. Quietly(c) /\ call'[c] = q /\ UNCHANGED artifact
      BY <1>1, <1>3, BeginsDoes
    <2> QED BY <1>3, <2>1 DEF OwnersInv, SeenIsOwn, At, Quietly, IsOwn, Opening
  <1>4. ASSUME NEW c \in Clients, NEW u \in Users, NEW r \in Registrations, CreateAgent(c, u, r)
        PROVE  SeenIsOwn'
    <2>1. \A x \in AllIds : artifact[x] # None => artifact'[x] = artifact[x]
      BY <1>1, <1>4, CreateAgentKeepsOwners
    <2>2. \A d \in Clients : At(d, "create") => call[d].id \in AllIds
      BY <1>1 DEF TypeOK, At
    <2> QED BY <1>4, <2>1, <2>2 DEF OwnersInv, SeenIsOwn, At, IsOwn, CreateAgent
  <1>5. CASE UNCHANGED <<artifact, call>>
    BY <1>1, <1>5 DEF OwnersInv, SeenIsOwn, At, IsOwn
  <1>6. (\E c \in Clients : Does(c)) => SeenIsOwn'
    BY <1>2 DEF SeenIsOwn, At, IsOwn
  <1>7. ASSUME NEW c \in Clients, NEW u \in Users, NEW id \in Ids, NEW body \in Bodies, NewArtifact(c, u, id, body)
        PROVE  SeenIsOwn'
    <2>1. /\ Noting(c, "wrote") /\ call[c] = None /\ call'[c] = None
          /\ \A x \in AllIds : artifact[x] # None => artifact'[x] = artifact[x]
      BY <1>1, <1>7, NewArtifactDoes
    <2>2. SUFFICES ASSUME NEW d \in Clients, call'[d] # None, call'[d].pc = "create", call'[d].seen
                   PROVE  \/ artifact'[call'[d].id] # None /\ artifact'[call'[d].id].owner = call'[d].by
                          \/ "removed" \in call'[d].meanwhile
      BY DEF SeenIsOwn, At, IsOwn
    <2>3. d # c /\ call[d] # None /\ SameCall(call'[d], call[d]) /\ call[d].meanwhile \subseteq call'[d].meanwhile
      BY <1>1, <2>1, <2>2, OtherIsAt
    <2>4. At(d, "create") /\ call[d].seen /\ call'[d].id = call[d].id /\ call'[d].by = call[d].by
      BY <2>2, <2>3 DEF SameCall, At
    <2>5. IsOwn(call[d]) /\ call[d].id \in AllIds
      BY <1>1, <2>4 DEF OwnersInv, SeenIsOwn, At, TypeOK
    <2> QED BY <2>1, <2>3, <2>4, <2>5 DEF IsOwn
  <1> QED BY <1>1, <1>3, <1>4, <1>5, <1>6, <1>7, StepIsOneOf DEF OwnersInv, ExpireOverview, DeleteSession, vars

\* Who leaves the creation of a row.
LEMMA LeavingCreates ==
  ASSUME TypeOK, TypeOK', NEW c \in Clients, Does(c), NEW d \in Clients, Leaves(d, "create")
  PROVE  d = c /\ (CreateArtifact(c) \/ Fails(c))
  <1>1. d = c
    <2>1. SUFFICES ASSUME d # c PROVE FALSE
      OBVIOUS
    <2>2. call[d] # None /\ call[d].pc = "create" /\ (call'[d] = None \/ call'[d].pc # "create")
      BY DEF Leaves, At
    <2>3. Quietly(c) \/ Noting(c, "wrote") \/ Noting(c, "removed")
      BY DoesKeepsOwners
    <2> QED BY <2>1, <2>2, <2>3 DEF Quietly, Noting, SameCall
  <1>2. call[c].pc = "create"
    BY <1>1 DEF Leaves, At
  <1>3. ~(TouchSessions(c) \/ RemoveSessions(c) \/ RemoveTeam(c) \/ ListTeams(c) \/ WriteBody(c) \/ DropOverview(c))
    BY <1>2 DEF TouchSessions, RemoveSessions, RemoveTeam, ListTeams, WriteBody, DropOverview, At
  <1>4. ~(CloseSessions(c) \/ WriteAgent(c) \/ Finish(c) \/ CloseRetired(c) \/ CacheOverview(c))
    BY <1>2 DEF CloseSessions, WriteAgent, Finish, CloseRetired, CacheOverview, At
  <1>5. ~(RemoveArtifact(c) \/ DropFails(c))
    BY <1>2 DEF RemoveArtifact, DropFails, At
  <1> QED BY <1>1, <1>3, <1>4, <1>5 DEF Does

\* No row changes hands, and two accounts that create a team under the same id end
\* up with a team each (createOrUpdateTeamArtifact).
THEOREM RowsKeepTheirOwners == Spec => OwnersAreForever
  <1> DEFINE Kept == \A id \in AllIds : artifact[id] # None /\ artifact'[id] # artifact[id] =>
               /\ artifact'[id] # None => artifact'[id].owner = artifact[id].owner
               /\ \A c \in Clients : Leaves(c, "create") =>
                     artifact[id].owner = call[c].by \/ "removed" \in call[c].meanwhile
  <1>1. Init => OwnersInv
    <2> SUFFICES ASSUME Init PROVE OwnersInv
      OBVIOUS
    <2>1. \A c \in Clients : call[c] = None
      BY DEF Init
    <2> QED BY <2>1, InitTyped DEF OwnersInv, SeenIsOwn, At
  <1>2. OwnersInv /\ [Next]_vars => OwnersInv' /\ [Kept]_vars
    <2> SUFFICES ASSUME OwnersInv, [Next]_vars PROVE OwnersInv' /\ Kept
      OBVIOUS
    <2>1. OwnersInv' /\ TypeOK /\ TypeOK'
      BY StepKeepsOwn DEF OwnersInv
    <2>2. ASSUME NEW c \in Clients, Does(c), NEW id \in AllIds, artifact[id] # None, artifact'[id] # artifact[id],
                 NEW d \in Clients, Leaves(d, "create")
          PROVE  artifact[id].owner = call[d].by \/ "removed" \in call[d].meanwhile
      <3>1. d = c /\ CreateArtifact(c)
        BY <2>1, <2>2, LeavingCreates, FailsDoes
      <3>2. call[c].seen /\ id = call[c].id /\ At(c, "create")
        <4>1. At(c, "create") /\ call[c].id \in AllIds /\ artifact' # artifact
          BY <2>1, <2>2, <3>1, CreateArtifactDoes
        <4>2. CASE \E body : call[c].seen /\ Hits(c, call[c].id, body, call[c].by)
          BY <2>1, <2>2, <4>1, <4>2 DEF Hits, TypeOK
        <4>3. CASE \E body \in Content : /\ artifact[call[c].id] = None
                 /\ artifact' = [artifact EXCEPT ![call[c].id] = [owner |-> call[c].by, body |-> body]]
          BY <2>1, <2>2, <4>1, <4>3 DEF TypeOK
        <4> QED BY <2>1, <3>1, <4>1, <4>2, <4>3, CreateArtifactDoes
      <3> QED BY <3>1, <3>2 DEF OwnersInv, SeenIsOwn, IsOwn
    <2>3. ASSUME NEW c \in Clients, Does(c) PROVE Kept
      BY <2>1, <2>2, <2>3, DoesKeepsOwners
    <2>4. ASSUME NEW c \in Clients, NEW u \in Users, NEW r \in Registrations, CreateAgent(c, u, r) PROVE Kept
      BY <2>1, <2>4, CreateAgentKeepsOwners
    <2>5. CASE UNCHANGED artifact
      BY <2>1, <2>5
    <2>6. ASSUME NEW c \in Clients, NEW u \in Users, NEW id \in Ids, NEW body \in Bodies, NewArtifact(c, u, id, body)
          PROVE  Kept
      BY <2>1, <2>6, NewArtifactDoes
    <2> QED BY <2>1, <2>3, <2>4, <2>5, <2>6, StepIsOneOf DEF Begins, ExpireOverview, DeleteSession, vars
  <1> QED BY <1>1, <1>2, PTL DEF Spec, OwnersAreForever

-----------------------------------------------------------------------------
(* The overview.                                                            *)

\* Whether an overview is right about the teams of its account.
Right(u, teams) ==
    \A id \in AllIds : teams[id] # None /\ teams[id].owner = u =>
        Shown(id) /\ artifact[id].owner = u /\ Body(id).members = teams[id].members

CacheIsRight ==
    \A u \in Users : cached[u] # None /\ cached[u].clean =>
        Right(u, cached[u].teams) \/ \E c \in Clients : At(c, "drop") /\ call[c].owner = u

AnswersAreRight ==
    \A c \in Clients : At(c, "cache") /\ Undisturbed(c) => Right(call[c].by, call[c].teams)

OverviewInv == TypeOK /\ CacheIsRight /\ AnswersAreRight

LEMMA RightWhenComputed ==
  ASSUME NEW u
  PROVE  Right(u, Overview(u))
  BY DEF Right, Overview, Listed, Body

\* Whether it is right after a step.
RightThen(u, teams) ==
    \A id \in AllIds : teams[id] # None /\ teams[id].owner = u =>
        /\ artifact'[id] # None /\ artifact'[id].body.kind = "team" /\ ~artifact'[id].body.archived
        /\ artifact'[id].owner = u /\ artifact'[id].body.members = teams[id].members

\* It stays right as long as no team of its account is written.
LEMMA RightStays ==
  ASSUME NEW u, NEW teams, Right(u, teams),
         \A x \in AllIds : artifact[x] # None /\ artifact[x].owner = u => artifact'[x] = artifact[x]
  PROVE  RightThen(u, teams)
  BY DEF Right, RightThen, Shown, IsTeam, Body

\* What a step of a call does to rows and overviews: nothing to rows; or it writes a
\* row and is about to drop the overview of its owner; or it leaves the overviews that
\* show the row in doubt; or it makes a row.
WritesFor(c, v) ==
    /\ call'[c] \in Call /\ call'[c].pc = "drop" /\ call'[c].owner = v /\ UNCHANGED cached
    /\ \A x \in AllIds : artifact[x] # None /\ artifact[x].owner # v => artifact'[x] = artifact[x]
Makes == UNCHANGED cached /\ \A x \in AllIds : artifact[x] # None => artifact'[x] = artifact[x]
Doubts(id) == cached' = Doubtful(id) /\ \A x \in AllIds : x # id => artifact'[x] = artifact[x]
Notes(c) == Noting(c, "wrote") \/ Noting(c, "removed")

LEMMA TrustedWrites ==
  ASSUME TypeOK, NEW c \in Clients, NEW id \in AllIds, NEW owner, Trusted(id, owner),
         call'[c] \in Call, call'[c].pc = "drop", call'[c].owner = owner,
         \A x \in AllIds : x # id => artifact'[x] = artifact[x]
  PROVE  WritesFor(c, owner) \/ Doubts(id)
  BY DEF Trusted, WritesFor, Doubts

LEMMA DoesToRows ==
  ASSUME TypeOK, NEW c \in Clients, Does(c)
  PROVE  \/ UNCHANGED artifact /\ (Quietly(c) \/ Notes(c))
            /\ (UNCHANGED cached \/ At(c, "drop") \/ CacheOverview(c))
         \/ Notes(c) /\ \E v \in Users : WritesFor(c, v)
         \/ Notes(c) /\ \E id \in AllIds : Doubts(id)
         \/ Notes(c) /\ Makes
  <1>1. CASE UNCHANGED <<artifact, cached>> /\ (Quietly(c) \/ Notes(c))
    BY <1>1
  <1>2. CASE \E id \in AllIds, body \in Content, owner \in Users : Hits(c, id, body, owner)
    <2>1. PICK id \in AllIds, body \in Content, owner \in Users : Hits(c, id, body, owner)
      BY <1>2
    <2>2. \A x \in AllIds : x # id => artifact'[x] = artifact[x]
      BY <2>1, WritingKeepsOwners DEF Hits
    <2>3. WritesFor(c, owner) \/ Doubts(id)
      BY <2>1, <2>2, TrustedWrites DEF Hits, Onward
    <2> QED BY <2>1, <2>3 DEF Hits, Notes
  <1>3. CASE RemoveTeam(c)
    <2>1. CASE Quietly(c) /\ UNCHANGED <<artifact, session, cached>>
      BY <1>1, <2>1
    <2>2. CASE /\ GoesOn(c, "drop") /\ Noting(c, "removed") /\ artifact' = [artifact EXCEPT ![call[c].id] = None]
               /\ Trusted(call[c].id, call[c].owner)
      <3>1. call[c].id \in AllIds /\ call[c].owner \in Users
        BY <1>3, RemoveTeamDoes
      <3>2. \A x \in AllIds : x # call[c].id => artifact'[x] = artifact[x]
        BY <2>2 DEF TypeOK
      <3>3. WritesFor(c, call[c].owner) \/ Doubts(call[c].id)
        BY <2>2, <3>1, <3>2, TrustedWrites DEF GoesOn, Onward
      <3> QED BY <2>2, <3>1, <3>3 DEF Notes
    <2> QED BY <1>3, <2>1, <2>2, RemoveTeamDoes
  <1>4. CASE WriteBody(c)
    <2>1. ASSUME NEW w \in call[c].todo, Hits(c, w.id, w.body, w.owner)
          PROVE  \E id \in AllIds, body \in Content, owner \in Users : Hits(c, id, body, owner)
      BY <2>1 DEF Hits
    <2> QED BY <1>1, <1>2, <1>4, <2>1, WriteBodyDoes
  <1>5. CASE CreateArtifact(c)
    <2>1. ASSUME NEW body, Hits(c, call[c].id, body, call[c].by)
          PROVE  \E id \in AllIds, b \in Content, owner \in Users : Hits(c, id, b, owner)
      BY <2>1 DEF Hits
    <2>2. ASSUME NEW body, artifact[call[c].id] = None, Noting(c, "wrote"), UNCHANGED cached,
                 artifact' = [artifact EXCEPT ![call[c].id] = [owner |-> call[c].by, body |-> body]]
          PROVE  Notes(c) /\ Makes
      BY <2>2 DEF Notes, Makes, TypeOK
    <2>3. \/ UNCHANGED <<artifact, cached>> /\ Quietly(c)
          \/ \E body : Hits(c, call[c].id, body, call[c].by)
          \/ \E body : /\ artifact[call[c].id] = None /\ Noting(c, "wrote") /\ UNCHANGED cached
                       /\ artifact' = [artifact EXCEPT ![call[c].id] = [owner |-> call[c].by, body |-> body]]
      BY <1>5, CreateArtifactDoes
    <2> QED BY <1>1, <1>2, <2>1, <2>2, <2>3
  <1>6. CASE WriteAgent(c)
    <2>1. ASSUME NEW w \in call[c].todo, w.id \in AllIds, w.body \in Content, artifact[w.id] # None,
                 artifact' = [artifact EXCEPT ![w.id].body = w.body], Noting(c, "wrote"), cached' = Doubtful(w.id)
          PROVE  Notes(c) /\ Doubts(w.id)
      BY <2>1, WritingKeepsOwners DEF Notes, Doubts
    <2> QED BY <1>1, <1>6, <2>1, WriteAgentDoes
  <1>7. CASE TouchSessions(c) \/ RemoveSessions(c) \/ ListTeams(c) \/ CloseSessions(c)
    BY <1>1, <1>7, TouchSessionsDoes, RemoveSessionsDoes, ListTeamsDoes, CloseSessionsDoes DEF Notes
  <1>8. CASE DropOverview(c) \/ CacheOverview(c) \/ DropFails(c) \/ Fails(c)
    BY <1>8, DropOverviewDoes, EndingDoes, DropFailsDoes, FailsDoes
  <1>9. CASE Finish(c) \/ CloseRetired(c)
    BY <1>1, <1>9, EndingDoes DEF Finish, CloseRetired
  <1>10. CASE RemoveArtifact(c)
    <2>1. CASE /\ Noting(c, "removed") /\ artifact' = [artifact EXCEPT ![call[c].id] = None]
               /\ cached' = Doubtful(call[c].id)
      <3>1. call[c].id \in AllIds /\ Doubts(call[c].id)
        BY <1>10, <2>1, RemoveArtifactDoes DEF Doubts, TypeOK
      <3> QED BY <2>1, <3>1 DEF Notes
    <2> QED BY <1>1, <1>10, <2>1, RemoveArtifactDoes
  <1> QED BY <1>3, <1>4, <1>5, <1>6, <1>7, <1>8, <1>9, <1>10 DEF Does

LEMMA DoesNotAnswer ==
  ASSUME TypeOK, NEW c \in Clients, Does(c)
  PROVE  /\ call'[c] = None \/ call'[c].pc # "cache"
         /\ call[c] # None /\ (call[c].pc = "drop" => DropOverview(c) \/ DropFails(c) \/ Fails(c))
  <1>1. CASE TouchSessions(c) \/ RemoveSessions(c) \/ RemoveTeam(c)
    BY <1>1, TouchSessionsDoes, RemoveSessionsDoes, RemoveTeamDoes DEF GoesOn, Onward, At
  <1>2. CASE ListTeams(c)
    BY <1>2, ListTeamsDoes DEF Onward, At
  <1>3. CASE WriteBody(c)
    BY <1>3, WriteBodyDoes DEF Hits, Onward, At
  <1>4. CASE DropOverview(c)
    BY <1>4, DropOverviewDoes DEF GoesOn, Onward, At
  <1>5. CASE CreateArtifact(c)
    BY <1>5, CreateArtifactDoes DEF Hits, Onward, At
  <1>6. CASE CloseSessions(c) \/ WriteAgent(c)
    BY <1>6, CloseSessionsDoes, WriteAgentDoes DEF GoesOn, Onward, At
  <1>7. CASE Finish(c) \/ CloseRetired(c) \/ CacheOverview(c)
    BY <1>7, EndingDoes DEF At
  <1>8. CASE RemoveArtifact(c) \/ DropFails(c) \/ Fails(c)
    BY <1>8, RemoveArtifactDoes, DropFailsDoes, FailsDoes DEF GoesOn, Onward, At
  <1> QED BY <1>1, <1>2, <1>3, <1>4, <1>5, <1>6, <1>7, <1>8 DEF Does

\* Another call that is about to drop an overview still is.
LEMMA OtherDrops ==
  ASSUME TypeOK, NEW c \in Clients, NEW d \in Clients, d # c, Quietly(c) \/ Notes(c), call[d] # None
  PROVE  call'[d] # None /\ SameCall(call'[d], call[d]) /\ (Notes(c) => call'[d].meanwhile # {})
         /\ (Quietly(c) => call'[d] = call[d])
  BY DEF Quietly, Notes, Noting, SameCall

LEMMA DoesKeepsAnswers ==
  ASSUME OverviewInv, NEW c \in Clients, Does(c)
  PROVE  AnswersAreRight'
  <1>1. TypeOK
    BY DEF OverviewInv
  <1>2. SUFFICES ASSUME NEW d \in Clients, call'[d] # None, call'[d].pc = "cache", call'[d].meanwhile = {}
                 PROVE  RightThen(call'[d].by, call'[d].teams)
    BY DEF AnswersAreRight, At, Undisturbed, Right, RightThen, Shown, IsTeam, Body
  <1>3. d # c
    BY <1>1, <1>2, DoesNotAnswer
  <1>4. Quietly(c) \/ Notes(c)
    BY <1>1, DoesKeepsOwners DEF Notes
  <1>5. call[d] # None
    BY <1>2, <1>3, <1>4 DEF Quietly, Notes, Noting
  <1>6. ~Notes(c) /\ call'[d] = call[d]
    BY <1>1, <1>2, <1>3, <1>4, <1>5, OtherDrops
  <1>7. UNCHANGED artifact
    BY <1>1, <1>6, DoesToRows
  <1>8. Right(call[d].by, call[d].teams)
    BY <1>2, <1>5, <1>6 DEF OverviewInv, AnswersAreRight, At, Undisturbed
  <1> QED BY <1>6, <1>7, <1>8 DEF Right, RightThen, Shown, IsTeam, Body

LEMMA DoesKeepsCache ==
  ASSUME OverviewInv, NEW c \in Clients, Does(c)
  PROVE  CacheIsRight'
  <1>1. TypeOK
    BY DEF OverviewInv
  <1>2. SUFFICES ASSUME NEW u \in Users, cached'[u] # None, cached'[u].clean
                 PROVE  RightThen(u, cached'[u].teams) \/ \E d \in Clients : call'[d] # None /\ call'[d].pc = "drop" /\ call'[d].owner = u
    BY DEF CacheIsRight, At, Right, RightThen, Shown, IsTeam, Body
  <1>3. Quietly(c) \/ Notes(c)
    BY <1>1, DoesKeepsOwners DEF Notes
  <1>4. ASSUME cached'[u] = cached[u], ~(At(c, "drop") /\ call[c].owner = u),
               Right(u, cached[u].teams) => RightThen(u, cached[u].teams)
        PROVE  RightThen(u, cached'[u].teams) \/ \E d \in Clients : call'[d] # None /\ call'[d].pc = "drop" /\ call'[d].owner = u
    <2>1. Right(u, cached[u].teams) \/ \E d \in Clients : At(d, "drop") /\ call[d].owner = u
      BY <1>2, <1>4 DEF OverviewInv, CacheIsRight
    <2>2. ASSUME NEW d \in Clients, At(d, "drop"), call[d].owner = u
          PROVE  call'[d] # None /\ call'[d].pc = "drop" /\ call'[d].owner = u
      <3>1. d # c
        BY <1>4, <2>2
      <3> QED BY <1>1, <1>3, <2>2, <3>1, OtherDrops DEF At, SameCall
    <2> QED BY <1>4, <2>1, <2>2
  <1>5. CASE At(c, "drop")
    <2>1. UNCHANGED artifact /\ call[c].owner \in Users /\ (Dropped(c) \/ Outdated(c))
      BY <1>1, <1>5, DoesNotAnswer, DropOverviewDoes, DropFailsDoes, FailsDoes DEF At, TypeOK
    <2>2. u # call[c].owner /\ cached'[u] = cached[u]
      <3>1. CASE Dropped(c)
        BY <1>1, <1>2, <2>1, <3>1 DEF Dropped, TypeOK
      <3>2. CASE Outdated(c)
        <4>1. cached[u] \in [teams : Overviews, clean : BOOLEAN] \cup {None}
          BY <1>1 DEF TypeOK
        <4>2. cached'[u] = IF u = call[c].owner /\ cached[u] # None THEN [cached[u] EXCEPT !.clean = FALSE] ELSE cached[u]
          BY <3>2 DEF Outdated
        <4>3. cached[u] # None => [cached[u] EXCEPT !.clean = FALSE].clean = FALSE
          BY <4>1
        <4> QED BY <1>2, <4>2, <4>3
      <3> QED BY <2>1, <3>1, <3>2
    <2>3. Right(u, cached[u].teams) => RightThen(u, cached[u].teams)
      BY <2>1, RightStays
    <2> QED BY <1>4, <2>2, <2>3
  <1>6. CASE CacheOverview(c)
    <2>1. At(c, "cache") /\ UNCHANGED artifact
          /\ cached' = [cached EXCEPT ![call[c].by] = [teams |-> call[c].teams, clean |-> Undisturbed(c)]]
      BY <1>6 DEF CacheOverview
    <2>2. CASE u = call[c].by
      <3>1. cached'[u] = [teams |-> call[c].teams, clean |-> Undisturbed(c)]
        BY <1>1, <2>1, <2>2 DEF TypeOK
      <3>2. Right(u, call[c].teams)
        BY <1>2, <2>1, <2>2, <3>1 DEF OverviewInv, AnswersAreRight
      <3> QED BY <2>1, <3>1, <3>2 DEF Right, RightThen, Shown, IsTeam, Body
    <2>3. CASE u # call[c].by
      <3>1. cached'[u] = cached[u]
        BY <1>1, <2>1, <2>3 DEF TypeOK
      <3>2. ~At(c, "drop")
        BY <2>1 DEF At
      <3>3. Right(u, cached[u].teams) => RightThen(u, cached[u].teams)
        BY <2>1, RightStays
      <3> QED BY <1>4, <3>1, <3>2, <3>3
    <2> QED BY <2>2, <2>3
  <1>7. CASE ~At(c, "drop") /\ ~CacheOverview(c)
    <2>1. CASE UNCHANGED artifact /\ UNCHANGED cached
      <3>1. Right(u, cached[u].teams) => RightThen(u, cached[u].teams)
        BY <2>1, RightStays
      <3> QED BY <1>4, <1>7, <2>1, <3>1
    <2>2. ASSUME NEW v \in Users, WritesFor(c, v)
          PROVE  RightThen(u, cached'[u].teams) \/ \E d \in Clients : call'[d] # None /\ call'[d].pc = "drop" /\ call'[d].owner = u
      <3>1. CASE v = u
        BY <2>2, <3>1, RosterAssumption DEF WritesFor
      <3>2. CASE v # u
        <4>1. Right(u, cached[u].teams) => RightThen(u, cached[u].teams)
          BY <2>2, <3>2, RightStays DEF WritesFor
        <4> QED BY <1>4, <1>7, <2>2, <4>1 DEF WritesFor
      <3> QED BY <3>1, <3>2
    <2>3. ASSUME NEW id \in AllIds, Doubts(id)
          PROVE  RightThen(u, cached'[u].teams) \/ \E d \in Clients : call'[d] # None /\ call'[d].pc = "drop" /\ call'[d].owner = u
      <3>1. cached'[u] = IF cached[u] # None /\ cached[u].teams[id] # None
                         THEN [cached[u] EXCEPT !.clean = FALSE] ELSE cached[u]
        BY <2>3 DEF Doubts, Doubtful
      <3>2. cached[u] # None => [cached[u] EXCEPT !.clean = FALSE].clean = FALSE
        BY <1>1 DEF TypeOK
      <3>3. cached'[u] = cached[u] /\ cached[u].teams[id] = None
        BY <1>2, <3>1, <3>2
      <3>4. Right(u, cached[u].teams) => RightThen(u, cached[u].teams)
        BY <2>3, <3>3 DEF Doubts, Right, RightThen, Shown, IsTeam, Body
      <3> QED BY <1>4, <1>7, <3>3, <3>4
    <2>4. CASE Makes
      <3>1. Right(u, cached[u].teams) => RightThen(u, cached[u].teams)
        BY <2>4, RightStays DEF Makes
      <3> QED BY <1>4, <1>7, <2>4, <3>1 DEF Makes
    <2> QED BY <1>1, <1>7, <2>1, <2>2, <2>3, <2>4, DoesToRows
  <1> QED BY <1>5, <1>6, <1>7

LEMMA StepKeepsOverviews ==
  ASSUME OverviewInv, [Next]_vars
  PROVE  OverviewInv'
  <1>1. TypeOK /\ TypeOK'
    BY StepTyped DEF OverviewInv
  <1>2. ASSUME NEW c \in Clients, NEW q \in Call, Begins(c, q), Opening(q)
        PROVE  CacheIsRight' /\ AnswersAreRight'
    <2>1. call[c] = None /\ Quietly(c) /\ call'[c] = q /\ UNCHANGED <<artifact, session, cached>>
      BY <1>1, <1>2, BeginsDoes
    <2>2. ASSUME NEW u, NEW teams, Right(u, teams)
          PROVE  RightThen(u, teams)
      BY <2>1, <2>2, RightStays
    <2>3. CacheIsRight'
      <3>1. SUFFICES ASSUME NEW u \in Users, cached[u] # None, cached[u].clean
                     PROVE  RightThen(u, cached[u].teams) \/ \E d \in Clients : At(d, "drop")' /\ call'[d].owner = u
        BY <2>1 DEF CacheIsRight, Right, RightThen, Shown, IsTeam, Body
      <3>2. CASE Right(u, cached[u].teams)
        BY <2>1, <3>2, RightStays
      <3>3. ASSUME NEW d \in Clients, At(d, "drop"), call[d].owner = u
            PROVE  At(d, "drop")' /\ call'[d].owner = u
        BY <2>1, <3>3 DEF At, Quietly
      <3> QED BY <3>1, <3>2, <3>3 DEF OverviewInv, CacheIsRight
    <2>4. AnswersAreRight'
      <3>1. SUFFICES ASSUME NEW d \in Clients, call'[d] # None, call'[d].pc = "cache", call'[d].meanwhile = {}
                     PROVE  RightThen(call'[d].by, call'[d].teams)
        BY DEF AnswersAreRight, At, Undisturbed, Right, RightThen, Shown, IsTeam, Body
      <3>2. CASE d = c
        <4>1. Right(q.by, q.teams)
          BY <1>2, <2>1, <3>1, <3>2, RightWhenComputed DEF Opening
        <4> QED BY <2>1, <3>2, <4>1 DEF Right, RightThen, Shown, IsTeam, Body
      <3>3. CASE d # c
        <4>1. call'[d] = call[d] /\ Right(call[d].by, call[d].teams)
          BY <2>1, <3>1, <3>3 DEF Quietly, OverviewInv, AnswersAreRight, At, Undisturbed
        <4> QED BY <2>1, <4>1 DEF Right, RightThen, Shown, IsTeam, Body
      <3> QED BY <3>2, <3>3
    <2> QED BY <2>3, <2>4
  <1>3. ASSUME UNCHANGED call, \A x \in AllIds : artifact[x] # None => artifact'[x] = artifact[x],
               \A u \in Users : cached'[u] = None \/ cached'[u] = cached[u]
        PROVE  CacheIsRight' /\ AnswersAreRight'
    <2>1. \A u, teams : Right(u, teams) => RightThen(u, teams)
      BY <1>3 DEF Right, RightThen, Shown, IsTeam, Body
    <2>2. CacheIsRight'
      <3>1. SUFFICES ASSUME NEW u \in Users, cached'[u] # None, cached'[u].clean
                     PROVE  RightThen(u, cached'[u].teams) \/ \E d \in Clients : At(d, "drop")' /\ call'[d].owner = u
        BY DEF CacheIsRight, Right, RightThen, Shown, IsTeam, Body
      <3>2. cached'[u] = cached[u]
        BY <1>3, <3>1
      <3>3. Right(u, cached[u].teams) \/ \E d \in Clients : At(d, "drop") /\ call[d].owner = u
        BY <3>1, <3>2 DEF OverviewInv, CacheIsRight
      <3>4. ASSUME Right(u, cached[u].teams) PROVE RightThen(u, cached'[u].teams)
        BY <1>3, <3>2, <3>4 DEF Right, RightThen, Shown, IsTeam, Body
      <3> QED BY <1>3, <3>3, <3>4 DEF At
    <2>3. AnswersAreRight'
      <3>1. SUFFICES ASSUME NEW d \in Clients, call'[d] # None, call'[d].pc = "cache", call'[d].meanwhile = {}
                     PROVE  RightThen(call'[d].by, call'[d].teams)
        BY DEF AnswersAreRight, At, Undisturbed, Right, RightThen, Shown, IsTeam, Body
      <3>2. Right(call[d].by, call[d].teams)
        BY <1>3, <3>1 DEF OverviewInv, AnswersAreRight, At, Undisturbed
      <3> QED BY <1>3, <3>2 DEF Right, RightThen, Shown, IsTeam, Body
    <2> QED BY <2>2, <2>3
  <1>4. ASSUME NEW c \in Clients, NEW u \in Users, NEW r \in Registrations, CreateAgent(c, u, r)
        PROVE  CacheIsRight' /\ AnswersAreRight'
    BY <1>1, <1>3, <1>4, CreateAgentKeepsOwners DEF CreateAgent
  <1>5. ASSUME NEW u \in Users, ExpireOverview(u)
        PROVE  CacheIsRight' /\ AnswersAreRight'
    BY <1>1, <1>3, <1>5 DEF ExpireOverview, TypeOK
  <1>6. CASE UNCHANGED <<artifact, call, cached>>
    BY <1>1, <1>3, <1>6 DEF OverviewInv
  <1>7. ASSUME NEW c \in Clients, NEW v \in Users, NEW id \in Ids, NEW body \in Bodies, NewArtifact(c, v, id, body)
        PROVE  CacheIsRight' /\ AnswersAreRight'
    <2>1. /\ Noting(c, "wrote") /\ call[c] = None /\ call'[c] = None /\ UNCHANGED cached
          /\ \A x \in AllIds : artifact[x] # None => artifact'[x] = artifact[x]
      BY <1>1, <1>7, NewArtifactDoes
    <2>2. \A u, teams : Right(u, teams) => RightThen(u, teams)
      BY <2>1 DEF Right, RightThen, Shown, IsTeam, Body
    <2>3. CacheIsRight'
      <3>1. SUFFICES ASSUME NEW u \in Users, cached[u] # None, cached[u].clean
                     PROVE  RightThen(u, cached[u].teams) \/ \E d \in Clients : At(d, "drop")' /\ call'[d].owner = u
        BY <2>1 DEF CacheIsRight, Right, RightThen, Shown, IsTeam, Body
      <3>2. ASSUME NEW d \in Clients, At(d, "drop"), call[d].owner = u
            PROVE  At(d, "drop")' /\ call'[d].owner = u
        <4>1. d # c /\ call[d] # None
          BY <2>1, <3>2 DEF At
        <4> QED BY <1>1, <2>1, <3>2, <4>1, OtherDrops DEF At, SameCall, Notes
      <3> QED BY <2>2, <3>1, <3>2 DEF OverviewInv, CacheIsRight
    <2>4. AnswersAreRight'
      <3>1. \A d \in Clients : call'[d] # None => call'[d].meanwhile # {}
        BY <1>1, <2>1 DEF Noting
      <3> QED BY <3>1 DEF AnswersAreRight, At, Undisturbed
    <2> QED BY <2>3, <2>4
  <1> QED BY <1>1, <1>2, <1>4, <1>5, <1>6, <1>7, StepIsOneOf, DoesKeepsAnswers, DoesKeepsCache
         DEF OverviewInv, DeleteSession, vars

\* An overview that was computed undisturbed is right about the teams of its
\* account, or about to be dropped (invalidateTeamOverviewSnapshot), short of a
\* drop that failed and of the routes that write or remove a team without one.
THEOREM OverviewsAreCurrent == Spec => []OverviewIsCurrent
  <1>1. Init => OverviewInv
    <2> SUFFICES ASSUME Init PROVE OverviewInv
      OBVIOUS
    <2>1. \A c \in Clients : call[c] = None
      BY DEF Init
    <2>2. \A u \in Users : cached[u] # None => cached[u].teams = Overview(u)
      BY DEF Init
    <2> QED BY <2>1, <2>2, InitTyped, RightWhenComputed DEF OverviewInv, CacheIsRight, AnswersAreRight, At
  <1>2. OverviewInv /\ [Next]_vars => OverviewInv'
    BY StepKeepsOverviews
  <1>3. OverviewInv => OverviewIsCurrent
    BY DEF OverviewInv, CacheIsRight, Right, OverviewIsCurrent
  <1> QED BY <1>1, <1>2, <1>3, PTL DEF Spec

-----------------------------------------------------------------------------
(* Batches.                                                                 *)

\* A batch that closes sessions is about sessions of its caller; what it has found
\* is clean once it is written; and while nothing disturbs it, it has found whatever
\* is not clean yet.
Sweeping(q) == q.kind \in {"batchArchive", "batchDelete"} /\ q.pc \in {"write", "drop", "done"}
Touches(body, q) == InRoster(body) \cap q.some # {}

SweepsOwn(q) ==
    q.pc \in {"sessions", "list"} /\ q.kind = "batchArchive" /\ q.meanwhile = {} => \A s \in q.some : Owns(q.by, s)
FindsClean(q) == Sweeping(q) => \A w \in q.todo : ~Touches(w.body, q)
FindsAll(q) ==
    Sweeping(q) /\ q.meanwhile = {} =>
        \A id \in AllIds : /\ Shown(id) /\ Touches(Body(id), q)
                           /\ q.kind = "batchDelete" => artifact[id].owner = q.by
                           => \E w \in q.todo : w.id = id
Ordered(q) == (q.pc = "done" => q.todo = {}) /\ (q.pc = "create" => q.kind \notin Batches)

BatchInv ==
    /\ TypeOK
    /\ \A c \in Clients : call[c] # None =>
          SweepsOwn(call[c]) /\ FindsClean(call[c]) /\ FindsAll(call[c]) /\ Ordered(call[c])

\* The part of it that depends on rows and sessions, after a step.
OwnsThen(u, s) == s \in Sessions /\ session'[s].owner # None /\ session'[s].owner = u
ShownThen(id) == artifact'[id] # None /\ artifact'[id].body.kind = "team" /\ ~artifact'[id].body.archived
FindsAllThen(q) ==
    Sweeping(q) /\ q.meanwhile = {} =>
        \A id \in AllIds : /\ ShownThen(id) /\ Touches(artifact'[id].body, q)
                           /\ q.kind = "batchDelete" => artifact'[id].owner = q.by
                           => \E w \in q.todo : w.id = id
SweepsOwnThen(q) ==
    q.pc \in {"sessions", "list"} /\ q.kind = "batchArchive" /\ q.meanwhile = {} => \A s \in q.some : OwnsThen(q.by, s)

\* The invariant after a step, of the call of one client.
Swept(q) == SweepsOwnThen(q) /\ FindsClean(q) /\ FindsAllThen(q) /\ Ordered(q)

LEMMA SweptIsInv ==
  ASSUME TypeOK', \A d \in Clients : call'[d] # None => Swept(call'[d])
  PROVE  BatchInv'
  <1>1. ASSUME NEW d \in Clients, call'[d] # None
        PROVE  FindsAll(call[d])'
    <2>1. FindsAllThen(call'[d])
      BY <1>1 DEF Swept
    <2> QED BY <2>1 DEF FindsAllThen, FindsAll, Sweeping, Touches, ShownThen, Shown, IsTeam, Body, InRoster
  <1>2. ASSUME NEW d \in Clients, call'[d] # None
        PROVE  SweepsOwn(call[d])' /\ FindsClean(call[d])' /\ Ordered(call[d])'
    <2>1. SweepsOwnThen(call'[d]) /\ FindsClean(call'[d]) /\ Ordered(call'[d])
      BY <1>2 DEF Swept
    <2> QED BY <2>1 DEF SweepsOwnThen, SweepsOwn, OwnsThen, Owns, Live, FindsClean, Sweeping, Touches, InRoster, Ordered
  <1> QED BY <1>1, <1>2 DEF BatchInv

SameOwners == \A s \in Sessions : session'[s].owner = session[s].owner

\* A call that goes on as it was is not bothered by a step that leaves rows alone, or
\* makes none that is on display, and leaves the owners of sessions alone.
LEMMA SweptWhenIdle ==
  ASSUME BatchInv, NEW d \in Clients, call[d] # None, SameOwners,
         \A id \in AllIds : artifact'[id] = artifact[id] \/ ~ShownThen(id)
  PROVE  Swept(call[d])
  <1> DEFINE q == call[d]
  <1>1. SweepsOwn(q) /\ FindsClean(q) /\ FindsAll(q) /\ Ordered(q)
    BY DEF BatchInv
  <1>2. SweepsOwnThen(q)
    BY <1>1 DEF SweepsOwn, SweepsOwnThen, Owns, OwnsThen, Live, SameOwners
  <1>3. FindsAllThen(q)
    BY <1>1 DEF FindsAll, FindsAllThen, Shown, ShownThen, IsTeam, Body
  <1> QED BY <1>1, <1>2, <1>3 DEF Swept

\* One that was disturbed is only asked to have found clean bodies.
LEMMA SweptWhenNoted ==
  ASSUME BatchInv, NEW d \in Clients, call[d] # None, NEW q, SameCall(q, call[d]), q.meanwhile # {}
  PROVE  Swept(q)
  <1>1. FindsClean(call[d]) /\ Ordered(call[d])
    BY DEF BatchInv
  <1> QED BY <1>1 DEF Swept, SweepsOwnThen, FindsAllThen, FindsClean, Ordered, Sweeping, Touches, SameCall

LEMMA QuietKeepsSessions ==
  ASSUME TypeOK, NEW c \in Clients, Does(c), ~Notes(c)
  PROVE  SameOwners /\ UNCHANGED artifact
  <1>1. UNCHANGED artifact
    BY DoesToRows
  <1>2. CASE TouchSessions(c)
    <2> DEFINE b == call[c].kind \in {"unarchive", "batchUnarchive"}
    <2>1. b \in BOOLEAN
      OBVIOUS
    <2>2. Sets(c, b)
      BY <1>2, TouchSessionsDoes
    <2> HIDE DEF b
    <2> QED BY <1>1, <2>1, <2>2, SessionsStay DEF SameOwners
  <1>6. CASE CloseSessions(c)
    <2>1. Sets(c, FALSE)
      BY <1>6, CloseSessionsDoes
    <2> QED BY <1>1, <2>1, SessionsStay DEF SameOwners
  <1>3. CASE RemoveSessions(c) \/ RemoveTeam(c)
    BY <1>1, <1>3, RemoveSessionsDoes, RemoveTeamDoes DEF Notes, SameOwners
  <1>4. CASE CloseRetired(c)
    <2>1. \A s \in Sessions : session[s] \in [owner : Users \cup {None}, active : BOOLEAN, deleted : BOOLEAN]
      BY DEF TypeOK
    <2>2. session' = [s \in Sessions |-> IF s \in call[c].some /\ Owns(call[c].owner, s)
                                      THEN [session[s] EXCEPT !.active = FALSE] ELSE session[s]]
      BY <1>4 DEF CloseRetired
    <2> QED BY <1>1, <2>1, <2>2 DEF SameOwners
  <1>5. CASE \/ ListTeams(c) \/ WriteBody(c) \/ DropOverview(c) \/ CreateArtifact(c) \/ WriteAgent(c) \/ Finish(c)
             \/ CacheOverview(c) \/ RemoveArtifact(c) \/ DropFails(c) \/ Fails(c)
    <2>1. UNCHANGED session
      BY <1>5 DEF ListTeams, WriteBody, DropOverview, CreateArtifact, WriteAgent, Finish, CacheOverview, RemoveArtifact,
                  DropFails, Fails
    <2> QED BY <1>1, <2>1 DEF SameOwners
  <1> QED BY <1>2, <1>3, <1>4, <1>5, <1>6 DEF Does

LEMMA OthersAreSwept ==
  ASSUME BatchInv, NEW c \in Clients, Does(c), NEW d \in Clients, d # c, call'[d] # None
  PROVE  Swept(call'[d])
  <1>1. TypeOK /\ (Quietly(c) \/ Notes(c))
    BY DoesKeepsOwners DEF BatchInv, Notes
  <1>2. call[d] # None
    BY <1>1 DEF Quietly, Notes, Noting
  <1>3. CASE Notes(c)
    BY <1>1, <1>2, <1>3, OtherDrops, SweptWhenNoted
  <1>4. CASE ~Notes(c)
    <2>1. call'[d] = call[d]
      BY <1>1, <1>4 DEF Quietly
    <2> QED BY <1>1, <1>2, <1>4, <2>1, QuietKeepsSessions, SweptWhenIdle
  <1> QED BY <1>3, <1>4

\* Whatever is on display and names a session of the batch is among what it lists.
LEMMA ListingSweeps ==
  ASSUME BatchInv, NEW c \in Clients, ListTeams(c)
  PROVE  Swept(call'[c])
  <1> DEFINE q == call'[c]
  <1>1. TypeOK /\ call[c] # None /\ call[c].pc = "list"
    BY DEF BatchInv, ListTeams, At
  <1>2. /\ q.pc = (IF Found(c) = {} THEN "done" ELSE "write") /\ q.some = call[c].some /\ q.by = call[c].by
        /\ q.kind = call[c].kind /\ q.meanwhile = call[c].meanwhile
        /\ q.todo = UNION {Write(id, Cleaned(c, id)) : id \in Found(c)} /\ UNCHANGED <<artifact, session>>
    BY <1>1, ListTeamsDoes DEF Onward
  <1>3. \A w \in q.todo : ~Touches(w.body, q)
    <2>1. SUFFICES ASSUME NEW id \in Found(c), NEW w \in Write(id, Cleaned(c, id)) PROVE ~Touches(w.body, q)
      BY <1>2
    <2>2. id \in AllIds /\ IsTeam(id)
      BY DEF Found, Listed, Shown
    <2>3. Body(id) \in Content /\ Body(id).members \in Seq(Member)
      BY <1>1, <2>2, TeamOf
    <2>4. w.body = Cleaned(c, id)
      BY DEF Write
    <2>5. w.body.members = Without(Body(id).members, call[c].some)
      BY <2>3, <2>4 DEF Cleaned, Content
    <2>6. \A i \in DOMAIN w.body.members : w.body.members[i].session \notin q.some
      BY <1>2, <2>3, <2>5, WithoutThem
    <2> QED BY <2>6 DEF Touches, InRoster
  <1>4. FindsAllThen(q)
    <2>1. SUFFICES ASSUME Sweeping(q), q.meanwhile = {}, NEW id \in AllIds, Shown(id), Touches(Body(id), call[c]),
                          q.kind = "batchDelete" => artifact[id].owner = q.by
                   PROVE  \E w \in q.todo : w.id = id
      BY <1>2 DEF FindsAllThen, ShownThen, Shown, IsTeam, Body, Touches
    <2>2. id \in Listed(call[c].by)
      <3>1. CASE call[c].kind = "batchDelete"
        BY <1>2, <2>1, <3>1 DEF Listed
      <3>2. CASE call[c].kind = "batchArchive"
        <4>1. \A s \in call[c].some : Owns(call[c].by, s)
          BY <1>1, <1>2, <2>1, <3>2 DEF BatchInv, SweepsOwn
        <4>2. \E s \in InRoster(artifact[id].body) : Owns(call[c].by, s)
          BY <2>1, <4>1 DEF Touches, Body
        <4> QED BY <2>1, <4>2 DEF Listed
      <3> QED BY <1>2, <2>1, <3>1, <3>2 DEF Sweeping
    <2>3. id \in Found(c)
      BY <2>1, <2>2 DEF Found, Touches
    <2>4. \E w \in Write(id, Cleaned(c, id)) : w.id = id
      BY DEF Write
    <2> QED BY <1>2, <2>3, <2>4
  <1>5. SweepsOwnThen(q) /\ Ordered(q)
    BY <1>2 DEF SweepsOwnThen, Ordered
  <1> QED BY <1>3, <1>4, <1>5 DEF Swept, FindsClean

\* What it writes is clean from then on.
LEMMA WritingSweeps ==
  ASSUME BatchInv, NEW c \in Clients, WriteBody(c), call'[c] # None
  PROVE  Swept(call'[c])
  <1> DEFINE q == call'[c]
  <1>1. TypeOK /\ call[c] # None /\ call[c].pc = "write"
    BY DEF BatchInv, WriteBody, At
  <1>2. PICK w \in call[c].todo : Hits(c, w.id, w.body, w.owner) /\ call'[c].todo = call[c].todo \ {w}
    BY <1>1, WriteBodyDoes
  <1>3. q.pc = "drop" /\ q.some = call[c].some /\ q.by = call[c].by /\ q.kind = call[c].kind /\ q.meanwhile = call[c].meanwhile
        /\ q.todo = call[c].todo \ {w}
    BY <1>2 DEF Hits, Onward
  <1>4. /\ w.id \in AllIds /\ artifact'[w.id].body = w.body
        /\ \A id \in AllIds : id # w.id => artifact'[id] = artifact[id]
    <2>1. w.id \in AllIds /\ artifact[w.id] \in Row /\ artifact' = [artifact EXCEPT ![w.id].body = w.body]
      BY <1>1, <1>2, RowOf DEF Hits
    <2>2. artifact'[w.id] = [artifact[w.id] EXCEPT !.body = w.body]
      BY <1>1, <2>1 DEF TypeOK
    <2>3. artifact'[w.id].body = w.body
      BY <2>1, <2>2 DEF Row
    <2> QED BY <1>1, <2>1, <2>3 DEF TypeOK
  <1>5. FindsClean(q)
    BY <1>1, <1>3 DEF BatchInv, FindsClean, Sweeping, Touches
  <1>6. FindsAllThen(q)
    <2>1. SUFFICES ASSUME Sweeping(q), q.meanwhile = {}, NEW id \in AllIds, ShownThen(id), Touches(artifact'[id].body, q),
                          q.kind = "batchDelete" => artifact'[id].owner = q.by
                   PROVE  \E x \in q.todo : x.id = id
      BY DEF FindsAllThen
    <2>2. Sweeping(call[c]) /\ call[c].meanwhile = {}
      BY <1>1, <1>3, <2>1 DEF Sweeping
    <2>3. ~Touches(w.body, call[c])
      BY <1>1, <2>2 DEF BatchInv, FindsClean
    <2>4. id # w.id
      BY <1>3, <1>4, <2>1, <2>3 DEF Touches
    <2>5. Shown(id) /\ Touches(Body(id), call[c]) /\ (call[c].kind = "batchDelete" => artifact[id].owner = call[c].by)
      BY <1>3, <1>4, <2>1, <2>4 DEF Shown, ShownThen, IsTeam, Body, Touches
    <2>6. \E x \in call[c].todo : x.id = id
      BY <1>1, <2>2, <2>5 DEF BatchInv, FindsAll
    <2> QED BY <1>3, <2>4, <2>6
  <1>7. SweepsOwnThen(q) /\ Ordered(q)
    BY <1>3 DEF SweepsOwnThen, Ordered
  <1> QED BY <1>5, <1>6, <1>7 DEF Swept

LEMMA DroppingSweeps ==
  ASSUME BatchInv, NEW c \in Clients, DropOverview(c) \/ DropFails(c)
  PROVE  Swept(call'[c])
  <1> DEFINE q == call'[c]
  <1>1. TypeOK /\ call[c] # None /\ call[c].pc = "drop"
    BY DEF BatchInv, DropOverview, DropFails, At
  <1>2. /\ q.pc = (IF call[c].todo = {} THEN "done" ELSE "write") /\ q.some = call[c].some /\ q.by = call[c].by
        /\ q.kind = call[c].kind /\ q.meanwhile = call[c].meanwhile /\ q.todo = call[c].todo
        /\ UNCHANGED <<artifact, session>>
    BY <1>1, DropOverviewDoes, DropFailsDoes DEF GoesOn, Onward
  <1>3. FindsClean(call[c]) /\ FindsAll(call[c])
    BY <1>1 DEF BatchInv
  <1>4. FindsClean(q)
    BY <1>1, <1>2, <1>3 DEF FindsClean, Sweeping, Touches
  <1>5. FindsAllThen(q)
    BY <1>1, <1>2, <1>3 DEF FindsAll, FindsAllThen, Sweeping, Touches, Shown, ShownThen, IsTeam, Body
  <1>6. SweepsOwnThen(q) /\ Ordered(q)
    BY <1>2 DEF SweepsOwnThen, Ordered
  <1> QED BY <1>4, <1>5, <1>6 DEF Swept

LEMMA TouchingSweeps ==
  ASSUME BatchInv, NEW c \in Clients, TouchSessions(c), call'[c] # None
  PROVE  Swept(call'[c])
  <1> DEFINE q == call'[c]
  <1>1. TypeOK /\ call[c] # None /\ call[c].pc = "sessions"
    BY DEF BatchInv, TouchSessions, At
  <1>2. /\ q.some = call[c].some /\ q.by = call[c].by /\ q.kind = call[c].kind /\ q.meanwhile = call[c].meanwhile
        /\ (q.pc = "list" \/ (q.pc = "write" /\ q.kind \in {"archive", "unarchive"}))
    BY <1>1, TouchSessionsDoes DEF GoesOn, Onward
  <1>3. SameOwners
    <2> DEFINE b == call[c].kind \in {"unarchive", "batchUnarchive"}
    <2>1. b \in BOOLEAN /\ Sets(c, b)
      BY <1>1, TouchSessionsDoes
    <2> HIDE DEF b
    <2> QED BY <1>1, <2>1, SessionsStay DEF SameOwners
  <1>4. SweepsOwnThen(q)
    <2>1. SweepsOwn(call[c])
      BY <1>1 DEF BatchInv
    <2> QED BY <1>1, <1>2, <1>3, <2>1 DEF SweepsOwn, SweepsOwnThen, Owns, OwnsThen, Live, SameOwners
  <1> QED BY <1>2, <1>4 DEF Swept, FindsClean, FindsAllThen, Ordered, Sweeping

\* The steps after which a call is no batch that lists, or no batch at all.
LEMMA OtherStepsSweep ==
  ASSUME BatchInv, NEW c \in Clients, call'[c] # None,
         RemoveSessions(c) \/ RemoveTeam(c) \/ CreateArtifact(c) \/ CloseSessions(c) \/ WriteAgent(c)
  PROVE  Swept(call'[c])
  <1> DEFINE q == call'[c]
  <1>1. TypeOK
    BY DEF BatchInv
  <1>2. CASE RemoveSessions(c)
    <2>1. q.pc = "list" /\ q.kind = "batchDelete"
      BY <1>1, <1>2, RemoveSessionsDoes DEF GoesOn, Onward
    <2> QED BY <2>1 DEF Swept, SweepsOwnThen, FindsClean, FindsAllThen, Ordered, Sweeping
  <1>3. CASE RemoveTeam(c)
    <2>1. q.pc = "drop" /\ q.kind = "delete"
      BY <1>1, <1>3, RemoveTeamDoes DEF GoesOn, Onward
    <2> QED BY <2>1 DEF Swept, SweepsOwnThen, FindsClean, FindsAllThen, Ordered, Sweeping
  <1>4. CASE CreateArtifact(c)
    <2>1. call[c] # None /\ call[c].pc = "create"
      BY <1>4 DEF CreateArtifact, At
    <2>2. q.kind = call[c].kind /\ q.pc \in {"drop", "create"}
      BY <1>1, <1>4, CreateArtifactDoes DEF Hits, Onward
    <2>3. q.kind \notin Batches
      BY <2>1, <2>2 DEF BatchInv, Ordered
    <2> QED BY <2>2, <2>3 DEF Swept, SweepsOwnThen, FindsClean, FindsAllThen, Ordered, Sweeping, Batches
  <1>5. CASE CloseSessions(c) \/ WriteAgent(c)
    <2>1. q.pc \in {"agent", "retired"}
      BY <1>1, <1>5, CloseSessionsDoes, WriteAgentDoes DEF GoesOn, Onward
    <2> QED BY <2>1 DEF Swept, SweepsOwnThen, FindsClean, FindsAllThen, Ordered, Sweeping
  <1> QED BY <1>2, <1>3, <1>4, <1>5

LEMMA StepKeepsBatches ==
  ASSUME BatchInv, [Next]_vars
  PROVE  BatchInv'
  <1>1. TypeOK /\ TypeOK'
    BY StepTyped DEF BatchInv
  <1>2. ASSUME NEW c \in Clients, Does(c), NEW d \in Clients, call'[d] # None
        PROVE  Swept(call'[d])
    <2>1. CASE d # c
      BY <1>2, <2>1, OthersAreSwept
    <2>2. CASE d = c
      <3>1. ~(Finish(c) \/ CloseRetired(c) \/ CacheOverview(c) \/ RemoveArtifact(c) \/ Fails(c))
        BY <1>1, <1>2, <2>2, EndingDoes, RemoveArtifactDoes, FailsDoes
      <3> QED BY <1>2, <2>2, <3>1, ListingSweeps, WritingSweeps, DroppingSweeps, TouchingSweeps, OtherStepsSweep DEF Does
    <2> QED BY <2>1, <2>2
  <1>3. ASSUME NEW c \in Clients, NEW q \in Call, Begins(c, q), Opening(q), NEW d \in Clients, call'[d] # None
        PROVE  Swept(call'[d])
    <2>1. Quietly(c) /\ call'[c] = q /\ UNCHANGED <<artifact, session>>
      BY <1>1, <1>3, BeginsDoes
    <2>2. CASE d # c
      <3>1. call'[d] = call[d] /\ SameOwners /\ \A id \in AllIds : artifact'[id] = artifact[id]
        BY <2>1, <2>2 DEF Quietly, SameOwners
      <3> QED BY <1>3, <3>1, SweptWhenIdle
    <2>3. CASE d = c
      <3>1. SweepsOwnThen(q)
        BY <1>3, <2>1 DEF Opening, SweepsOwnThen, OwnsThen, Owns, Live
      <3>2. ~Sweeping(q) /\ Ordered(q)
        BY <1>3 DEF Opening, Sweeping, Ordered, Batches
      <3> QED BY <2>1, <2>3, <3>1, <3>2 DEF Swept, FindsClean, FindsAllThen
    <2> QED BY <2>2, <2>3
  <1>4. ASSUME NEW c \in Clients, NEW u \in Users, NEW r \in Registrations, CreateAgent(c, u, r), NEW d \in Clients, call'[d] # None
        PROVE  Swept(call'[d])
    <2>1. PICK id \in AllIds, row \in Row : /\ artifact[id] = None /\ row.body.kind = "standalone"
                                            /\ artifact' = [artifact EXCEPT ![id] = row]
      BY <1>1, <1>4, CreateAgentDoes
    <2>2. call'[d] = call[d] /\ SameOwners
      BY <1>4 DEF CreateAgent, SameOwners
    <2>3. \A x \in AllIds : artifact'[x] = artifact[x] \/ ~ShownThen(x)
      BY <1>1, <2>1 DEF TypeOK, ShownThen
    <2> QED BY <1>4, <2>2, <2>3, SweptWhenIdle
  <1>5. ASSUME UNCHANGED <<artifact, call>>, SameOwners, NEW d \in Clients, call'[d] # None
        PROVE  Swept(call'[d])
    BY <1>5, SweptWhenIdle
  <1>6. ASSUME NEW u \in Users, ExpireOverview(u) \/ \E s \in Sessions : DeleteSession(u, s)
        PROVE  UNCHANGED <<artifact, call>> /\ SameOwners
    BY <1>1, <1>6, DeleteSessionDoes DEF ExpireOverview, SameOwners
  <1>7. UNCHANGED vars => UNCHANGED <<artifact, call>> /\ SameOwners
    BY DEF vars, SameOwners
  <1>8. ASSUME NEW c \in Clients, NEW u \in Users, NEW id \in Ids, NEW body \in Bodies, NewArtifact(c, u, id, body),
               NEW d \in Clients, call'[d] # None
        PROVE  Swept(call'[d])
    <2>1. Noting(c, "wrote") /\ call[c] = None /\ call'[c] = None
      BY <1>1, <1>8, NewArtifactDoes
    <2>2. d # c /\ call[d] # None
      BY <1>8, <2>1 DEF Noting
    <2>3. SameCall(call'[d], call[d]) /\ call'[d].meanwhile # {}
      BY <1>1, <2>1, <2>2, OtherDrops DEF Notes
    <2> QED BY <2>2, <2>3, SweptWhenNoted
  <1>9. \A d \in Clients : call'[d] # None => Swept(call'[d])
    BY <1>1, <1>2, <1>3, <1>4, <1>5, <1>6, <1>7, <1>8, StepIsOneOf
  <1> QED BY <1>1, <1>9, SweptIsInv

\* A batch that nothing disturbed leaves no team on display that names the sessions
\* it archived, and none of the caller's own that names those it deleted.
THEOREM BatchesLeaveNothing == Spec => BatchCleansRosters
  <1> DEFINE Clean == \A c \in Clients :
          (At(c, "done") /\ call'[c] = None /\ Undisturbed(c)) =>
             \A id \in AllIds : Shown(id) =>
                /\ call[c].kind = "batchArchive" => InRoster(Body(id)) \cap call[c].some = {}
                /\ call[c].kind = "batchDelete" /\ artifact[id].owner = call[c].by =>
                      InRoster(Body(id)) \cap call[c].some = {}
  <1>1. Init => BatchInv
    <2> SUFFICES ASSUME Init PROVE BatchInv
      OBVIOUS
    <2>1. \A c \in Clients : call[c] = None
      BY DEF Init
    <2> QED BY <2>1, InitTyped DEF BatchInv
  <1>2. BatchInv /\ [Next]_vars => BatchInv' /\ [Clean]_vars
    <2> SUFFICES ASSUME BatchInv, [Next]_vars PROVE BatchInv' /\ Clean
      OBVIOUS
    <2>1. BatchInv'
      BY StepKeepsBatches
    <2>2. Clean
      BY DEF BatchInv, FindsAll, Ordered, Sweeping, Touches, At, Undisturbed
    <2> QED BY <2>1, <2>2
  <1> QED BY <1>1, <1>2, PTL DEF Spec, BatchCleansRosters
====
