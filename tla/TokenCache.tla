----------------------------- MODULE TokenCache -----------------------------
(***************************************************************************)
(* The cache of verified tokens: a bounded map whose entries expire, from  *)
(* which the least recently used one goes when it is full.  A token that is *)
(* not there is verified while others come and go, and then put.           *)
(***************************************************************************)
EXTENDS Naturals, FiniteSets

CONSTANTS
    Tokens,
    MaxSize, TokenTTL,
    MaxClock       \* bound on the time of a behaviour

ASSUME TokensAssumption == MaxSize \in Nat /\ TokenTTL \in Nat

VARIABLES
    cachedAt,      \* when each token in the cache was put there
    lastAccessed,  \* and when it was last looked up
    verifying,     \* the tokens that await their verification, each once or more
    clock

tokenVars == <<cachedAt, lastAccessed, verifying, clock>>

Cached == DOMAIN cachedAt
Expired(t) == clock - cachedAt[t] > TokenTTL

\* Variant: the token that was cached first goes.
EldestOfAll == {t \in Cached : cachedAt[t] < clock /\ \A s \in Cached : cachedAt[t] <= cachedAt[s]}

\* Only a token that was not looked up in this very millisecond can be the oldest.
Oldest == {t \in Cached : lastAccessed[t] < clock /\ \A s \in Cached : lastAccessed[t] <= lastAccessed[s]}

Full == Cardinality(Cached) >= MaxSize

\* evictLRUIfNeeded, whose victim may be the token itself, then the entry is set.
Put(t) ==
    /\ \E gone \in IF Full /\ Oldest # {} THEN {{o} : o \in Oldest} ELSE {{}} :
          LET kept == (Cached \ gone) \cup {t}
          IN  /\ cachedAt' = [s \in kept |-> IF s = t THEN clock ELSE cachedAt[s]]
              /\ lastAccessed' = [s \in kept |-> IF s = t THEN clock ELSE lastAccessed[s]]
    /\ UNCHANGED clock

Drop(gone) ==
    /\ cachedAt' = [t \in Cached \ gone |-> cachedAt[t]]
    /\ lastAccessed' = [t \in Cached \ gone |-> lastAccessed[t]]
    /\ UNCHANGED clock

CreateToken(t) == Put(t) /\ UNCHANGED verifying

\* The token is in the cache.
VerifyToken(t) ==
    /\ t \in Cached /\ ~Expired(t)
    /\ lastAccessed' = [lastAccessed EXCEPT ![t] = clock]
    /\ UNCHANGED <<cachedAt, verifying, clock>>

\* It is not, or expired and goes: its verification begins.
MissToken(t) ==
    /\ t \in Cached => Expired(t)
    /\ Drop({t})
    /\ verifying' = verifying \cup {t}

\* One verification is over; another one of the same token may still be under way.
Answered(t) == t \in verifying /\ verifying' \in {verifying, verifying \ {t}}

VerifiedToken(t) == Answered(t) /\ Put(t)

RefuseToken(t) == Answered(t) /\ UNCHANGED <<cachedAt, lastAccessed, clock>>

InvalidateToken(t) == t \in Cached /\ Drop({t}) /\ UNCHANGED verifying
CleanupExpiredTokens == Drop({t \in Cached : Expired(t)}) /\ UNCHANGED verifying

Pass == clock < MaxClock /\ clock' = clock + 1 /\ UNCHANGED <<cachedAt, lastAccessed, verifying>>

TokensInit == cachedAt = <<>> /\ lastAccessed = <<>> /\ verifying = {} /\ clock = 0

TokensNext ==
    \/ \E t \in Tokens :
          \/ CreateToken(t) \/ VerifyToken(t) \/ MissToken(t)
          \/ VerifiedToken(t) \/ RefuseToken(t) \/ InvalidateToken(t)
    \/ CleanupExpiredTokens \/ Pass

TokensSpec == TokensInit /\ [][TokensNext]_tokenVars

-----------------------------------------------------------------------------
(* Properties.                                                              *)

\* The cache grows beyond its size only in a burst: when every entry was used
\* in the same millisecond, so that none is older than now.
OverflowsOnlyInABurst ==
    Cardinality(Cached') > Cardinality(Cached) /\ Cardinality(Cached') > MaxSize =>
        \A t \in Cached : lastAccessed[t] = clock

\* An entry is new, or was put again while a second verification was under way.
IsPut(t) == t \notin Cached \/ cachedAt'[t] # cachedAt[t]

\* A token in use is not evicted for one that is idle: whoever goes as another
\* is put was not used later than those that stay, and no two go.
EvictsTheIdle ==
    (\E t \in DOMAIN cachedAt' : IsPut(t)) =>
        \A t \in Cached \ DOMAIN cachedAt' :
            /\ \A s \in Cached \cap DOMAIN cachedAt' : lastAccessed[t] <= lastAccessed'[s]
            /\ Cached \ {t} \subseteq DOMAIN cachedAt'

\* The bounded cache bounds, and at the cost of the tokens least in use.
EvictionIsFair == [][OverflowsOnlyInABurst /\ EvictsTheIdle]_tokenVars

=============================================================================
