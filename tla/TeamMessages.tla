---------------------------- MODULE TeamMessages ----------------------------
(***************************************************************************)
(* The stored messages of a team (teamMessagesRoutes): they are kept under *)
(* keys that order by the time of the post and then by the message's id,   *)
(* and are read backwards a page at a time, possibly through a filter by   *)
(* scope, while new ones arrive.                                           *)
(***************************************************************************)
EXTENDS Absent, Naturals, FiniteSets, FiniteSetsExt

CONSTANTS
    Readers,        \* clients that page through the messages
    MaxArrivals,       \* bound of the model: messages that arrive while they read
    Limit,          \* messages of a page
    Scopes,         \* of messages: "here" is the filter's, "global" all may see, "corrupt" none can read
    MaxStamp        \* bound of the model: the millisecond of the newest messages

\* How far a reader has paged.
Walk == [filter : {None} \cup [includeGlobal : BOOLEAN], cursor : Nat \cup {None}, got : SUBSET Nat,
         twice : SUBSET Nat, start : SUBSET Nat, cut : BOOLEAN, more : BOOLEAN]

ASSUME ChatAssumption ==
    Limit \in Nat \ {0} /\ MaxStamp \in Nat /\ None \notin Nat \cup Walk \cup [includeGlobal : BOOLEAN]

VARIABLES
    chat,           \* the stored messages: the scope of each key
    arrivals,       \* how many messages arrived since the beginning
    walk            \* how far each reader has paged

chatVars == <<chat, arrivals, walk>>

\* team_messages.<team>.<timestamp>.<id>; two ids are enough for a tie.
Key(stamp, id) == 2 * stamp + id
Stamp(key) == key \div 2

\* matchesTeamScopeFilter: no filter lets everything pass that can be read.
InScope(scope, filter) ==
    /\ scope # "corrupt"
    /\ \/ filter = None
       \/ scope = "global" /\ filter.includeGlobal
       \/ scope = "here"

\* A message is stored under the time it arrives at (see TeamPosts).
StorePost(scope, id) ==
    /\ arrivals < MaxArrivals /\ Key(MaxStamp, id) \notin DOMAIN chat
    /\ chat' = [k \in DOMAIN chat \cup {Key(MaxStamp, id)} |-> IF k \in DOMAIN chat THEN chat[k] ELSE scope]
    /\ arrivals' = arrivals + 1
    /\ UNCHANGED walk

Older(key) == {k \in DOMAIN chat : key = None \/ k < key}

\* Variant: the messages are taken from the old end.
PageOfOldest(key, filter) ==
    {k \in Older(key) : InScope(chat[k], filter)
        /\ Cardinality({j \in Older(key) : j < k /\ InScope(chat[j], filter)}) < Limit}

\* The page: the newest messages that pass, at most Limit of them.
Page(key, filter) ==
    {k \in Older(key) : InScope(chat[k], filter)
        /\ Cardinality({j \in Older(key) : j > k /\ InScope(chat[j], filter)}) < Limit}

\* The messages are searched in batches of Limit.  The search is over when a
\* batch is short, also when the page was full before the end of that batch.
RunsOut(key, page) ==
    \/ Cardinality(page) < Limit
    \/ LET searched == Cardinality({k \in Older(key) : k >= Min(page)})
           batches == (searched + Limit - 1) \div Limit
       IN  batches * Limit > Cardinality(Older(key))

\* The messages are put in the order of their times, those of one time the
\* other way round; the first one is where the next page ends.
Cursor(page) == Max({k \in page : Stamp(k) = Stamp(Min(page))})

\* The page ends in the middle of a short batch: messages may be left behind.
CutShort(key, page, filter) ==
    RunsOut(key, page) /\ \E k \in Older(key) : InScope(chat[k], filter) /\ page # {} /\ k < Min(page)

StartReading(r, filter) ==
    /\ walk[r] = None
    /\ walk' = [walk EXCEPT ![r] = [filter |-> filter, cursor |-> None, got |-> {}, twice |-> {},
                                    start |-> {k \in DOMAIN chat : InScope(chat[k], filter)}, cut |-> FALSE, more |-> TRUE]]
    /\ UNCHANGED <<chat, arrivals>>

\* The client asks for the next page until there is no more.
ReadPage(r) ==
    /\ walk[r] # None /\ walk[r].more
    /\ LET w == walk[r]  page == Page(w.cursor, w.filter)
       IN  walk' = [walk EXCEPT ![r] =
               [w EXCEPT !.got = @ \cup page, !.twice = @ \cup (w.got \cap page),
                         !.cursor = IF page = {} THEN None ELSE Cursor(page),
                         !.more = page # {} /\ ~RunsOut(w.cursor, page),
                         !.cut = CutShort(w.cursor, page, w.filter)]]
    /\ UNCHANGED <<chat, arrivals>>

\* Any messages may be there from before.
ChatInit ==
    /\ \E keys \in SUBSET {Key(stamp, id) : stamp \in 0..MaxStamp, id \in 0..1} : chat \in [keys -> Scopes]
    /\ arrivals = 0
    /\ walk = [r \in Readers |-> None]

ChatNext ==
    \/ \E scope \in Scopes \ {"corrupt"}, id \in 0..1 : StorePost(scope, id)
    \/ \E r \in Readers : ReadPage(r) \/ \E filter \in {None} \cup [includeGlobal : BOOLEAN] : StartReading(r, filter)

ChatSpec == ChatInit /\ [][ChatNext]_chatVars

-----------------------------------------------------------------------------
(* Properties.                                                              *)

AllReadable == \A k \in DOMAIN chat : chat[k] # "corrupt"

\* A reader that pages back to the end has seen every message that passes its
\* filter and was there when it began, whatever was posted meanwhile, unless
\* its last page was cut off in the middle of a short batch.  Without a filter
\* or an entry that cannot be read that never happens.
ReadersMissNothing ==
    \A r \in Readers : walk[r] # None /\ ~walk[r].more =>
        /\ walk[r].cut \/ walk[r].start \subseteq walk[r].got
        /\ walk[r].filter = None /\ AllReadable => ~walk[r].cut

\* A message is on two pages only when another one was posted in the same
\* millisecond.
SeenTwiceOnlyInATie ==
    \A r \in Readers : walk[r] # None =>
        \A k \in walk[r].twice : \E j \in DOMAIN chat : j # k /\ Stamp(j) = Stamp(k)

=============================================================================
