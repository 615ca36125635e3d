------------------------------- MODULE Friends -------------------------------
(***************************************************************************)
(* Friendship of users: how each user stands to each other (friendAdd,     *)
(* friendRemove), and the notices in the feed of the one it concerns, at   *)
(* most one per relationship a day (friendNotification, feedPost).  Every  *)
(* operation is one serializable transaction.                              *)
(***************************************************************************)
EXTENDS Absent, Naturals, FiniteSets

CONSTANTS
    Users,          \* accounts
    Cooldown,       \* the 24 hours between two notices, in hours of the model
    MaxHour,        \* bound of the model: its last hour
    MaxPosts        \* bound of the model: items one feed ever gets

\* The row one user has of another.
Standings == {"none", "requested", "pending", "friend", "rejected"}
Standing == [status : Standings, lastNotifiedAt : Nat \cup {None}]

ASSUME FriendsAssumption == Cooldown \in Nat /\ None \notin Nat \cup Standing

VARIABLES
    relation,       \* the row of each pair of users, None: there is none
    feed,           \* the items in the feed of each user
    feedSeq,        \* the counter of the newest item of each feed
    hour,           \* the clock
    asked           \* history: pairs <<a, b>> such that a called friendAdd for b

friendVars == <<relation, feed, feedSeq, hour, asked>>

Pairs == {p \in Users \X Users : p[1] # p[2]}

Status(rows, a, b) == IF rows[a, b] = None THEN "none" ELSE rows[a, b].status

\* relationshipSet: a row that was there keeps the time of its last notice.
Set(rows, a, b, status) ==
    [rows EXCEPT ![<<a, b>>] = [status |-> status,
                            lastNotifiedAt |-> IF @ = None THEN None ELSE @.lastNotifiedAt]]

\* shouldSendNotification, to a about b.
ShouldNotify(rows, a, b) ==
    /\ rows[a, b] # None /\ rows[a, b].status # "rejected"
    /\ rows[a, b].lastNotifiedAt = None \/ hour - rows[a, b].lastNotifiedAt > Cooldown

\* feedPost: an item replaces the one of the same kind about the same user.
\* The receivers are pairs <<a, b>>: a hears about b.
Post(rows, kind, receivers) ==
    LET told == {p \in receivers : ShouldNotify(rows, p[1], p[2])}
        Hears(u) == {p \in told : p[1] = u}
    IN  /\ feedSeq' = [u \in Users |-> feedSeq[u] + Cardinality(Hears(u))]
        /\ \A u \in Users : feedSeq'[u] <= MaxPosts
        /\ feed' = [u \in Users |->
               {item \in feed[u] : ~\E p \in Hears(u) : item.kind = kind /\ item.about = p[2]}
               \cup {[kind |-> kind, about |-> p[2], counter |-> feedSeq'[u], createdAt |-> hour] : p \in Hears(u)}]
        /\ relation' = [p \in Pairs |-> IF p \in told THEN [rows[p] EXCEPT !.lastNotifiedAt = hour] ELSE rows[p]]

\* Variant: a request is accepted when there is any sign of one.
WantsOrMay(a, b) == Status(relation, a, b) \in {"requested", "pending"}

Wants(a, b) == Status(relation, a, b) = "requested"

\* friendAdd, case 1: the request of the other user is accepted.
Accept(a, b) ==
    /\ Wants(b, a)
    /\ Post(Set(Set(relation, b, a, "friend"), a, b, "friend"), "friend_accepted", {<<a, b>>, <<b, a>>})
    /\ asked' = asked \cup {<<a, b>>}
    /\ UNCHANGED hour

MayAsk(a, b) == ~Wants(b, a) /\ Status(relation, a, b) \in {"none", "rejected"}

\* friendAdd, case 2: a request is made, whatever the other user's answer to
\* an earlier one was.
AskFriend(a, b) ==
    /\ MayAsk(a, b)
    /\ LET mine == Set(relation, a, b, "requested")
           rows == IF Status(mine, b, a) = "none" THEN Set(mine, b, a, "pending") ELSE mine
       IN  Post(rows, "friend_request", {<<b, a>>})
    /\ asked' = asked \cup {<<a, b>>}
    /\ UNCHANGED hour

\* friendAdd, otherwise: nothing changes.
AskAgain(a, b) ==
    /\ ~Wants(b, a) /\ ~MayAsk(a, b)
    /\ asked' = asked \cup {<<a, b>>}
    /\ UNCHANGED <<relation, feed, feedSeq, hour>>

\* The one that was left appears as the one that asks.
Unfriended(a, b) == Set(Set(relation, b, a, "requested"), a, b, "pending")

\* A request that is turned down, unless it was withdrawn, is forgotten.
TurnedDown(a, b) ==
    LET mine == Set(relation, a, b, "none")
    IN  IF Status(relation, b, a) = "rejected" THEN mine ELSE Set(mine, b, a, "none")

\* friendRemove: withdraws a request, ends a friendship or turns a request down.
RemoveFriend(a, b) ==
    /\ \/ Status(relation, a, b) = "requested" /\ relation' = Set(relation, a, b, "rejected")
       \/ Status(relation, a, b) = "friend" /\ relation' = Unfriended(a, b)
       \/ Status(relation, a, b) = "pending" /\ relation' = TurnedDown(a, b)
    /\ UNCHANGED <<feed, feedSeq, hour, asked>>

HourPasses ==
    /\ hour < MaxHour /\ hour' = hour + 1
    /\ UNCHANGED <<relation, feed, feedSeq, asked>>

FriendsInit ==
    /\ relation = [p \in Pairs |-> None]
    /\ feed = [u \in Users |-> {}]
    /\ feedSeq = [u \in Users |-> 0]
    /\ hour = 0 /\ asked = {}

FriendsNext ==
    \/ \E p \in Pairs : \/ Accept(p[1], p[2]) \/ AskFriend(p[1], p[2]) \/ AskAgain(p[1], p[2])
                        \/ RemoveFriend(p[1], p[2])
    \/ HourPasses

FriendsSpec == FriendsInit /\ [][FriendsNext]_friendVars

-----------------------------------------------------------------------------
(* Properties.                                                              *)

\* Whatever two users ask, accept, withdraw and end in whatever order, they
\* are friends of each other or neither is a friend; both asked at some time;
\* and they never both wait for each other's answer.
FriendsAreMutual ==
    \A p \in Pairs :
        LET mine == Status(relation, p[1], p[2])  theirs == Status(relation, p[2], p[1])
        IN  /\ mine = "friend" => theirs = "friend" /\ p \in asked
            /\ ~(mine = "requested" /\ theirs = "requested")

\* One that has a request to answer can see the request: someone that stands
\* as "pending" faces a request, or one that was withdrawn.
PendingHasARequest ==
    \A p \in Pairs : Status(relation, p[1], p[2]) = "pending" =>
                         Status(relation, p[2], p[1]) \in {"requested", "rejected"}

\* A user hears of another user at most once within the cooldown, whatever
\* becomes of the relationship in between.
OneNoticeADay ==
    \A u \in Users : \A new \in feed'[u] \ feed[u], old \in feed[u] :
        new.about = old.about => new.createdAt - old.createdAt > Cooldown

\* The two sides of a friendship agree, and neither floods the other.
FriendshipIsMutual == [][FriendsAreMutual' /\ PendingHasARequest' /\ OneNoticeADay]_friendVars

=============================================================================
