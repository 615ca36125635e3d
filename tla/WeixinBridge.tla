------------------------------ MODULE WeixinBridge ------------------------------
(* The bridge between one user and the WeChat bot service                      *)
(* (channels/weixin/*, channels/weixin*.ts, api/routes/channelRoutes.ts): the  *)
(* credentials in the key-value store, the bridge in memory with its poll      *)
(* loop, and the requests and callbacks that read and write both across        *)
(* awaits.  The bot service itself is external.                                *)
EXTENDS Absent, Naturals, Sequences, FiniteSetsExt

CONSTANTS
    Bots,           \* the bots the user may bind
    Works,          \* slots for requests and callbacks that run at the same time
    MaxLoops,       \* bound: poll loops started
    MaxWorks,       \* bound: requests the user makes
    MaxInbox        \* bound: WeChat messages to the bots

VARIABLES
    creds,          \* channels.weixin.credentials: None or [bot, policy, context]
    bridge,         \* the user's entry of the bridges map: a loop or None
    loops,          \* every poll loop started: [bot, policy, running, over, buf, told]
    inbox,          \* the number of WeChat messages each bot was sent
    works,          \* what runs in each slot: None or [kind, ...]
    demands,        \* requests so far
    overlapped,     \* history: has work begun beside other work since the server started?
    unsaved         \* history: has the bridge a policy that could not be saved?

weixinVars == <<creds, bridge, loops, inbox, works, demands, overlapped, unsaved>>

Policies == {"all", "important", "silent"}

\* A row of credentials, a poll loop, and a request or callback under way.
Credentials == [bot : Bots, policy : Policies, context : Nat \cup {None}]
Loop == [bot : Bots, policy : Policies, running : BOOLEAN, over : BOOLEAN, buf : Nat \cup {None}, told : Seq(Nat)]
Work == [kind : {"bind"}, bot : Bots, saved : BOOLEAN] \cup [kind : {"unbind"}]
        \cup [kind : {"policy"}, policy : Policies, read : BOOLEAN, of : Credentials \cup {None}]
        \cup [kind : {"inbound"}, bot : Bots, message : Nat, read : BOOLEAN, of : Credentials \cup {None}]
        \cup [kind : {"publish"}, bot : Bots, message : Nat]
        \cup [kind : {"start"}, read : {FALSE}, of : {None}]
        \cup [kind : {"start"}, read : {TRUE}, of : Credentials]

ASSUME WeixinAssumption == None \notin Nat \cup Credentials \cup Work

Loops == DOMAIN loops
Rest == \A w \in Works : works[w] = None

----
(* The bridges map *)

\* Variant: the loop before goes on.
StoppedNot(ls) == ls

\* stopBridge: the loop notices when its poll comes back
Stopped(ls) == IF bridge = None THEN ls ELSE [ls EXCEPT ![bridge].running = FALSE]

\* startBridge stops the one before and begins to poll with an empty cursor
StartLoop(c) ==
    /\ Len(loops) < MaxLoops
    /\ loops' = Append(Stopped(loops), [bot |-> c.bot, policy |-> c.policy,
                         running |-> TRUE, over |-> FALSE, buf |-> None, told |-> <<>>])
    /\ bridge' = Len(loops) + 1
    /\ unsaved' = FALSE

\* updatePushPolicy
SetPolicy(p) ==
    loops' = IF bridge = None THEN loops ELSE [loops EXCEPT ![bridge].policy = p]

----
(* Requests.  The part before the first await runs with the request. *)

Begins(w, work) ==
    /\ works[w] = None
    /\ works' = [works EXCEPT ![w] = work]
    /\ overlapped' = (overlapped \/ ~Rest)

AsksWeixin(w, work) ==
    /\ demands < MaxWorks
    /\ demands' = demands + 1
    /\ Begins(w, work)
    /\ UNCHANGED inbox

\* POST bind saves first and starts the bridge then
AskBind(w, b) ==
    /\ AsksWeixin(w, [kind |-> "bind", bot |-> b, saved |-> FALSE])
    /\ UNCHANGED <<creds, bridge, loops, unsaved>>

\* DELETE stops the bridge first and wipes the credentials then
AskUnbind(w) ==
    /\ AsksWeixin(w, [kind |-> "unbind"])
    /\ loops' = Stopped(loops)
    /\ bridge' = None
    /\ unsaved' = FALSE
    /\ UNCHANGED creds

\* PATCH policy changes the bridge first, then reads and rewrites the credentials
AskPolicy(w, p) ==
    /\ AsksWeixin(w, [kind |-> "policy", policy |-> p, read |-> FALSE, of |-> None])
    /\ SetPolicy(p)
    /\ UNCHANGED <<creds, bridge, unsaved>>

Vacates(w) == works' = [works EXCEPT ![w] = None]

SaveBinding(w) ==
    /\ works[w] # None /\ works[w].kind = "bind" /\ ~works[w].saved
    /\ creds' = [bot |-> works[w].bot, policy |-> "all", context |-> None]
    /\ works' = [works EXCEPT ![w].saved = TRUE]
    /\ UNCHANGED <<bridge, loops, inbox, demands, overlapped, unsaved>>

StartBinding(w) ==
    /\ works[w] # None /\ works[w].kind = "bind" /\ works[w].saved
    /\ StartLoop([bot |-> works[w].bot, policy |-> "all"])
    /\ Vacates(w)
    /\ UNCHANGED <<creds, inbox, demands, overlapped>>

DeleteBinding(w) ==
    /\ works[w] # None /\ works[w].kind = "unbind"
    /\ creds' = None
    /\ Vacates(w)
    /\ UNCHANGED <<bridge, loops, inbox, demands, overlapped, unsaved>>

\* loadWeixinCredentials, of PATCH policy and of an inbound message
LoadCredentials(w) ==
    /\ works[w] # None /\ works[w].kind \in {"policy", "inbound"} /\ ~works[w].read
    /\ works' = [works EXCEPT ![w].read = TRUE, ![w].of = creds]
    /\ UNCHANGED <<creds, bridge, loops, inbox, demands, overlapped, unsaved>>

\* what is read is written back with one field changed; nothing read, nothing written
SavesBack(of, changed) == creds' = IF of = None THEN creds ELSE changed

SavePolicy(w) ==
    /\ works[w] # None /\ works[w].kind = "policy" /\ works[w].read
    /\ SavesBack(works[w].of, [works[w].of EXCEPT !.policy = works[w].policy])
    /\ Vacates(w)
    /\ unsaved' = FALSE
    /\ UNCHANGED <<bridge, loops, inbox, demands, overlapped>>

\* A query of a request fails: the request, or the command, ends there, and what it
\* did in memory stays.  (Of an inbound message nobody catches it: the process
\* ends, see RestartBridges.)
QueryFails(w) ==
    /\ works[w] # None /\ works[w].kind \in {"bind", "unbind", "policy", "start"}
    /\ works[w].kind = "bind" => ~works[w].saved
    /\ unsaved' = (unsaved \/ works[w].kind = "policy")
    /\ Vacates(w)
    /\ UNCHANGED <<creds, bridge, loops, inbox, demands, overlapped>>

----
(* The poll loop *)

\* Someone writes to a bot (external).
WriteToBot(b) ==
    /\ MapThenSumSet(LAMBDA x : inbox[x], Bots) < MaxInbox
    /\ inbox' = [inbox EXCEPT ![b] = @ + 1]
    /\ UNCHANGED <<creds, bridge, loops, works, demands, overlapped, unsaved>>

\* The service answers from the cursor; without one it begins where it likes.
From(l) == IF loops[l].buf = None THEN 0 .. inbox[loops[l].bot] ELSE {loops[l].buf}

\* A poll comes back with the next message, which is handed on without an await
\* and without another look at `running`; the loop ends after it if it was stopped.
\* The handler begins to run in a slot.
PollBrings(l, w) ==
    /\ ~loops[l].over
    /\ \E f \in From(l) :
         /\ f < inbox[loops[l].bot]
         /\ loops' = [loops EXCEPT ![l].buf = f + 1, ![l].told = Append(@, f + 1),
                                   ![l].over = ~loops[l].running]
         /\ Begins(w, [kind |-> "inbound", bot |-> loops[l].bot, message |-> f + 1,
                       read |-> FALSE, of |-> None])
    /\ UNCHANGED <<creds, bridge, inbox, demands, unsaved>>

\* It fails, times out, or brings messages that are passed over: the loop goes on,
\* at once or after a sleep, unless it was stopped.
PollBringsNothing(l) ==
    /\ ~loops[l].over /\ ~loops[l].running
    /\ loops' = [loops EXCEPT ![l].over = TRUE]
    /\ UNCHANGED <<creds, bridge, inbox, works, demands, overlapped, unsaved>>

\* A message keeps its reply context in the credentials ...
SaveContext(w) ==
    /\ works[w] # None /\ works[w].kind = "inbound" /\ works[w].read
    /\ IF works[w].of # None /\ works[w].of.context = works[w].message
       THEN UNCHANGED creds
       ELSE SavesBack(works[w].of, [works[w].of EXCEPT !.context = works[w].message])
    /\ works' = [works EXCEPT ![w] = [kind |-> "publish", bot |-> works[w].bot,
                                      message |-> works[w].message]]
    /\ UNCHANGED <<bridge, loops, inbox, demands, overlapped, unsaved>>

\* ... and is a team message then, or a command: /mute and /unmute set the policy.
PublishInbound(w) ==
    /\ works[w] # None /\ works[w].kind = "publish"
    /\ \/ Vacates(w) /\ UNCHANGED loops
       \/ \E p \in {"all", "important"} :
            /\ works' = [works EXCEPT ![w] = [kind |-> "policy", policy |-> p,
                                              read |-> FALSE, of |-> None]]
            /\ SetPolicy(p)
    /\ UNCHANGED <<creds, bridge, inbox, demands, overlapped, unsaved>>

----
(* The start of the server (startAllBridges), beside requests: the API serves   *)
(* by then.                                                                     *)

\* The server ends, by a failure nobody catches or otherwise, and starts again:
\* memory and what ran is gone.  (A start before anything was bound finds nothing.)
RestartBridges(w) ==
    /\ Len(loops) < MaxLoops
    /\ creds # None \/ loops # <<>>
    /\ loops' = [l \in Loops |-> [loops[l] EXCEPT !.running = FALSE, !.over = TRUE]]
    /\ bridge' = None
    /\ works' = [v \in Works |-> IF v = w THEN [kind |-> "start", read |-> FALSE, of |-> None] ELSE None]
    /\ overlapped' = FALSE /\ unsaved' = FALSE
    /\ UNCHANGED <<creds, inbox, demands>>

AtStart(w, read) == works[w] # None /\ works[w].kind = "start" /\ works[w].read = read

\* A bridge is started for stored credentials unless the user is silent.
StartsAgain(c) == c # None /\ c.policy # "silent"

LoadAtStart(w) ==
    /\ AtStart(w, FALSE)
    /\ IF StartsAgain(creds) THEN works' = [works EXCEPT ![w].read = TRUE, ![w].of = creds] ELSE Vacates(w)
    /\ UNCHANGED <<creds, bridge, loops, inbox, demands, overlapped, unsaved>>

\* A reply context that the credentials lack is taken from a recent message and
\* saved with the rest of what was read.
Contexts == UNION {Range(loops[l].told) : l \in Loops}

BackfillContext(w) ==
    /\ AtStart(w, TRUE) /\ works[w].of.context = None
    /\ \E c \in Contexts :
         /\ creds' = [works[w].of EXCEPT !.context = c]
         /\ works' = [works EXCEPT ![w].of = creds']
    /\ UNCHANGED <<bridge, loops, inbox, demands, overlapped, unsaved>>

StartAgain(w) ==
    /\ AtStart(w, TRUE)
    /\ StartLoop(works[w].of)
    /\ Vacates(w)
    /\ UNCHANGED <<creds, inbox, demands, overlapped>>

WeixinInit ==
    /\ creds = None
    /\ bridge = None
    /\ loops = <<>>
    /\ inbox = [b \in Bots |-> 0]
    /\ works = [w \in Works |-> None]
    /\ demands = 0
    /\ overlapped = FALSE /\ unsaved = FALSE

LoopSteps == \E l \in Loops : PollBringsNothing(l) \/ \E w \in Works : PollBrings(l, w)

WeixinNext ==
    \/ \E w \in Works :
         \/ \E b \in Bots : AskBind(w, b)
         \/ AskUnbind(w)
         \/ \E p \in Policies : AskPolicy(w, p)
         \/ SaveBinding(w) \/ StartBinding(w) \/ DeleteBinding(w)
         \/ LoadCredentials(w) \/ SavePolicy(w)
         \/ QueryFails(w)
         \/ SaveContext(w) \/ PublishInbound(w)
         \/ RestartBridges(w)
         \/ LoadAtStart(w) \/ BackfillContext(w) \/ StartAgain(w)
    \/ \E b \in Bots : WriteToBot(b)
    \/ LoopSteps

WeixinSpec == WeixinInit /\ [][WeixinNext]_weixinVars

----
(* At most one poll loop of a user is running, and it is the one that binding,  *)
(* muting and unbinding reach: none polls on behind their back.                 *)
OneLoopRuns == \A l \in Loops : loops[l].running => l = bridge

(* A loop hands the messages of its bot on one after another: none twice and    *)
(* none skipped, whatever polls fail.                                           *)
LoopsTellInOrder ==
    \A l \in Loops : \A i \in 1 .. Len(loops[l].told) - 1 :
        loops[l].told[i + 1] = loops[l].told[i] + 1

(* At rest, if no two pieces of work overlapped since the server started,       *)
(* memory and store agree: a bridge runs for the bot and with the policy that   *)
(* the credentials name, and none without credentials.  Only a policy that was  *)
(* set and could not be saved is another one, until one is saved.  (A user who  *)
(* was silent at a start has no bridge, nor one whose unbinding failed.)        *)
BridgeFollowsCredentials ==
    Rest /\ ~overlapped /\ bridge # None =>
        /\ creds # None
        /\ loops[bridge].bot = creds.bot
        /\ loops[bridge].policy = creds.policy \/ unsaved

(* Whatever overlaps, the credentials are never of no bot: a policy or a reply  *)
(* context that comes after the unbinding brings none into being.               *)
CredentialsNameABot == creds # None => creds.bot \in Bots

(* Binding, muting, unbinding and starts, overlapping and failing as they may,  *)
(* leave one bridge to one bot that tells everything once.                      *)
OneFaithfulBridge ==
    OneLoopRuns /\ LoopsTellInOrder /\ BridgeFollowsCredentials /\ CredentialsNameABot

=============================================================================
