# A formal model of the Happy server

The repository is a Node.js server (Fastify for HTTP, Socket.IO for live
connections, Prisma over Postgres or SQLite) through which terminals, daemons,
phones and teams of coding agents share sessions, machines, artifacts and a task
board.  It is one process with one event loop.  What runs between two `await`s on
the database, the network or a timer is atomic; handlers interleave at every
`await`; the database applies a query at some moment between its `await` and the
continuation.  All the models below are built on that reading: one action per
stretch of code between two awaits, and one action for the database applying a
query when its effect can be overtaken by another.

Paths in this file are relative to `src/sources/app/` unless they say otherwise.
`PROJECT.json` maps every definition to the lines it stands for.

## The system: components, state, operations

| component | state it keeps | operations | hard behaviour | what makes it correct | module |
|---|---|---|---|---|---|
| Task board operations (`task/taskOrchestrator{Operations,Execution,Propagation,Helpers}.ts`, `executionLinks.ts`, `duplicateExecution.ts`) | tasks of a team: status, parent and subtasks, depth, blockers, execution links, human lock | create, update, delete, start, complete, report and resolve a blocker, set and clear a lock, release a dead session | long sequences of legal calls by agents and people; effects that travel up a tree whose edges may be edited | one executor per task; closing a task releases it; the tree is consistent; an automatic review is justified; locks bind agents | `TaskBoard` |
| Task board storage (`task/taskOrchestrator.ts`, `taskOrchestratorStorage.ts`) | a cached board object and the version it was read at; the artifact row | load, mutate in place, compare-and-swap, broadcast, retry | the cached object is shared by concurrent requests; late loads and late saves replace newer ones; failures, restarts; other writers of the same row | saves lose nothing; nobody is told of a save that was not made; every request is answered | `BoardStore`, `BoardLedger` |
| Task routes (`api/routes/taskRoutes.ts`) | none of their own | let in, look up the acting session, operate, drop the overview, observe | roster and row are read before the operation; agents die and their late requests arrive after the release | who holds a task was entitled to take it; a dead session holds none | `TaskRoutes` over `TaskBoard` |
| Presence (`presence/*.ts`, `api/socket.ts`) | activity cache with validity and pending timestamps, grace timers, `active`/`lastActiveAt` of sessions and machines | heartbeat, flush, connect, disconnect, sweep, end, delete | timers against reconnects, batched writes against direct ones | a session that is heard of stays active, one that is silent is closed, one that ended stays ended | `Presence` |
| Versioned records (`api/socket/*UpdateHandler.ts`, `api/routes/{sessionRoutes,artifactsRoutes,accessKeysRoutes,accountRoutes}.ts`) | value and version of metadata, state, header, body, settings, access key; a sequence number per user | update with an expected version, notify | two writers with one expected version; notifications numbered after the commit | no update is lost; a version names one value; clients converge | `VersionedRecord`, `VersionedRegister` |
| Session messages (`sessionUpdateHandler.ts`, `src/sources/utils/lock.ts`), event router (`events/eventRouter.ts`) | messages with sequence numbers, a lock per socket, connections per user | send, resend with the same `localId`, deliver | the same message through two sockets | stored once, in the order it was sent, and told to those concerned | `SessionLog`, `EventRouter` |
| Sessions and machines (`api/routes/{sessionRoutes,machinesRoutes}.ts`, `session/sessionDelete.ts`) | rows with unique tags and ids | create or find by tag, register, archive, restore, remove | look-up and write are separate queries | clients that enter by one tag meet; a machine keeps its owner and leaves only offline | `SessionEntry`, `MachineRegistry` |
| RPC (`api/socket/rpcHandler.ts`) | a table from method to socket per user | register, unregister, call, disconnect | table dropped while in use | no method of a dead socket is offered; all agree who serves | `Rpc` |
| Key-value store (`kv/*.ts`), transactions (`src/sources/storage/inTx.ts`) | rows with versions, tombstones | batched mutate, get, list | serialization failures and retries, announcements out of order | nothing is overwritten unseen | `KvStore` |
| Friends (`social/*.ts`, `feed/*.ts`) | two relationship rows per pair, feed items | add, remove, notify | sequences of requests and refusals | both sides agree, notices are rare | `Friends` |
| Teams, corps, agents (`api/routes/{teamManagementRoutes,agentRoutes}.ts`, `team/*.ts`) | header and body of the team artifact, rows of sessions, a cached overview | create, add, remove, archive, restore, rename, promote, retire, batches | read-modify-write without versions, agents that register again, ids that collide | registration is exact, owners stay, batches clean rosters, the overview follows | `TeamRoster` |
| Team messages (`api/routes/teamMessagesRoutes.ts`, `team/teamScope.ts`) | messages in the key-value store | post, page | filtered paging, rosters that change during a post | readers miss nothing, the roster is told, the deleted are silent | `TeamPosts`, `TeamMessages` |
| Weixin bridge (`channels/**`, `api/routes/channelRoutes.ts`) | one poll loop per user, credentials and reply contexts | bind, unbind, policy, poll, restart | rebinding during a long poll, a row everyone rewrites | one loop runs, messages in order, memory follows the row | `WeixinBridge` |
| Accounts and sign-in (`api/routes/authRoutes.ts`, `auth/*.ts`) | accounts, recovery material, join codes, pending requests, a token cache | sign in, link, recover, join, approve, verify | chains of queries without a transaction, two devices answering, a bounded cache | accounts stay recoverable, an answer is whole, idle tokens go first | `AccountKeys`, `AuthRequests`, `TokenCache` |
| Invitations, GitHub link (`api/routes/{invitationRoutes,connectRoutes}.ts`, `github/*.ts`) | counted codes, one GitHub user per account | generate, redeem, connect, disconnect | the last use of a code, a slow upload between look-up and link | counts are respected; name, link and token agree | `Invitations`, `GithubLink` |
| Genomes and trials (`api/routes/evolutionRoutes.ts`) | versioned specifications, trials of sessions | post, patch, delete, publish, hub-create, package diff, seed, serve, start, end | two edits number their versions at once; starts and ends of trials overlap | a version that was served stays; one open trial per session | `Genomes`, `Trials` |
| Utilities (`src/sources/utils/{lru,shutdown,forever,backoff}.ts`) | a linked list and a map, shutdown handlers | add, register, shut down | operations started during shutdown | shutdown terminates | not modelled |

Interactions.  HTTP routes and socket handlers call the orchestrator; the
orchestrator writes the team's artifact row, which the team routes, the agent
routes and the artifact handlers also write; every write that clients must see
allocates a user sequence number and goes through the event router to sockets.
Task routes and team messages call `observeSessionActivity`, so presence is
driven by heartbeats, by connections and by HTTP traffic.  The Weixin bridge and
the team messages store through `kvMutate`.  Shutdown runs the handlers every
component registered.

## Modules

### TaskBoard: the operations of the task board

`board` is a function from the ids of the tasks that exist to records
(`KanbanTask` in `taskOrchestratorTypes.ts`), `used` the ids handed out so far.
Text, comments and times are left out; what duplicate detection compares (the
normalised text and the references) is the set `refs`; a blocker is counted as
open or resolved.  Each operation of `taskOrchestratorOperations.ts` and
`taskOrchestratorExecution.ts` is one action, guarded by the code's refusals, and
includes everything the code does before it saves: `CreateTask`, `UpdateTask`,
`DeleteTask`, `StartTask`, `CompleteTask`, `ReportBlocker`, `ResolveBlocker`,
`SetHumanStatusLock`, `ClearHumanStatusLock`, `ReleaseSessionTaskLocks`.  The
walks up the tree (`handleTaskCompletion`, `propagateBlockerToParent`,
`updateParentBlockedStatus`) are operators from board to board.  They are written
with recursive functions over the chain of ancestors and with least fixed points,
never with `RECURSIVE`, so that the module can be proved about.  `human`
distinguishes the requests of people, whom a lock does not bind.

`MCTaskBoard` gives the small values.  Bounds: `MaxDepth` (3 in the code, 1 or 2
here, so that the limit is met with three tasks), `MaxBlockers` (blockers a task
ever has), and the sets of values that requests carry, one choice per run.  Ids
are not handed out twice (`used`), as with the twelve random characters of
`randomKeyNaked`, of which there are finitely many (`InputsAreLegal`).

| run | instance | what it shows |
|---|---|---|
| `board` | 3 tasks, 3 levels, blockers, cascading deletion | `TypeOK`; the tree stays consistent; automatic reviews are justified |
| `board_work` | 2 tasks, 2 sessions, shared references, locks, plain deletion | one executor per task; closing a task releases it; overlapping work arises only by editing; an agent changes a locked task's status only through the tree |
| `board_moves` | 2 tasks with blockers moved under any parent, themselves included | propagation ends on cycles, and resolving one blocker never hides another |

Two or three tasks are enough because every effect involves a task, its parent
and possibly its grandparent, and the propagation treats every further ancestor
like the one below it.

### BoardStore and BoardLedger: how the board is stored

One team's board: the artifact row (`version`, `body`), the memory of
`TaskOrchestrator` (`cache`, `meta`, and `heap`, the contents of the board
objects, which requests share by reference), the requests in flight (`req`) and
the writers that bypass the orchestrator (`team`).  A board is the set of
mutations it contains, an attempt of a request is a pair of the request and the
number of the try.  The program counter of a request names the `await` it is at:
`UseCache` and `MissCache` (`getBoard`), `DbRead`, `LoadBoard` (the continuation
after the load, mutation and start of the save included), `DbSave` (the
compare-and-swap, in the database), `FinishSave`, `BroadcastFails`, `SaveFails`,
`Conflict` (with the retry of the create route), `DbFails`, `Restart`,
`TeamRead`, `TeamWrite`.  `began` is a history variable.

Loading and saving are no identity.  A board object has the columns, the tasks, the
version, the time and the member list (`taskOrchestratorStorage.ts:47-58`), and a save
writes these alone (96-101).  The name, the description, the agreements, the roles and
the corps that the team routes keep in the same body are dropped by the next save.
`Kept` is what of a body survives the load, `Outside` the team writers that change the
other keys.

`BoardLedger` is what callers may rely on: the stored board only grows, and a
caller is told its mutation is saved only when it is.  `BoardStore` implements it
(`stored <- body`, `told <- Told`) when there are no team writers.

| run | instance | what it shows |
|---|---|---|
| `store` | 2 creations, 1 update, 2 tries, 1 restart, failing queries | the ledger is implemented, everybody is answered |
| `store_team` | 1 creation, 1 update, 1 reader, 2 team writers, one of them `Outside`, 3 tries | a save loses nothing of the row but what the load drops, although it is written by others; a creation gives up only under contention |
| `store_lost` | 1 update, 1 team writer | a finding, below |

Two tries instead of three, and one restart, let every path to a conflict, a
retry and a refusal occur with three requests.

The type invariants of the other modules are proved and not repeated in a run
(`BoardStore`, `Presence`, `VersionedRecord`), parts of their runs' invariants
(`KeysTypeOK`), or parts of the inductive invariants of the services' proofs.

### TaskRoutes: what stands before and after an operation

`TaskRoutes` composes the routes with the operations of `TaskBoard`
(`Orchestrator == INSTANCE TaskBoard WITH board <- jobs ...`), so that an operation
here is the one of that module and not an abstraction of it.  A request is an
`errand`: the team's artifact is read (`ReadTeam`, which remembers the roster as the
code's `access` does), the access is decided (`Admit`), the session that the request
names is looked up (`ResolveTaskSession`, or `ResolveNobody` where the route does
without), the operation runs (`Perform`), the overview is dropped (`DropsOverview`)
or the session observed (`Observe`).  Meanwhile members come and go (`Hire`,
`Unlist`), sessions are deleted, and a session may die for good (`Lose`), after which
it sends nothing but what it sent already arrives.

`HoldersAreEntitled`, checked by the run `services`, says that a session takes a task only by
a request during which it was on the roster (or nobody was) and which arrived before its row was
deleted, and that what a dead session held stays free once the daemon has
released it (`POST .../release-locks`), unless a request of that session was still under
way.  The exceptions are the code's: `resolveTaskSession` (158-180) looks for the row
among the sessions of the caller and of the owner only, so that a deleted
session of a third account still on the roster is not noticed; and the release looks at neither
the session's state nor at what is under way.  Bounds: 2 requests at once, 2 sessions, 2 tasks, and 3
requests and changes of the team in all, enough for a request, a death and a release.

### Presence: whether a session or a machine is shown as active

One row of the tables `Session` and `Machine` (`setting.subject` says which), its
entry in `ActivityCache`, the sockets that announce themselves as the subject,
the grace timers, and the queries in flight.  A write to the row is a record in
the slot of its sender (`op`): `Send` by an action of that sender, `Apply` by the
database, `Answer` when the continuation runs and drops the cache entry (or, for
a connecting socket, installs its handlers), `Fail` instead of either.  So the
writes of the flush, of HTTP requests (`Http`, `DaemonState`), of connections (`Connect`), of
fired timers (`Fire`), of `session-end`, `report-dead-sessions`, archiving and
restoring reach the row in any order.  The read of a heartbeat that misses the
cache is split in the same way (`BeatMiss`, `Read`, `BeatCached`): the entry it
creates replaces whatever was cached meanwhile, as in the code.

Time is counted in ticks of 30 seconds, the `CACHE_TTL` and the
`UPDATE_THRESHOLD` of `sessionCache.ts`; the grace period is 3 ticks and the sweep
looks for rows of 4.  Stamps are kept as ages, saturated at `Old`; a countdown
that is due fires before the next tick.  `quiet` is a history variable: the age
of the last word of the subject, where the timer that gives a socket up counts as
one, because it stamps the row with its own time.

`setting.prompt` selects, in the initial state, the executions in which there is
word of the subject and every query is answered in each tick, nothing fails and
nobody restores a closed row; `BeatingIsNeverStale` is about those.

| run | instance | what it shows |
|---|---|---|
| `presence` | session, machine, and session with `prompt`; 1 socket, 2 queries in flight, grace 1, sweep at 3 | `lastActiveAt` is never overstated; held-back heartbeats keep a beating session out of the sweep, with a tick to spare; a timer spares a socket that reconnected |
| `presence_live` | session without sockets, 2 queries in flight, 1 failure or restart | the silent end up inactive; a beating session comes back online by its heartbeats alone |
| `presence_two_sockets` | the intervals of the code | a finding, below |

Two queries in flight (a failure counts as one of them) are enough for every pair
of writers to overtake each other; that a third adds nothing is not checked, and
`NeverOverstated` is proved for any number.  A sweep at 3 ticks instead of 4 makes
`BeatingIsNeverStale` stronger.  Liveness is checked without sockets because a
connection is one more `observe` query, which `Http` sends too.

### VersionedRecord: records whose parts have versions

One row of a table with versions: `kind` says which (`session`, `machine`,
`artifact`, `accessKey`, `account`), `row` holds a version and a value per part,
and the value is the request that wrote it.  The nine handlers and routes that
update such a row follow one plan, so they are one set of actions, and a *route*
is a record that says which steps the code takes: whether the write compares the
version again (`compares`), adds one to what it finds instead of naming the new
version (`increments`), is followed by a second read when it misses (`rereads`),
tells other clients (`announces`), and answers when nothing is found (`answers`;
`update-metadata` of a session does not).

A request goes `Begin`, `Proceed` or `Mismatch` (first query), `Store` or `Miss`
(the write), `Reread`, `Announce` (the number of `allocateUserSeq` and the event);
`AlreadyThere`, `Create` and `Delete` are the creations and deletions.  `NotFound`
may also happen to a session that exists, because `update-metadata` and
`update-state` look for active ones and `active` belongs to `Presence`.  A record that
is created again starts another `life` with versions from 1.  `Retry` is the client:
it takes the versions it was told and tries again.  Versions of numbers that are
`0` in an answer because the row is gone are modelled as nothing told.

| run | instance | what it shows |
|---|---|---|
| `records` | 3 requests over every route that compares when it writes, 1 failure | of updates that name the same version one succeeds; a mismatch tells something new; whatever the order of the events, a client that keeps the newest version has the record; everyone is served; the register is implemented |

`VersionedRegister` is what the handlers promise together: the versions of a part
are 1, 2, 3 ... without gaps, each written by one request, and a request that is told
of a success has written.  Three requests are one update, one that overtakes it
between its two queries, and one that overtakes the second read; they also make
delete, create again and update with an old version.

The run takes the routes that compare when they write.  `POST /v1/artifacts/:id`
(`artifactsRoutes.ts:502`) and the metadata route of sessions
(`sessionRoutes.ts:663`) compare versions in their first query only: of two updates
that name the same version both succeed and one is lost.  They are in the
module (`PostArtifact`, `PostMetadata`) and outside the run and the theorems, which assume
`Checks`.

### TeamRoster: teams, agents and their rosters

`artifact` holds the row of each id: its owner and its body (a team, or a
standalone agent, which is an artifact of the same table), of which the roster and
the mark of the archive are kept.  `session` is the table of sessions, `cached` the overview
kept per account (`team/teamOverview.ts`), `call` the call in each client's slot with what
it read and has still to write (`todo`: bodies, each with the owner its row had when it
was read).  A call starts with what the code does up to its
first write (`Starts`), then each query is a step: the write of a body
(`WriteBody`, with no version in its where clause), the rows of sessions
(`TouchSessions`, `RemoveSessions`, `CloseSessions`, `CloseRetired`), the list of teams of a batch
(`ListTeams`), the drop of the overview (`DropOverview`).  Any query may fail and end
the call (`Fails`), the one of the broadcast included that stands between a write and
the drop (`broadcastTeamUpdate` awaits `allocateUserSeq`, 1459-1460), and the drop itself
may fail and be caught (`DropFails`).  Modelled are
`POST /v1/corps` and the creation of teams with the fall-back to a fresh id when
the insert collides (`CreateArtifact`), `addTeamMember` with its three ways to
recognise a member, removal, archiving, restoring, renaming and deletion of
teams, the three batches over sessions, the creation, editing, archiving and
promotion of agents, the retirement of bypass agents, the deletion of a session, and the
artifact routes and socket events that create (`NewArtifact`), rewrite (`RewriteArtifact`)
and delete (`EraseArtifact`) the same rows with a body of the client's own.

| run | instance | what it shows |
|---|---|---|
| `team` | 2 clients, 2 accounts, 2 sessions, 5 worlds to begin with, 2 calls | registrations are exact; rows stay with their owners; batches clean the rosters; the overview follows |

* `RegistrationIsExact`: a registration that is sent again writes and announces
  nothing, and none that changes the roster is taken for a repetition.  In the code
  the comparison and the change are two expressions over a dozen fields (1341-1446).
* `OwnersAreForever`: the loser of an insert does not write over the row it lost to.
* `BatchCleansRosters`: after a batch that nothing disturbed no team on display
  names a session the batch archived, none of the caller's own one that it deleted.
  The order in which a batch writes its teams is left open.
* `OverviewIsCurrent`: an overview computed undisturbed is right, or a call is about
  to drop it.  `clean` says of a cached overview that nothing the code leaves open has
  happened since: a write or removal by the routes of agents and artifacts, which drop no
  overview, of a team it shows; a drop that was skipped since the broadcast before it
  failed, or that failed itself; and a write that goes over a row which another account
  made after it was removed, since it drops the overview of the owner it had read.
  After any of these the overview may be wrong until it expires, ten seconds later.

Two calls are enough for each query of one to be overtaken by the other; the worlds stand for
what longer histories leave behind (a member spawned, a planned seat, an archived
team, an agent, a bypass agent), and give the bodies a client may write.  Lost updates between two such calls are the subject of
`BoardStore` (`store_lost`).  `RosterIsTold` and the posts are in `TeamPosts`.

`RosterAssumption` says what the constants are: registrations are members, plans are
sequences of seats, the rows to begin with have bodies, an agent's with one member.

### The services around the board

Seventeen modules describe services that meet the rest only in rows that one of
them owns; two more, `SignIn` and `TeamMail`, join two each that serve one purpose
and state it.  `MCServices` extends them all and lets one of them (`part`) move in a
behaviour while the others stand still; one run, `services`, checks them.  Each
module has its own VARIABLES, `Init` and `Next`, and one action per stretch between
two awaits, or one per query where a query is all there is.  A request holds a
slot; `None` (module `Absent`) is an empty slot, a missing row or a null column.

| module | state and steps | property of the run | bounds |
|---|---|---|---|
| `AccountKeys` | rows of `Account`, the older recovery table, join codes; a call (`complete`, `exchange`, `recover`, `material`, `create`, `join`, `redeem`) goes from query to query and may break off at each | `SignInIsSound`: after a sign-in with a secret the account can be recovered; a device is handed a secret that fits; a linked identity keeps its account; a new join code closes the earlier ones | 2 callers, 2 accounts, 2 calls, accounts of every kind to begin with |
| `AuthRequests` | rows of terminal and account requests; `Request` (also the poll), `LookUp`, `Respond` | `SignInIsSound`: the answer a newcomer learns is of one account, and the same for ever unless two devices saw the request open | 3 devices of 2 accounts |
| `TokenCache` | `cachedAt`, `lastAccessed`, the verifications under way, a clock | `EvictionIsFair`: the cache grows past its limit only in a burst of one millisecond, and a put never drops a token in use for an idle one, nor two tokens | 3 tokens, limit 2, 3 milliseconds |
| `Invitations` | codes, redemptions, who was let in; `ReadAccount`, `ReadCode`, `Redeem` | `UsesAreCounted`: the count is the number of redemptions and within its limit | 2 redemptions at once, up to 2 uses |
| `GithubLink` | link and name of accounts, rows of GitHub users; look-up, disconnection, upload, linking | `ConnectionIsWhole`: name, link and stored token belong together | 2 accounts, 2 logins, 4 calls |
| `KvStore` | rows with versions, a serializable transaction per client with its snapshot and retries, announcements still to come, what each client knows | `WritersAreInformed`: no version is replaced that the writer had not heard of, and who knows the newest one knows what its write said of it: one value, or two when the batch named the key twice (`alike`) | 2 clients, 2 keys, batches of 2 that may name one key twice, 1 retry |
| `Friends` | a row per pair, feeds, hours | `FriendshipIsMutual`: both sides agree, who is asked can see it, one notice a day | 2 users, 3 hours |
| `Rpc` | connected sockets, the user's table, the table each socket holds, listeners, calls | `CallsFindTheServer`: no method of a dead socket is offered, all sockets find the same server | 3 sockets, 3 tables |
| `SessionLog` (over `EventRouter`) | a lock with its queue per socket, handlers between queries, the log, what connections heard | `LogIsFaithful`: a message sent again is stored and told once; what a socket sent keeps its order; a deleted session takes none until a sign of life; only the concerned hear | 3 messages on 2 sockets |
| `MachineRegistry` | rows, access keys, visits between look-up, write and update, what each account was told | `MachinesStay`: a machine stays with its account, leaves only while offline, and what its account was told of it is so | 3 visits of 2 accounts |
| `SessionEntry` | rows with unique tags, entries between queries, the team's header | `EntriesMeet`: one tag, one session; a link is lost only to a write that read the header before it | 2 entries, 2 tags |
| `TeamPosts` (over `EventRouter`) | roster, deleted sessions, posts between queries | `TeamMessagesArrive`: the roster is told, the deleted do not speak | 3 sessions, 1 post |
| `TeamMessages` | stored messages ordered by time and id, walks of readers | `TeamMessagesArrive`: a reader that pages to the end missed nothing it could read and sees twice only in a tie | pages of 3, up to 6 messages, some unreadable, 1 arrival |
| `WeixinBridge` | credentials, the bridges map, poll loops with cursors, works between awaits | `OneFaithfulBridge`: one loop runs, messages are told in order, at rest memory agrees with the row when nothing overlapped since the start, but for a policy whose save failed | 2 bots, 2 loops, 2 requests, 2 messages |
| `Genomes` | rows with a unique title and version, edits between queries, the hub, what caches were told to keep | `VersionsAreImmutable`: copies of one version in caches agree, a hub id is that of its row's version and specification, rows are written by their owners and the seeding | 2 edits at once, 3 rows, 3 edits and starts, 2 titles (one official), 2 copies in caches, 2 versions that come to the hub by other routes |
| `Trials` | rows, the advisory lock, requests | `StartLeavesOneOpen`: a start leaves only the trial it answers open | 2 clients, 4 trials |
| `TaskRoutes` | above | `HoldersAreEntitled` | above |

The properties name their exceptions, each the behaviour of a line of the
code, and each kept as a history variable: `raced` (two identities link one
account), `crossed` (two devices saw one request open), `stale` (a disconnection that
looked before the user moved), `pruned` (sockets connected when their table was
dropped, `socket.ts:286`), `revived` (a sign of life after a deletion), `woken` (a
machine that came online after the look-up), `amiss` (machines whose last update failed or was
overtaken by the opposite write, `machinesRoutes.ts:67`, `:359`), `overtaken` (links lost to a later
write of the header), `cut` (a page that ends in a short batch), `rewritten` (genome versions
posted anew, renamed or seeded again), `foreign` (hub entries that publication did not make, or that a
package diff changed), `overlapped` (works
of the bridge since the server started), `unsaved` (a policy set in memory whose query failed).  Without them the
properties are false of the code; the observations below tell how.

Calls and requests of a service are bounded by a constant named in its module; two actors
and as many requests let each query of one be overtaken by each of the other, and
one more (three sockets, visits, messages) lets a second overtake while the first waits.  The two
requests of each kind are alike, and no property names one, so the run exchanges them (`Symmetry`).

## Fairness

`BoardStore` assumes weak fairness of `Progress(r)` for each request: the
database answers a query it was sent and Node runs a continuation that is ready.
Nothing is assumed of clients (they may never send a request) nor of failures,
restarts and team writers.  The safety runs use the specification without
fairness.

`Presence` assumes weak fairness of the answers of the database, of the sweep and
of time, and strong fairness of `Flush`: it runs every 5 seconds and is the only
competitor of `Cleanup`, which runs every 5 minutes and would otherwise be free to
drop the entry first each time.  Heartbeats are not fair: `HeartbeatHeals` assumes
them in its premise.

`VersionedRecord` assumes weak fairness of each request's queries and of `Retry`:
`EveryoneIsServed` is about clients that do try again.  Requests are finitely many
in a run; with new ones for ever one client may lose each time, and the run does
not say otherwise.

`TeamRoster` and the services are checked for safety only, without fairness.

## What is proved

TLAPS checks the theorems for every value of the constants, from no assumption but
the named ASSUMEs of the modules, which TLC evaluates, and the premises named below.
TLC had found the properties true on the runs above before they were proved, and,
for the board, its storage, presence, the records and the teams, the inductive invariants too.

* `TaskBoardProofs`: `TypeCorrect` (`TypeOK`) and `OneExecutorAlways`
  (`OneExecutor`).  The invariant `Inv` is their conjunction: `StartTask` is safe
  only because the board is well typed, and every propagation is shown to leave
  links of other sessions alone.  One lemma per action.
  `TreeAlwaysConsistent` (`TreeIsConsistent`) assumes `UpdateParents = {}` (no
  request edits `parentTaskId`: `updateTask` would change one side of the tree
  only).  `TreeInv` adds to the tree's consistency that a task's parent id was
  handed out before, so that a new task cannot become the parent a dangling
  reference was waiting for.
  The five action properties rest on `MadeInv`, which is `Inv` and that listed
  subtasks were handed out (`ListedWereMade`).  `StepIsSound` says what any request
  may do to statuses, links and flags, with one lemma per operation: a status moves by the
  request, by a new subtask (`Opened`) or to review with every subtask done
  (`Reviewed`), and who moves to review or done is released; nobody's active links
  come to meet (`KeepsApart`), since only the session that starts becomes active
  (`OnlyJoins`).  From it follow `ClosingAlwaysReleases` (`ClosingReleases`),
  `OverlapIsByEditing` (`OverlapOnlyByEditing`), `AgentsAlwaysRespectLock`
  (`AgentsRespectLock`), `BlockedChildAlwaysVisible` (`BlockedChildStaysVisible`) and
  `AutoReviewAlwaysJustified` (`AutoReviewIsJustified`).  `BlockedChildStaysVisible`
  also needs that the recursion of `FlaggedAfter` (`updateParentBlockedStatus`) is
  defined on every board, cycles of parents included: it takes as many steps as there
  are ids, which are finitely many, and a least step without a value leads to a
  contradiction (`FlaggingExists`).
* `BoardStoreProofs`: `TypeCorrect`, `SavesNeverRemove` (`SavesOnlyAdd`),
  `RefusedOnlyUnderContention` (`GivesUpOnlyUnderContention`) and
  `LedgerImplemented` (`ImplementsLedger`, assuming `TeamWriters = {}`).  The
  invariant `IInv` says what a version number means: whatever carries the current
  version, in the cache, in a snapshot or in a save under way, contains all of
  the stored body that a load keeps (`CacheInv`, `SnapshotInv`, `SavingInv`, `SavedInv`), that an
  object nobody created yet is empty (`ObjectsInv`), and that the versions a
  request has seen account for its tries (`ContentionInv`).  None of the
  properties is inductive without it, because an old object may be put back in
  the cache at any time.
* `PresenceProofs`: `TypeCorrect` and `NeverOverstated`
  (`ActivityIsNeverOverstated`), for any intervals, sockets and number of queries.
  The row alone is not inductive; `Honest` adds that every stamp on its way to it,
  in the cache entry, in a heartbeat that asked the database or in a query that
  was sent, is at least as old as the last word, and `Tick` ages all of them alike
  (`OlderAges`: ageing is monotonic, also where ages saturate).
  `BeatersStayFresh` (`BeatingIsNeverStale`) assumes `Intervals(d)`: a heartbeat
  arrives no later than `d` after it was sent, and `Threshold + d + 1 < Timeout`.
  `PromptInv` holds while no query failed and no tick went by without a heartbeat:
  what the cache believes was sent is written or on its way (`WordArrives`), so
  that the row and every writer are within `Threshold + d + 1` of the last word.
  `TimersSpareTheConnected` (`TimerSparesTheConnected`) assumes `OneSocket`; with
  two sockets the property is false and is the finding of `presence_two_sockets`.
* `VersionedRecordProofs`: `TypeCorrect`, `NothingIsLost` (`NoLostUpdate`) and
  `RegisterImplemented` (`ImplementsRegister`), assuming `Checks`: the routes are
  among those that compare versions when they write; without it `NoLostUpdate` is
  false.  `NoLostUpdate` speaks of the history only; the invariant ties it to the
  row: no version of this life is above the current one (`Dated`), none below is
  missing (`Contiguous`), a version has one writer (`OneWriter`), and who wrote has
  not more to write, and wrote the version after the one it named (`Wrote`).  One
  lemma covers updates of one part, of two, and creations (`WrittenKeeps`), another
  their step of the register (`WrittenMaps`).  `EveryoneCanCatchUp`
  (`ClientsCanCatchUp`) needs `CatchUpInv`: in the first life of a record no request
  names a version that is not there yet (`Behind`) and one that missed did so
  because a newer version is there (`Missed`); every value of the record is its
  writer's, what was announced was written, and what was written is announced or
  will be, unless a query failed (`Noticed`).

* `AccountProofs`, who may come in and who knows whom:
  - `SigningInIsSound` (`SignInIsSound`).  `KeysInv` says that columns declared
    unique are (`ColumnsAreUnique`), and, of every call under way, what it carries
    at each of its stages (`CallOK`), what it still knows of its account if nobody
    else wrote there since (`AloneOK`), and that its identity is the account's
    unless two raced (`LinkOK`).  `NotedStep` does the rest of the work: a write
    about an account is noted in every other call on it, so that their knowledge
    need not be kept up.  `RequestsInv` adds that no device still holds as open a
    request that was authorised, unless two of them did (`crossed`).
  - `InvitationsAreCounted` (`UsesAreCounted`).  A code which is not made yet has no
    redemptions, and a redemption which has looked at a code found it made
    (`Redeeming`).
  - `ConnectionsAreWhole` (`ConnectionIsWhole`).  Each call under way carries the
    login it goes to write (`Knows`).
  - `FriendshipsAlwaysMutual` (`FriendshipIsMutual`, with its action property).
    `Mutual` relates the two rows of a pair and who asked; `Remembered` says that no
    notice in a feed is newer than the last one its row remembers.
* `SessionProofs`, sessions, their messages and the machines they run on:
  - `CallsAlwaysFindTheServer` (`CallsFindTheServer`).  A connected socket has a
    table, and it is the user's unless the user's was dropped while the socket was
    connected (`SharedTable`).
  - `LogIsAlwaysFaithful` (`LogIsFaithful`).  `LockOK`: of a connection at most one
    handler runs, and those that wait are in the queue once, in the order they
    were sent; `TurnsOK` turns that into the order of what is stored; `NumbersOK`
    and `StoreOK` say that a number is handed out once and a localId stored once;
    `HeardOK` that nothing is told which is not stored.
  - `EntriesAlwaysMeet` (`EntriesMeet`).  `GoesByTag`: an entry without an id that
    has an answer holds the session of its tag, as long as nobody moved that session
    away.
  - `MachinesAlwaysStay` (`MachinesStay`).  `ClosersLookedBefore`: who is about to
    close a machine that is online looked before it came online.  That clients were told
    rightly (`ToldOf`) is inductive as it stands, because it counts the updates that
    are under way and still true.
* `ServiceProofs`, the services of teams and users:
  - `MessagesAlwaysArrive` (`TeamMessagesArrive`).  `WalkOK`: of the messages a
    reader is meant to get it has all from its cursor on, and the older ones it has
    share the cursor's time stamp.  The lemmas are about pages: one that is not full
    had all there was (`ShortPageIsAll`), one that is full has exactly its limit
    (`PageHasItsLimit`).  `PostIsOnItsWay` does the same for a post between its
    queries.
  - `EvictionIsAlwaysFair` (`EvictionIsFair`), an action property.
  - `WritersAlwaysInformed` (`WritersAreInformed`).  `Fits`: an entry that a client
    or a snapshot has is one that the row's last write announced, or of an older
    version; `TxFits` carries that through a transaction, its retries and a batch that
    names a key twice, whose notification each client may take in either way.
  - `VersionsAlwaysImmutable` (`VersionsAreImmutable`).  Every copy that a cache or the
    hub holds has its row unless that was rewritten or the hub got it otherwise
    (`CopiesOK`), and an edit that looked knows its own row (`EditOK`).
  - `OneTrialIsOpen` (`StartLeavesOneOpen`).  A start under way has the lock, and
    has seen every trial that is open (`StarterSees`); an ending takes no lock but
    closes only.
  - `BridgeIsAlwaysFaithful` (`OneFaithfulBridge`).  A loop tells what lies below its
    cursor, once and in order (`Tells`); only the bridge's loop runs (`LoopsOK`); if
    no works overlapped since the server started, the one under way, the start itself
    included, explains each disagreement of memory and row but a policy that could not
    be saved (`InTurn`, `Halfway`, `Agree`).
  - `HoldersAlwaysEntitled` (`HoldersAreEntitled`), of `TaskRoutes`.  `TasksInv`
    takes the board's invariant `MadeInv` from `TaskBoardProofs` by `INSTANCE`, lemmas
    included, and adds that a request remembers of the roster and of the row what it was let
    in for (`Remembers`, `Welcome`), and that of a released session nothing is under
    way any more but releases, nor anything held (`Silent`, `ReleasedOK`, the board's `ReleaseFrees`).

* `TeamRosterProofs`: `RosterIsTyped` (`TypeOK`), and from it `RegistrationsAreExact`
  (`RegistrationIsExact`), which is about one roster and one registration: what a
  registration changes is at the first member that it matches (`LeastOf`), and
  after it there is nothing left that differs.
  `RowsKeepTheirOwners` (`OwnersAreForever`) needs `SeenIsOwn`: a call that goes
  to update a row saw itself as its owner, and is right unless a row was removed since.
  `OverviewsAreCurrent` (`OverviewIsCurrent`) needs `AnswersAreRight`, of overviews
  computed and not cached yet, and that every write of a team leads to a drop for the owner it read,
  short of the failures and routes that mark the overviews showing the team (`CacheIsRight`, `Doubts`).  `BatchesLeaveNothing` (`BatchCleansRosters`) needs
  that a batch to archive is about sessions of its caller (`SweepsOwn`), that the
  bodies it goes to write are clean (`FindsClean`) and that while nothing disturbs
  it nothing else is unclean (`FindsAll`).  Each action has one lemma that says
  what it does to the call, the rows and the overviews (`WriteBodyDoes` and so on),
  on which all four proofs rest.

The services are proved of their own specifications (`KeysSpec`, `RequestsSpec`,
`LogSpec`, `TasksSpec` and so on); in `services` they run side by side with the others.

Every safety and action property that a passing run checks is a theorem.  Only
model-checked are `EveryRequestIsAnswered`, `SilentIsClosed`, `HeartbeatHeals` and
`EveryoneIsServed`: they are liveness under fairness, which the prover cannot reach.

## Findings

* `store_lost`: the team routes write the board back without comparing versions
  and drop tasks saved in between.
* `presence_two_sockets`: a session that reconnects before its old socket is given
  up is taken offline when the timer of the old one fires.

## Observations

Behaviour that the models show and no statement of the repository forbids, or
that the properties name as an exception.

*Tasks.*  A creation retried after a conflict may be stored twice
(`taskRoutes.ts:428`).  A session of a third account that was deleted and is still
on the roster may act when the owner calls for it.  `observeSessionActivity` marks a row active that was
deleted meanwhile.  A session that left the roster keeps its tasks until they are
released.  Starting, completing and blocking do not drop the overview, whose
counts (`teamOverview.ts:116`) are stale until it expires.  The board object has no field for a
team's name, description, agreements, roles and corps (`teamManagementRoutes.ts:201-214,
498-523`): the next save of a task drops them from the body.  A body that cannot be parsed,
as only the artifact routes can write one, is loaded as an empty board, and the next save
replaces it (`taskOrchestratorStorage.ts:59-69`).

*Records.*  The artifact and session-metadata routes over HTTP lose updates (above).
`KvStore`: an empty value is stored as null and announced as empty; a batch that
names a key twice announces two values of one version (`kvMutate.ts:91-124`), and a client that
keeps the first later replaces the second without having seen it.

*Teams.*  The deletion of a team wipes what belongs to sessions of other accounts
while their rows stay.  A batch that deletes looks for the teams after the rows
are gone, and archived teams are passed over by every batch.  A stale write
restores an archived team.  Restoring a team marks deleted sessions active.  The
answer of `POST /v1/corps` names the id that was asked for when another was used.
Two edits of an agent count a spawn twice.  The routes of agents and the
retirement of bypass agents leave the overview as it was, and so do the artifact routes.  A
failure of `allocateUserSeq` in the broadcast skips the drop that follows it
(`teamManagementRoutes.ts:1459-1460`).  A write of a team that
another account made again after it was removed drops the overview of the old owner.

*Team messages.*  With a filter `hasMore` may be false although older messages remain,
when a page is full in the middle of a short batch (`teamMessagesRoutes.ts:181-194`); entries
that cannot be decrypted (`:176`) have the same effect without a filter.
Events go to connections of the owner only; a post that is sent again is stored twice.

*Accounts.*  Two sign-ins that complete at once on an account without recovery
material can leave a secret that does not fit the key; of two identities that
link one older account the second replaces the first; two redemptions of one join
code at once both succeed.

*Tokens.*  Two requests that check one token at once put it twice; the second put
evicts another entry although none is added (`auth.ts:188-198`), and a check that was under way
when its token was invalidated puts it back.

*Friends.*  A pair of which one was turned down and the other still waits stays so
until one of them removes the other.

*RPC.*  A socket connected while the user's table is dropped goes on with the old table
(`socket.ts:286`, `rpcHandler.ts:66`), and the others do not see its methods.

*Machines.*  New and removed machines are announced after two more queries, or one
(`machinesRoutes.ts:67-68`, `:359`): when one fails the request fails though the row is
written, and as the next registration finds version 1 and makes it 2 the machine is
never announced; a removal and a new registration may be announced in the wrong order.

*Weixin.*  A loop that was stopped still delivers what its poll returns; a user who was
silent at a restart has no bridge and gets none when the policy changes; two requests that rewrite the
credentials at once lose one change or bring deleted credentials back, and so does the start of
the server, which reads, completes and saves them while requests are served (`main.ts:43-49`).  The
bridge changes before the row: a policy or an unbinding whose query fails is in memory only
(`channelRoutes.ts:151-152, 168-173`, `weixinCommandHandler.ts:247-259`).  An inbound message whose
query fails ends the process (`weixinBridge.ts:232`, `main.ts:73-86`).

*Genomes.*  Posting an id that exists rewrites the specification of that version in
place, an edit may rename it, and each start of the server rewrites version 1 of the official
genomes (`seedSystemGenomes.ts:377-387`), although `evolutionRoutes.ts:1245` calls a version
immutable and safe to cache for ever.  The same holds of what the hub has: creation on
the hub, promotion, diffs and forks (`evolutionRoutes.ts:1341-1643`) may put another
specification under a version that was served locally, and once the local row is deleted the
hub's is served under the same header (`:1239`, `:1246`).  Rows without a namespace are not
unique, and are published under `@public`.

*Trials.*  Ending a trial takes no lock and may end one that was started after it; a start may
answer with a trial that was ended meanwhile.

## Not modelled

Text, formatting, payload builders, logging, metrics, cryptography, file storage,
the HTTP and CORS set-up, pure reads (lists, pages of sessions, history, usage
figures), and the routes that only forward to another service or make a single
statement (verdicts, scores, who may see a genome, and listings of `evolutionRoutes.ts` and
`marketListingRoutes.ts`, push and vendor tokens, voice, geo, version).  The
back-off of the bridge, its pushes to WeChat, and the shutdown are not modelled: they are
loops over external services and the end of the process.  The context of a team
(`teamContextService.ts`) is a single row with one unguarded read-modify-write, and
is left out.  `PROJECT.json` lists every part with its reason.

## Plan

Every component with a protocol of its own has a module.  What is left, in order:
the renaming of a session and the reviews of the market as further uncompared routes of
`VersionedRecord`; the safety lemmas that the four liveness properties rest on; the
shutdown handlers.
