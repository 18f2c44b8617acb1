# A TLA+ model of Scalemate

Scalemate schedules containers of its users on nodes that other users offer.
It consists of two Go services, *accounts* and *scheduler*, a command line
client and a stub of the agent that runs on a node. Each service keeps its
state in a Postgres database of its own and announces what it changes as events
on a NATS Streaming channel, which the event handlers of both services consume.

The repository is in the middle of a rewrite: `Job` and `Task` become
`Container`, gorm becomes sqlx, AMQP becomes NATS Streaming. `shared/`,
`accounts/` and `scheduler/models` are on the new side;
`scheduler/server` and `scheduler/handlers` still call the old names (they pass
`CommitAndPublish` its arguments in the old form, for example). The modules
take the control flow from each file as it stands, and the meaning of a call
from the function it names now.

## Components

| Component | State | Operations | Hard behaviour | What makes it correct | Modules |
|---|---|---|---|---|---|
| Transactional publishing (`shared/utils/utils.go`, `shared/events/producer.go`) | open transactions, the channel | `CommitAndPublish`, `Send`, `RollbackTransaction` | a database and a broker without a common transaction: each may fail after the other succeeded, or succeed and report a failure | no committed change without its events; without failures no event without its change | `EventPipeline`, `EventDelivery` |
| Consumption (`shared/events/consumer.go`, `accounts/cmd/handle_events.go`) | unacknowledged messages, position in the loop over the handlers, the errors channel | message callback, acknowledgement, `Close` | redelivery after `AckWait` while the first copy is still being handled; crash before the acknowledgement; a handler that fails in the middle of the chain; shutdown under a running callback | acknowledged only after every handler took effect; acknowledged in the end | `EventPipeline`, `Service` |
| Event handlers (`scheduler/handlers`, `scheduler/models/processed_event.go`) | `processed_events` | `Handle`, `Exists`, `Create` | two members with the same event; `Exists` outside of the transaction | effects at most once per event and handler, in the order of the chain | `EventPipeline`, `Scheduling` |
| Node streams (`scheduler/server/iterate_tasks_for_node.go`, `handle_task_created.go`, `server.go`) | `tasksForNodes` and its mutex, channels, the Node's row | `IterateTasksForNode`, `HandleTaskCreated`, `Serve` | the same Node several times at once and on several servers; channels closed under a sender; graceful stop; crash | one stream per server, which reads from the channel that the consumer finds; events in commit order; a stop completes | `NodeStream` |
| Client streams (`scheduler/server/iterate_tasks.go`, `handle_job_terminated.go`, `options.go`) | `tasksForClients`, channels | `IterateTasks`, `HandleTaskCreated`, `HandleJobTerminated` | two clients of one Job, termination between check and registration, double close, sends to a stream that has gone | a Task reaches the stream that is registered; streams end with the Job and with the server | `ClientStream` |
| Container status (`scheduler/models/container.go`) | the Container's row | `NewContainerFromDB`, `UpdateStatus`, `Update` | validation of a struct that is stale when the row is updated | the row follows `ContainerStatusTransitions` | `ContainerStatus` |
| Scheduling (`scheduler/handlers`, `scheduler/models/node.go`, `create_job.go`, `cancel_*.go`) | Nodes' available resources, statuses of Jobs and Tasks | four handlers and three RPCs | locks taken outside of the transaction, structs that were never loaded, events in any order, some of transactions that failed after `Send` | resources add up, a Job runs once, and it is not forgotten | `Scheduling`, `Placement` |
| Limit selection (`scheduler/models/limits_selector.go`, `shared/utils/bitarray`) | none | `SelectLimits` | pruning, memo, unsigned subtraction | the selection fits, and no longer one does | `SelectLimits` |
| Accounts processes (`accounts/cmd`, `accounts/server/register.go`, `accounts/handlers`) | users, replica of the nodes, the process itself | start, `Register`, `SchedulerNodeCreatedHandler`, stop | failures while it starts or stops, races on the username, events of Nodes that were rolled back | a User is announced in vain only by a failure; the replica follows the scheduler | `Service` |
| Tokens (`shared/auth`, `accounts/server/*_auth.go`, `client/*/controllers.go`) | the token file of a machine, bans, passwords | the commands of the client, `GetRequestMetadata`, `PasswordAuth`, `TokenAuth`, `ChangePassword` | concurrent commands share a file that is not written in one step, and refresh at the same time; a ban is checked before tokens are generated | a request carries the token of the user it names; a ban takes effect | `Sessions` |
| Lists (`scheduler/server/list_*.go`, `ListContainers`, `client/cmd`) | none of its own | `ListJobs`, `ListTasks`, `ListNodes` with limit and offset | COUNT, SELECT and the pages of a list are statements of their own; rows are committed later than they were created, and a status takes them into a list or out of it | no Job is missed, no page is short | `Queries` |

`PROJECT.json` has the full list of components, the definition-by-definition map
to the source, and the hazards of the code at their lines.

How they interact: an RPC or a handler changes rows in a transaction that ends in
`CommitAndPublish`; the events reach handlers through the queue subscription
(`EventPipeline` shows that this implements `EventDelivery`, and `Scheduling`, `Service`
and `ClientStream` take events as it promises: at least once, in any order);
`HandleTaskCreated` and `HandleJobTerminated` are handlers whose effect is a send on, or
a close of, an in-memory channel that an RPC reads; what transactions commit to the rows
of Nodes, Jobs and Tasks is `Placement` (`Scheduling` implements it); the client's
commands authenticate with tokens of the accounts service.

## Modules

### EventPipeline, EventDelivery

`EventDelivery` is the promise: events are announced once, a handler takes
effect once on each event it acts on, a change is committed only with all its
events announced, and an event is acknowledged after all its handlers took
effect. It knows no members, transactions, redeliveries or failures.

`EventPipeline` is the code. A *process* is a request (an RPC that runs one
transaction) or a member of the queue group, which runs the callback.

| Code | Model |
|---|---|
| `events.NewEvent` and its UUID | an element of `UUIDs` not drawn yet; `author` says whose transaction drew it |
| `NatsProducer.Send`, a message at a time | `Publish`, `PublishFails` (stored by the server or not) |
| `tx.Commit` | `Commit`, `CommitFails` (applied or not) |
| `handler.Handle` up to `Exists` | `Skip`, `NotProcessed` |
| `Begin`, updates, `processedEvent.Create` | `Handle`, `HandleDuplicate` (primary key), `RowLocked` (the INSERT waits for another open transaction with that key) |
| any error of a handler | `HandleFails` |
| `msg.Ack` | `Ack`, `AckFails` |
| NATS Streaming (external) | `Deliver`: any unacknowledged message, to any member, any number of times; deliveries in flight may come after the acknowledgement |
| process death | `Crash`; a member restarts |

What a handler does to the business tables is the counter `effects`, committed
with the `processed_events` row. The filters at the head of each `Handle` are the
relation `Subscribed`. The handlers that leave no `ProcessedEvent`
(`SchedulerNodeCreatedHandler`; `JobUpdatedHandler` when it finds no Node) are
not covered by it.

### NodeStream

One Node, several `IterateTasksForNode` calls, one or more servers with maps of
their own that share the Node's row. Every step between two accesses to shared
state is an action: the look-up, taking the mutex, the check of the map, the
update (which takes the row lock and makes the channel), `Send`, `Commit`, the
read of the channel under `RLock`, the loop, and the deferred function. A
channel is named by the call that made it. `HandleTaskCreated` is split at the
`RUnlock`: it looks the channel up and then blocks on it, and panics
(`SendPanics`) when it is closed. `Restart` is what a dead process leaves.
Tasks are counted, not named.

### ContainerStatus

Callers that load the Container with or without `FOR UPDATE`, ask for a status
and end in `CommitAndPublish`. The load is two queries (`LoadLabels` is the second),
`UpdateStatus` two actions: the validation against the loaded struct, and the UPDATE,
which waits for the row lock. Each query may fail, upon which the caller rolls back
(`QueryFails`), and any caller's process may end (`Restart`). A caller that has
updated the row and then fails to load the Tasks, as `CancelJob` may, returns with
its transaction open (`LoadTasksFails`): it is "leaked" and keeps the row.

### Scheduling, Placement

The rows of Nodes, Jobs and Tasks, and processes that run one handler or RPC at
a time. What a handler reads outside of its transaction (`LoadNode`, `LoadTask`,
`LoadJob`, `LoadTaskToCancel`) is a step of its own, after which it holds a struct;
what it does inside of the transaction, up to `producer.Send`, is a second step
(`JobUpdated`, `NodeUpdated`, ...) that waits for the rows it locks; the commit is
the third. `CancelJob` has one more: it locks the Job (`LoadTasks`), reads its Tasks
without a lock, and updates them later.

What a transaction writes is a record of partial tables (`Schedule`, `End`, and the
one of `TaskTerminated`) which the commit puts over the tables (`Apply`, `Write`).

| Code | Model |
|---|---|
| the statements and `producer.Send` | `Publish`: `Stage`, or `SendFails` with any part of the events out, upon which the transaction is rolled back |
| `tx.Commit`, acknowledgement | `Commit` |
| `tx.Commit` fails, or the process dies after `Send` | `Rollback`: the events stay, and a handler's message comes again |
| committed, but an error is returned or the process dies before the acknowledgement | `CommitUnacked`, then `AlreadyProcessed` |
| an error before `Send` | `Fails` |
| `LoadTasksFromDB` fails in `CancelJob` | `LoadTasksFails`: "leaked", with the row of the Job locked until the process dies |
| a status that is announced by an RPC or Node whose transaction fails | `AnnounceInVain` |

A handler that runs again draws new UUIDs, which is why `Event` has a number: an event
that was published by a transaction that failed is another one than that of
the retry, and both are handled. Two things thus set rows and events at odds
for good, and `disturbed` remembers them. An UPDATE writes what was computed from a
struct, and may undo what another transaction has committed meanwhile (it
*overtakes*): so it is with `FOR UPDATE` on `s.db` instead of `tx`
(`task_terminated.go:68`, `node_updated.go:80`), RPCs that load without a lock, and the
Node that `TaskTerminated` never loads. And the end of a Task is announced by a
transaction that is rolled back: its resources then come back twice, or while it
runs, and its Job is made PENDING or FINISHED. All other failures leave the
properties of this module as they are.

`Connect` and `Disconnect` are `IterateTasksForNode`, of which `NodeStream` has the
detail, and `StatusFollowsStream` the guards (an OFFLINE row to connect, an ONLINE
one to disconnect; on one server, without failures).

The bodies of `Node.SchedulePendingJobs`, `AllocateContainerLimit`, `NodesAvailable` and
`Schedule` are commented out in `scheduler/models` while they are moved to sqlx; the
handlers still call them, so the module takes them as they stand there. Job's
transitions and `NeedsRescheduling`, which the source no longer has, are taken from
their uses and marked external; of the statuses up to SCHEDULED the transitions are
those of `ContainerStatusTransitions` (`TableTransitions`). One resource stands for
four; hardware classes and labels are left out.

`Placement` is the promise: PENDING Jobs are placed on a Node that has room for all of
them, each with one Task and none of them while an earlier Task of it has its
resources; a Job is cancelled together with its Tasks; the resources of a Task come
back once, and its Job is then finished, or PENDING again after a failure. It has no
processes, events, locks or structs. `Scheduling` implements it as `Serial`, with the
Tasks whose terminated event is processed for `returned`: every step of `Placement` is one
commit, whose guards hold in the rows that this commit finds although they were
checked on rows read earlier.

### ClientStream

One Job, one server, and several `IterateTasks` RPCs. The steps of an RPC are
those between accesses to the database and to `tasksForClients`; the deferred
function deletes whatever channel the map has. The two handlers are split
between the look-up under `RLock` and the send or close that follows. Before it
looks for a client, `HandleTaskCreated` sends the Task to its `Node`, in the same
goroutine: `TakeTask` begins that send if the Node has a channel, and `LookupTask` comes
when the Node has read, which it need not (`NodeStream` has how it may not). A closed
channel under a sender, and a second close, end the process (`panicked`).

### Service

The life of a process of the accounts service: `ConnectDBFromEnv` with its
attempts, the broker, then either `Serve` with `Register` RPCs of one username, or
the subscription of `handle_events` with the callback, the reader of its errors,
and `Close`. `Exit` is the end of the process however it comes; it is started
again. `Send` of `Register` may fail with the event stored or not, its commit applied or
not. The scheduler creates Nodes of one name and may announce one that it
never commits.

### Sessions

Commands of the client as processes that share the token file, each with the
step at which `ioutil.WriteFile` has truncated the file and not yet written it. A
token is its user and the ticks until it expires (0 is expired). An RPC that issues
tokens is two steps: the look-up with the checks of password, refresh token and ban
(`LoginController`, `Refresh`), after which it is "allowed", and `GenerateAuthTokens`;
that of a Node has its look-up in between (`NodeLogin`, `NodeLookUp`). A ban may come between
any two. Servers do not tell access tokens from refresh tokens (`InjectClaims`), so
that both give access. What a server decides is an operator (`TokenAuth`,
`PasswordAuth`, `claimsUsernameEqual`); `Tick` lets all tokens age together.

### Queries

Rows with `created_at`, which is the time their transaction began (of two rows it may be
the same), a nullable column for the other orderings, and whether they match the
status filter; a request; and a reader who asks for page after page until one is
empty (a reader of `list --limit --offset`: the command itself makes one request).
`ListContainers` is `ListJobs` (COUNT, with its early answer) and `Select`. ORDER BY leaves the
order of equal keys to the database, NULL sorts as the greatest. An update may bring a row
into a list by status or take it out of it. Once one was taken out
(`shrunk`) the rows behind it move up, and neither property holds any more: a
page may be shorter than counted and a row be skipped.

### SelectLimits

`selectLimits` as a recursive function of the index and the resources left,
which is also the key of its cache, so that the memo cannot change a result. Bit
arrays are sets of bits (`nil` only ever stands for the empty one), amounts are
`% 2^Width`. The body of the recursion is `longestFrom`, so that proofs can speak of one
step of it; `select` maps an index to the best combination for all resources that may
be left. The state machine picks any input and calls it once.

## Runs

| Run | Instance | Shows |
|---|---|---|
| `pipeline_safety` | 1 request, 2 members, chain of 2 handlers the first of which may publish for the second, 3 UUIDs, 2 failures; symmetric in members and UUIDs; 540,000 states | type invariant, the four safety properties, and that `EventPipeline` implements `EventDelivery` |
| `pipeline_liveness` | 2 members, 1 UUID, 2 failures, fairness | `EventPipeline` implements `EventDelivery` with its fairness: every message takes effect and is acknowledged |
| `stream_safety` | 3 calls on 2 servers, 1 Task per server, 2 failures | one stream per server, reading from its own open channel; events in commit order; ONLINE only if served |
| `stream_liveness` | 2 calls on 1 server, 2 Tasks, 1 failure, fairness | a served Node is ONLINE, and every event of it is one of a change; a graceful stop completes; the consumer is not stuck |
| `container_locked` | 3 callers (user, scheduler, node), all `FOR UPDATE`, 2 failures, fairness; 15,000 states | the status follows the table; events show the row; the row is released, but for the leak of `CancelJob` |
| `container_lost` | a caller without `FOR UPDATE`; violation | see findings |
| `scheduling` | 2 processes, 2 Jobs of 1 and 2 resources of which the first is rescheduled and may be cancelled, 1 Node of 3, 2 Tasks per Job, 1 failure or crash; until rows and events are disturbed; 840,000 states | available and held resources are the capacity; a Job has one running Task; a SCHEDULED Job has a Task or an event that will end it; the committed rows implement `Placement` |
| `client_stream` | 2 streams, 1 Task, a Node that may not read it, 1 redelivery, fairness; 47,000 states | a stream that is alone is in the map; Tasks are received and reach the registered stream; streams end with the Job and with the server |
| `service` | 3 RPCs, 2 Nodes, 2 attempts, 1 signal, 2 crashes, lost commits or events stored by a `Send` that failed, 2 failures of what is tried again, fairness; 20,000 states | Users announced in vain are as few as the failures; a created Node is replicated |
| `sessions` | 2 users, one of whom may be banned and change his password, 2 commands, tokens of 1 and 2 ticks, time passes; 226,000 states | the token sent is of the user named; a banned user ends up without access, and one who is locked out stays so |
| `queries` | 3 rows, 2 users, 3 ticks, pages of 1 and 2 rows (requests for 1 and 3), with and without a filter; symmetric in rows and users; until a row leaves the list; 2,800,000 states | a list in an order of creation misses no Job; a page has the rows its count promises |
| `select_limits` | all lists of up to 4 Limits of 2 resources, requests 0 to 2, 0 to 3 available; 118,000 states | the selection fits and is best |

Why the bounds are enough: a race for a message needs two members and one message; the
events of a handler need a second UUID, and a third lets an aborted handler draw again;
two failures cover "a failure during the recovery from one". In `NodeStream` two calls
race, and the third finds what they left behind. Three callers of a Container are enough
for one to validate, one to overtake it and one to follow. In `Scheduling` two processes
overtake each other over one Node, and two Jobs fit on it together, so that one finds
what the other left; a second Task of a Job is its rescheduling, and one failure hits
any step of any of them. Of the two streams in `ClientStream` one replaces the other. In
`Service` the third client finds a name that was announced and rolled back and then
taken, and the second failure hits the recovery from the first. In `Sessions` a token is
valid, expired but refreshable, or expired for good; of the two users only one needs to
be banned, the other is who logs in besides him. In `Queries` three rows make two pages
and one row that moves between them. Every bound is a constant of its module
(`MaxFailures`, `MaxRetries`, `MaxStops`, `MaxRedeliveries`, `MaxConnects`, `UUIDs`,
`MaxTasks`, `MaxClock`, `MaxLimits`, `Requests`, `Width`, `Cancellable`, `Bannable`,
`Limits` and `Callers`), but for two constraints: `UntilDisturbed` of the `scheduling`
run and `NotShrunk` of `queries`. Their properties say nothing once rows and events were
disturbed, or a row has left the list, so what follows need not be explored.

Every property of a passing run has a mutant: a variant of one action, in the
module just before it, that a plausible bug would make of the code and that
violates the property in that run. `PROJECT.json` pairs them.

## Fairness

Goroutines keep running, so their steps are weakly fair. Strong fairness is assumed
where a resource is handed out in turn: the deliveries to a member (`Receive`; the
client library calls the callback in order), the mutex (`sync.RWMutex` lets waiting
writers go first, and readers after a writer), and the row lock of Postgres, which
queues its waiters. `Deliver` is weakly fair because the server redelivers after
`AckWait`. Nodes need not leave, RPCs need not come, and no failure is fair. In
`ClientStream` the steps of an RPC, its reads and the two consumers are weakly fair;
clients need not leave, and Nodes need not read, so that `LookupTask` is not fair and
`TaskReachesStream` has the Node that keeps the handler as its exception. In `Service`
the process is started again and its goroutines run, an event that is not acknowledged
is delivered again and again (strongly fair, as a callback that is busy or down takes it
out of reach), and neither calls nor signals need come. In `Sessions` only time passes.
All this holds without a bound on the duration of a step, which the code does not have
either.

## Findings

`container_lost`: `CancelJob` loads without a lock, so `UpdateStatus` validates a
status that is not in the row any more, and a scheduled Container is cancelled,
against the comment on `CANCELLED` in `scheduler.proto`.

What else the models show of the code, without a run of its own:

- An event published before its transaction failed is never committed. The note in
  `CommitAndPublish` (`utils.go:121`) expects it only to be early; a delay in the
  consumers, as it proposes, does not help.
- When the deferred transaction of `IterateTasksForNode` fails, or the server dies,
  the Node stays ONLINE and is refused ever after, against "Once the RPC is done
  the Node is marked as OFFLINE".
- With two servers the same Node can stream twice at once: the mutex that is held
  against it is local, and the update of the row does not check the status it
  replaces.
- `close(tasks)` comes before `delete`, and `HandleTaskCreated` sends without the
  mutex: it panics when a Node leaves, or a server stops, at that moment. The same
  holds for the channel of a client when its Job terminates, and
  `HandleJobTerminated` panics when its event comes twice before the stream has
  left the map.
- A second `IterateTasks` of a Job replaces the channel of the first, and whichever
  ends first removes the other's from the map. A Job that terminates between the
  check and the registration leaves the client waiting until the server stops. A
  client that leaves at the wrong moment blocks the consumer for good.
- `TaskTerminated` writes 0 + the Limit into a Node's resources, whatever they were;
  `NodeUpdated` allocates from resources read before its transaction. Two Jobs can
  be put where one fits.
- A terminated event may be handled before its transaction commits. `TaskTerminated` then
  reads a Task that still runs, and a Job that should be rescheduled becomes FINISHED.
- When the commit of `NodeDisconnected`, `CancelJob` or `CancelTask` fails after `Send`, the
  terminated events are out and a retry publishes them again under new UUIDs: the resources
  of a Task come back twice, and a Job that was rescheduled is made PENDING while it runs.
- A User who is banned while an RPC of his is between look-up and answer still gets a pair
  of tokens. A refresh token is accepted wherever an access token is, and lives longer.
- `JobUpdated` acknowledges a Job for which no Node is ONLINE, and leaves no trace of
  it; on a Job that is SCHEDULED already it fails for ever, as `TaskTerminated` does
  on a CANCELLED one, whose resources are then never given back.
- `CancelJob` leaves its transaction open when `LoadTasksFromDB` fails, and
  `IterateTasksForNode` when the Node is connected already.
- A callback that reports an error after `NatsSubscription.Close` sends on a closed
  channel; one that reports it while `Close` failed, or before the reader started,
  waits.
- A command that refreshes while another user logs in writes the old user's tokens
  over the new ones; two commands that write at once can leave an unreadable file.
- A request for a list without a limit has the limit 0, which goes into the query as LIMIT 0
  (`container.go:325`): it gets an empty page, against "Limit of 50 is used by default"
  (`scheduler.proto:368`, and 270 for Nodes). The commands of the client have a default of
  their own. `PageIsFull` therefore speaks of requests with a limit.
- A reader of a list who stops at `TotalCount` instead of an empty page can miss
  rows: the count is older than the page it comes with. So can one of a list by status
  when a Job changes its status meanwhile, or of Jobs of one `created_at`, whose order the
  query leaves open.
- In the client, outside of the models: the class of the `models` commands is
  shadowed and never applied, `--existing` is registered on `tasks list` instead of
  `tasks iterate`, which also ignores its first error and repeats any later one for
  ever, and port numbers are truncated to 32 bits before they are checked.

## Proofs

`EventPipelineProofs` proves, for all constants that satisfy the assumptions in
`EventPipeline` (a handler has a name of its own, requests and members differ),
that every property of `pipeline_safety` holds. The properties are not
inductive as they stand. `IInv` adds

- `TxInv`: what an open transaction has sent is in the channel, and outside of
  `publish` no transaction is open. Without it a commit could make an event
  durable that was never published.
- `WorkInv`: a member works on a message of the channel, for a handler that acts on
  it.
- `KeyInv`: a row of `processed_events` exists exactly when the effect was
  committed once, and of two members inside a transaction for the same key there
  is never a second. This is where the primary key and the lock of the INSERT are
  needed; `Exists` is not.
- `ChainInv`: what lies behind a member in the chain, or belongs to an
  acknowledged message, is processed. It gives acknowledgement and order.

Each part has a lemma with one step per action (`TypeStep`, `TxStep`, `LostStep`,
`WorkStep`, `KeyStep`, `ChainStep`); `Invariance` combines them, and the theorems
`TypeCorrect`, `NothingLost`, `ExactlyOnce`, `ChainOrder` and
`NoPhantom` follow. `Refinement` proves `Spec => ImplementsDelivery`, the safety part
of the refinement, step by step: a `Publish` is an `Announce`, a commit is a
`Change` or an `Apply`, an `Ack` is an `Acknowledge`, all else stutters.

`ContainerProofs` proves `TypeCorrect` of `ContainerStatus`, and `LockedTransitions`: if
all callers load `FOR UPDATE` the status follows the table. Its invariant says that a
caller past the load holds the lock (as does one whose transaction was leaked), so that
what it validated is still in the row at its commit. `EventsFollowRow` needs no such
hypothesis: from the UPDATE to the commit the row is locked however it was loaded
(`EventInv`), so that what was published last is what was committed last.

The same module has the lists. `PagesAreFull`: as long as no row has left the list, a row
that matches the request does so from then on (`TableInv`), so that a SELECT finds at least
what the COUNT before it has counted, and `PageInv` keeps that between the two statements.
`WalksMissNothing` needs in addition that a row's place in an order of creation only ever
moves back, by rows inserted before it or coming into the list: what a page has passed stays
passed (`PassedInv`), and an empty page lies behind all. This is where rows of one
`created_at` have to be excluded.

`NodeStreamProofs` proves the safety properties of both runs of `NodeStream`, for any
number of calls, servers and failures. A call in the section of its server's mutex
or in its transaction holds the lock (`LockInv`); `ChannelInv` says whose channel
the map has at every step and that only a call that is leaving has closed its
channel. From these two come `OneStream` and `OwnChannel`. `EventInv` puts the last
event ahead of the row between `Send` and `Commit` and nowhere else
(`EventsInCommitOrder`, `OnlineIsServed`). `OneServerInv` is needed for `StatusOfStream` only:
with one server nobody has registered while a call disconnects, and the row stays
ONLINE until that call has committed. Without failures an ONLINE row has a call
whose channel is in the map, or which has the row lock, so that no other call can be about
to commit ONLINE again.

`SchedulingProofs` proves the four properties of `Scheduling` (`TypeCorrect`,
`ResourcesAddUp`, `JobRunsOnce`, `PlacementImplemented`), for any processes, Nodes,
finitely many Containers, and any Limits, capacities and bounds. `IInv` is in two
parts:

- `TypeInv` always holds: rows, events and structs have their types, an open
  transaction writes only rows that it has locked, and locks and the unique index
  of `processed_events` keep transactions apart.
- `SafeInv` holds until rows and events are disturbed. `StagedInv` says that the
  uncommitted writes of a process are of one of three kinds: it *schedules* PENDING
  Jobs on a Node, each with one new Task, and takes their demand; it *ends* Tasks
  that run; or it *returns* the resources of one Task with its terminated event,
  and finishes or reschedules the Job. Or it has only locked a row, as `CancelJob` between its
  UPDATE and those of the Tasks, or for good. `TerminatedInv`: a Task has one terminated
  event, and has it exactly when it ended or is about to. `JobsInv`: a Job that may
  be scheduled has no Task that runs or whose event is not processed; a SCHEDULED
  one has exactly one. `AccountsInv` is the sum.

The argument has two halves. Every handler and RPC that begins a transaction
stages writes of one of the three kinds and sends one event for each Task it ends,
or sets `disturbed` (`SafelyBegins`, with one lemma per handler or RPC). Every commit
of such writes keeps the tables right (`CommitSchedules`, `CommitEnds`, `CommitReturns`),
and does not change the kind of another transaction, whose rows are locked and
whose event is another one (`CommitStaged`). It shows what `FOR UPDATE` on the Job buys
and what is lost where the code reads outside of its transaction: once `disturbed` is
set only `TypeInv` is left. A rollback is safe because what it has sent then is at most
an event that makes a handler look again: the end of a Task sets `disturbed`.

`PlacementImplemented` is the refinement. The three kinds are nearly the steps of
`Placement`: a commit that schedules is a `Place`, one that returns is a `GiveBack`, one
that ends Tasks is an `End`, or a `Cancel` if it writes the Job as well
(`SchedulesPlaces`, `EndsEnds`, `ReturnsGivesBack`). Two guards need more than the kinds
say. `IntentInv` adds them: a transaction that cancels a Job ends all Tasks of it that
run, and one that makes a Job PENDING again found its Task failed. `CreateJob`,
`ConfirmJob` and `TaskFinishes`, one step each in `Scheduling`, are `Submit`, `Confirm`
and `End`. All else leaves the four mapped variables alone, until rows and events are
disturbed, after which nothing is claimed.

`SelectLimitsProofs` proves that `SelectLimits` returns a combination that fits and that
no longer one does, for any number of Limits (their indices are `uint16`), resources,
and width of the amounts. `SelectLimitsIsBest` says so of every index and all resources
left; that is the statement which the recursion needs. Its steps are that a subtraction
after `limitFitsResources` does not wrap (`NoWrap`), that a combination with the current
Limit takes from what is left what the others request (`RequestedFacts`,
`ReducedFacts`), and that the branch which is cut had no longer result to offer. The
induction theorems of the library take an operator as parameter, which the provers
cannot instantiate. The proofs go by the set of the counterexamples, which has a minimal
or a greatest member (`Minimal`, `Greatest`): so for `selectLimits`, for the existence
of the function that its recursion defines (`SelectDef`), and for sums over finite sets,
whose definition takes the members in the order of `CHOOSE` (`SumEmpty`, `SumType`,
`SumRemove`). `SchedulingProofs` has its sums from there, by an instance.

`ClientStreamProofs`: types, and that a stream whose Job no other RPC has streamed is in
the map (`AloneReachable`); `SendingInv` is needed for the types. `ServiceProofs`:
phantoms are at most as many as failures (crashes, commits, and events stored by a
`Send` that failed) (`PhantomsByFailure`). Counting them needs who may still become one:
`RegisterInv` (at most one transaction has the username, and only what was announced is
committed) and, in `PhantomInv`, that the process which leaves without waiting has paid
for the RPC that it leaves behind. `SessionsProofs`: `OwnRequest`, as a command's tokens
are always those of the user it names (`TokensInv`), and `NoAccessComesBack`: no step
gives a banned user who has no token that a server accepts, and for whom no RPC is about
to generate any, a token of either kind. The condition on RPCs is needed, as a ban may
come between look-up and issuance.

The constants are assumed to be what the code makes them: `None` and the like are
no member of the sets they are used beside, bounds are natural numbers, calls have
a server each; servers (`NodeStream`) and Containers (`Scheduling`) are finitely many,
since sets of them are counted and summed; a Container's Limit is positive; a
Limit's requests have the width of the resources (`SelectLimits`). TLC evaluates
these assumptions in every run.

Every invariant on which a theorem rests was checked by TLC on the instance of
its run before it was proved.

Only model-checked: all liveness and the fair refinement (the proof system has no
`ENABLED`), and `CancelledOnlyIfNotScheduled`, which is violated.

## Not modelled

- The agent is a stub. Logging, request ids, views, environment variables and the
  wiring of options hold no state that anything depends on.
- Labels of Containers and Nodes: they are inserted with their row and never change.
  (`loadLabelsFromDB` does not look at `rows.Err()`: a connection lost in between leaves a
  struct with some of them.)
- Validation of requests, parsing of flags other than those of the lists, signatures of
  tokens, hashes of passwords.
- `GetJob`, `GetNode`, `GetTask` and the lists of models: one query each.
- The pool of database connections, which leaked transactions would exhaust.

## Plan

Built, in this order: `EventDelivery` and `EventPipeline` with proofs, `NodeStream`,
`ContainerStatus` with proofs, `SelectLimits`, `Scheduling`, `ClientStream`, `Service`,
`Sessions`, `Queries`; then the proofs of all of them (`ContainerProofs` has both
`ContainerStatus` and `Queries`), and `Placement` with the proof that `Scheduling`
implements it. What is left:

1. `Scheduling` takes from `NodeStream` that a Node connects only as OFFLINE and disconnects
   only as ONLINE, which holds on one server. With several, ONLINE may be committed over
   ONLINE: `Connect` would need that step too.
2. A module that composes `NodeStream` and `ClientStream` over the one consumer that sends
   to a Node before it sends to a client.
