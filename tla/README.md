# Verification of nats-control-api

TLA+ models of the stateful core of `nats-control-api` (a control plane for NATS
clusters written in Go), TLC configurations that check them on small instances,
and TLAPS proofs of what matters most for instances of every size. Paths are
relative to the repository.

## 1. The system

The program is one process: an HTTP API (gin) over services, one SQL database
(gorm, SQLite by default), two background goroutines and a changing number of
goroutines started by handlers. It manages NATS clusters it talks to over their
system accounts. A tool, `migrate_ids`, changes the database while the program is
not running.

| Component | State | Operations | Models |
|---|---|---|---|
| JWT task queue: `service/jwt_task_processor.go`, `db/jwt_task_repository.go` | table `jwt_tasks`; the goroutine's batch of row copies | insert, tick, claim, execute, complete, handle error | `TaskLifecycle`, `JWTTaskQueue` |
| JWT task service: `service/jwt_task_service.go` | none of its own | operator retry, statistics, queries | `JWTTaskQueue`, `JWTTaskStats`, `ApiHandlers` |
| Account service: `service/account_service.go` | table `accounts` | create, update, disable, enable, delete, exports and imports, associate, manual sync | `AccountJWTSync`, `AccountUsers`, `ApiHandlers` |
| JWT service and pushes: `service/jwt_service.go`, `nats/commands*.go` | the resolvers of the clusters (external) | sign, push, collect results | `AccountJWTSync`, `ApiHandlers` |
| User service: `service/user_service.go` | table `users`, creds | create, update, disable, enable, delete, creds | `AccountUsers`, `ApiHandlers` |
| JetStream management: `service/js_manage_service.go` | table `js`, streams of the clusters (external), one goroutine per request | create, update, retry, delete, compare | `JetStreamSync`, `StreamConfig`, `ApiHandlers` |
| Consumer management: `service/consumer_manage_service.go` | table `consumers`, consumers of the clusters, goroutines | the same, and pause, resume | `ConsumerSync`, `ConsumerConfig`, `ApiHandlers` |
| Cluster service: `service/cluster_service.go`, `cluster_server.go` | table `clusters` | create, update, status, test, connect | `ClusterMonitor`, `ApiHandlers` |
| Cluster monitor: `service/cluster_monitor_service.go` | `stopChan`, the round's list, table `cluster_healths` | loop, stop, manual check, dashboard, topology, queries of a cluster | `ClusterMonitor`, `ClusterTopology`, `ApiHandlers` |
| Request collector: `nats/service.go` | count, answers, channel `done`, time limit | request, callback, time-out | `RequestCollector` |
| HTTP handlers: `api/*.go` | none | 75 endpoints | `ApiHandlers`, `ApiAnswers` |
| Models and units: `pkg/models/*` | none | validation, units, durations, defaults | `StreamConfig`, `ConsumerConfig` |
| Key and JWT manager: `jwt/nats_manager.go` | keys | sign | what a JWT carries (`Signed`) |
| ID migration: `cmd/migrate_ids/main.go` | five tables, a transaction each | migrate | `IDMigration` |
| Start-up, configuration, generated documents | none | wiring | not modelled |

(`service/`, `db/`, `nats/`, `api/`, `jwt/` are under `src/internal/`, the rest under
`src/`.)

How they interact. Handlers of accounts and users write a row and then insert a
task in `jwt_tasks`, in two separate writes. The processor wakes every five
seconds, lists at most ten waiting tasks and executes them one by one. To execute
an account task it reads the account row *again*, signs a JWT of what it finds
and pushes it to the cluster of origin, or to the clusters a manual sync names.
The table is the only channel between handlers and processor. Requests for
streams and consumers do not use the queue: each handler starts a goroutine that
applies the configuration it was given to the cluster and records the outcome in
the row. The monitoring loop reads the clusters and writes health records, which
the dashboard reads. Listing the servers of a cluster waits for answers that the
NATS client hands to a callback in a goroutine of its own.

What is hard here:

- every handler is a thread of its own, reads a row, changes its copy and saves
  the whole copy; nothing runs in a transaction, and gorm's `Save` is an upsert;
- the processor saves whole rows from copies that are as old as its batch, and
  operators reset rows at the same time;
- the process may die, or a write fail, between any two writes;
- a NATS request may take effect without its answer arriving, and is repeated;
- goroutines of one record are not ordered, and what they panic of ends the process;
- a request is several steps, each may fail, and clients repeat requests;
- the monitor works from lists and copies, and saves only failures;
- a callback closes a channel that the caller waits on beside a time limit;
- configurations pass through units, defaults and normalisations before they are
  compared with what the cluster has.

For each component, what makes it correct:

- *Queue.* No write of the processor undoes an operator's or its own; a row never
  contradicts itself; a task is attempted `MaxRetries` times and no more; every
  task settles unless a fault hit it, and a fault hits one task.
- *Account sync.* A cluster that is out of step with an account has a task on its
  way; "completed" means delivered; pushes never go back in time; the system
  account is never pushed automatically.
  An export or import is as last asked for.
- *Streams and consumers.* A "pending" record has somebody working on it; "synced"
  is true; one record per place; limits asked for are limits; the comparison reports
  changes made elsewhere, and nothing else. (It does so of the fields it looks at.)
- *Users.* No user without its account. (The code leaves one way open, section 6; there
  must be no other.)
- *Monitor.* No failure is hidden, a disabled cluster is left alone, the dashboard is near the truth; the topology has
  every cluster once.
- *Collector.* An answer that was not cut short is complete; the process survives.
- *Handlers.* A client's error changes nothing, a repeated request finishes, the
  answers are the documented ones.
- *Migration.* No reference is lost, whatever fails; "complete" means complete.

`PROJECT.json` lists the hazards at their lines and the properties that cover them.

## 2. The modules

```
TaskLifecycle <--- implemented by --- JWTTaskQueue <--- instance in --- AccountJWTSync
      ^                                    ^                                ^
      | extends                            | extends                        | extends
 JWTTaskStats                    JWTTaskQueueProofs, MCJWTTaskQueue   MCAccountJWTSync
                                           ^                                ^
                                           +---- instance in --- AccountJWTSyncProofs

 JetStreamSync <- JetStreamSyncProofs, MCJetStreamSync
 ConsumerSync  <- ConsumerSyncProofs, MCConsumerSync

 AccountUsers, IDMigration                          <- StoredRecordsProofs, MCComponents
 ClusterMonitor, ClusterTopology, RequestCollector  <- ClusterProofs, MCComponents

 JWTTaskStats, ApiAnswers (extends ApiHandlers)     <- ReportsProofs, MCReports
 StreamConfig, ConsumerConfig                       <- MCReports <- ConfigProofs
```

The modules named `MC...` give the constants their values. `MCComponents` and `MCReports`
hold several components that share nothing; a variable `part`, fixed in the initial
state, says which of them is at work, so that the state spaces add up instead of
multiplying. `MCAccountJWTSync` and `MCConsumerSync` divide the requests of one component
in the same way, and let what is interchangeable (handlers at rest, names that no
request has named yet) come in a fixed order (`InOrder`).

In every module a handler, goroutine or processor is a thread, one database or
NATS call is one step, and what lies between two calls interleaves with everything
else. A definition whose comment begins with "Mutant of" is a plausible wrong
version of a definition. No specification uses it; substituting it must break a
property.

### TaskLifecycle
What `GET /jwt-tasks` promises: a task is absent, pending, processing, retrying,
completed or failed, with a number of attempts. Six actions. A step to "retrying"
leaves at least one attempt, a step to "failed" uses the last, only "failed" tasks
are reset. This is the abstract specification of the queue.

### JWTTaskQueue
`rows` is the table. `batch` and `mem` are the slice `tasks` of
`processPendingTasks` and the structs in it. `cur` and `phase` say how far
`processTask` has come, `asked` is what a retry handler holds between
`GetJWTTask` and the `UPDATE`. The actions follow the code:

| Action | Code |
|---|---|
| `CreateJWTTask` | the insert of both `createJWTTask` functions |
| `ProcessPendingTasks` | a tick; `Listings` is the query, with LIMIT and no ORDER BY |
| `ClaimTask` | `processTask` up to the dispatch; a failed save skips the task |
| `ExecuteTask(v)` | the dispatch returned `v`; results are saved first, and a failure of that save is only logged |
| `CompleteTask`, `HandleTaskError` | the final save; a failure of it leaves "processing" |
| `RetryCheck`, `RetryJWTTask` | the operator's retry, a read and a conditional `UPDATE` |
| `Crash` | the process dies and starts again |

The number of `MaxFaults` failing writes and crashes is a bound of the model; the
proofs hold for any bound. A graceful `Stop` lets the batch run on and ends with
the process, so it is a crash with fewer lost steps.

### JWTTaskStats
`GetJWTTaskStats` over `TaskLifecycle`: five queries in a row, no snapshot, each cut
at a limit. `stats` is the struct it fills in, `asked` how many of its queries (`Asked`)
it has made, `moves`, which is history, what the tasks did meanwhile.

### AccountJWTSync
Composes the queue (`INSTANCE JWTTaskQueue`, the variables shared) with the account
rows, the handlers and the resolvers. `h[c]` is a handler between its database
calls, `push` the JWT the processor has signed and the clusters still to do.
`Load`, `SaveAccount`, `CreateTask`, `CreateAccount` and `DeleteAccount` are the
steps of all the handlers of `AccountService`; the operations differ in what they
make of the row (`Applied`) and in which checks they make (`Accepted`).
`PushAccountJWTToCluster` lets a push take effect or not and be answered or not.
The version of a row is history: it says which save wrote it, and so lets the
properties compare what a cluster holds with what a task was for. So are `intended`,
what requests asked the exports and imports to be, in the order of their saves;
`missed[c]`, the ones that others changed between the read and the save of handler `c`;
and `undone[a]`, the ones that such a save has put back. `Record` keeps them, at each
save, from the requests alone and never from the copies. `MayReject` says
whether a resolver may answer a push with an error. The passing runs set it to
FALSE, see section 6.

### JetStreamSync and ConsumerSync
`rows` are the tables `js` and `consumers`, `stream` and `consumer` what one cluster
has, `h[c]` the handlers and `job[j]` the goroutines. A call to the cluster takes
effect or not and is answered or not; a creation is refused when something else is
there. A stream outlives its record, and the record that `CreateJetStream` makes of it
again has a new ID; names of consumers are unique under that ID only. So in
`ConsumerSync` stream records come and go, `StreamOf` says which stream each is of, and
two records of consumers may stand for one consumer. Nothing orders requests, so much of what one would like to hold does not
hold when they overlap: `disturbed`, a history variable, remembers the names (in
`ConsumerSync` the places, stream and name) where requests did, or where somebody
went past the records. The properties say what holds elsewhere, and
`PendingIsBeingSynced` of streams holds everywhere. `shared` remembers the places that
more than one record stood for. There a record is made false by requests for the other,
without any overlap, so `SyncedMeansInSync` leaves them out; `OutcomesAreTrue`, that a
record *becomes* "synced" only when it is true, holds there too. In `ConsumerSync` a handler or
goroutine touches (`Touches`) the place it takes its record to be at and the place the
record is at by now: a goroutine leaves its outcome on the record wherever it has
moved. A record moved twice, first away from a goroutine's place and then to a third
one, so gets "synced" at a place the goroutine never sent anything to; it takes three
places to see, and is counted as an overlap.

`ConsumerSync` adds what consumers have besides: the record of the parent stream,
which may be deleted at any time, is read after the save and stays `known` to clients;
an update that moves
a record to another name or stream, unchecked; pausing, which asks the cluster and
then saves the whole record it read before; and the panic of a goroutine that was
given no stream, which ends the process.

### StreamConfig and ConsumerConfig
A configuration as a function from field names to small values, on its way from a
request (`ValidStream`, `ValidCreate`, `ValidUpdate`) through the row (`StreamOf`,
`ConsumerOf`, the defaults of the columns), `buildStreamConfig` and
`buildConsumerConfig`, the server (external: which defaults it fills in) to the
comparison. Sizes are in thousandths of a unit with `ConvertToBytes` and
`ConvertFromBytes` in integer arithmetic (`BytesIn` is the factor of a unit); `Int32` is the conversion of
`max_msg_size`; times are in halves of a second on the cluster, in seconds in rows.
The goroutines are taken to be done before the next request: `JetStreamSync` and
`ConsumerSync` have the rest.

### AccountUsers
Creation, update and deletion of users against update and deletion of accounts. Nothing
in the database ties the two. Handlers overlap in any way; two history variables say
where a deletion did: `crossed`, the handlers of users that began before a deletion of
the account ended and had not written when it looked for users, and `exposed`, the
users that such a handler wrote. `NoOrphans`, what `DeleteAccount` documents, is refuted;
`OrphansCrossedADeletion` says that there is no other way.

### IDMigration
`id[r]` is 0 for a row with an old ID and the number of the run that gave it a new
one; `ref[x]` is the ID a reference holds. Each table is one transaction (`txId`,
`txRef`), over the rows listed at its beginning. `Abort` is a failing statement or
the end of the process; `CursorFails` the end of the loop with an error, which
`rows.Err()` would tell and nobody asks. `IdColumns` are the columns of the schema
that hold IDs, `AccountColumns`, `ClusterColumns`, ... those the statements change.

### ClusterMonitor
`cluster` is the table, `recorded` the clusters with a health record (all say
"unhealthy", none is ever deleted), `loop` the goroutine with the list of its
round, `req[h]` the handlers: updates and status changes, manual checks, the
dashboard with its two reads. `up` are the hosts that answer. The history
variables say which clusters failed their last test (`failing`), how many
automatic failures were recorded since a cluster was disabled (`late`), and what
the answered requests promised (`promised`).

### ClusterTopology
`GetClusterTopology`: gateways fetched cluster by cluster while they change
(`FetchGateways`, `GatewayChanges`), the mark each cluster gets from the connections
found *so far* (`MarkOf`), and the depth-first search, step by step: the walk over the
map comes to a cluster (`WalkTo`), a cluster is taken off the stack and visited unless
it was (`PopStack`, `Visit`), the stack is empty (`FinishGroup`). The order of map and
stack is left open. As a reference, `Component(c)` is what is in every set that contains
`c` and that no connection found leaves (`Closed`).

### RequestCollector
`RequestMessage` and the collector of `ListServers`: the goroutine of the
subscription takes an answer (`taken`), hands it to the collector, counts it and
closes the channel; the caller waits for the channel or the time limit, ends the
subscription and reads the answers twice without the lock. A read of the slice is
one step: that its header is several words which Go does not read at once is left
out.

### ApiHandlers and ApiAnswers
Each of the 75 endpoints as the script of the steps it and its service take: checks
of the request, rules about what is stored, queries, records it needs, inserts,
saves, calls that change a cluster (`erase`: a deletion there), goroutines started, each with the status codes
that its refusal and its failure are answered with, read off the handler's
comparisons of error texts; and the codes its comment documents. `ApiAnswers` runs
a script: a request may be good, malformed, unwelcome or about missing records,
steps fail, a change of a cluster may fail with a time-out and yet have taken
place, and the client repeats what failed.

## 3. What the runs check

Runs that pass:

| Run | Instance | Shows |
|---|---|---|
| `queue` | 3 tasks, one of them a user's, 2 retry handlers, 2 attempts, LIMIT 2, 1 reset, 1 fault | The copies in the batch are current, rows make sense, stranding is bounded by faults, the life cycle is implemented, every task settles (`TypeOK`, `OwnedRowsAreCurrent`, `RowsTellTheTruth`, `StrandedOnlyByFaults`, `ImplementsLifecycle`, `EverySettles`) |
| `sync` | 2 accounts (one is a system account), 2 clusters, 2 tasks, 2 handlers, 1 retry handler, 1 crash or failed write, of the processor or of a handler; in a second part 2 items, edited by handlers that overlap | Drift is covered, and ends unless a fault hits; completed means delivered, no cluster goes back, the queue is still a `JWTTaskQueue`; an export or import is as last asked for, but for those that overlapping saves put back (`DriftIsCovered`, `CompletedMeansDelivered`, `NoLostUpdate`, `ResolverNeverGoesBack`, `ImplementsQueue`, `EventuallyInSync`) |
| `jetstream` | 2 records of 1 name, 2 configurations, 2 clients, 2 goroutines, 1 fault, streams also deleted directly | A pending record has a goroutine; every synchronisation ends; where requests do not overlap "synced" is true and names are unique (`PendingIsBeingSynced`, `SyncedMeansInSync`, `OneRecordPerName`, `EverySyncEnds`) |
| `consumers` | 2 records, 2 configurations, 2 goroutines, 3 events, 1 fault; either 2 clients, 2 names and 1 record of the stream, or 1 client, 1 name and 2 records of the stream | The same, with pauses, updates that rename, and a stream whose record goes away and comes back under its old ID or another; also of two records of one consumer, where "synced" is true at the moment it is written (`SyncedMeansInSync`, `OutcomesAreTrue`, `PendingIsBeingSynced`, `EverySyncEnds`) |
| `components` | users: 2 accounts, 2 users, 2 clients; migration: six rows of the five tables, eleven references, 3 runs of the tool; monitor: 2 clusters, 2 hosts (one comes and goes), 2 handlers, 2 requests or faults; topology: 3 members, 1 gateway of another name, 1 change on the way; servers: 3 of them, 0 to 3 expected | A user without its account was written across a deletion, or read there; no reference is lost, but for the forgotten columns; "finished" means migrated; no cluster change is lost, no failure hidden, a disabled cluster is left alone, the dashboard is near the truth, every failure is seen; every cluster is in the topology once, in its component; listings of servers are complete and consistent, and only surplus answers end the process (`OrphansCrossedADeletion`, `ReferencesLead`, `FinishedMeansMigrated`, `NoLostClusterUpdate`, `NoFailureIsHidden`, `AtMostOneLateRecord`, `DashboardNearTruth`, `FailureIsSeen`, `EveryClusterOnce`, `GroupsAreComponents`, `AnswerIsConsistent`, `EnoughMeansEnough`, `NoSurplusNoPanic`) |
| `reports` | statistics: 3 tasks, 2 moves per call; answers: 75 endpoints, 1 failing step, 2 attempts; consumers and streams: up to 3 fields given by the requests, values at the boundaries | The statistics are off by at most the moves; a client's error changes nothing, repeating finishes what was begun or says what is left, but for nine endpoints; of sixteen fields of a stream every difference is reported, and after a synchronisation only those named; limits hold (`ErrorBoundedByMoves`, `ClientErrorsChangeNothing`, `RetryFinishes`, `AnswersAreDocumented`, `ComparisonIsFair`, `LimitsHold`, `DifferencesAreReported`) |

Runs that TLC refutes, where the documents or comments say more than the code does
(quoted in the findings of `PROJECT.json`):

| Run | The trace |
|---|---|
| `queue_stranded` | A task is claimed, the process dies; its row says "processing" and no query ever selects it (`ProcessingMeansBeingProcessed`) |
| `sync_disable` | A disable task completes by pushing the JWT of the disabled account: neither `ProcessAccountJWTTask` nor `CreateAccountJWT` looks at the operation or the status (`DisabledIsRemoved`) |
| `consumers_panic` | A consumer whose stream record is gone is updated; the goroutine is given a nil stream, panics and ends the process (`MissingStreamIsAnError`) |
| `users_orphan` | A deletion finds no users in an account, a user is created, the account is deleted (`NoOrphans`) |
| `reports_hidden` | One of the ten fields that `compareStreamConfigs` does not look at is changed on the cluster, and nothing is reported (`EveryDifferenceIsReported`) |
| `monitor_unhealthy` | A test fails, the cluster recovers, later tests succeed and are not saved; the cluster is still listed as "currently unhealthy" (`ListedIsUnhealthy`) |

### The bounds, and why they are enough
- *Attempts.* The code uses three. Two keep apart the first attempt, which is
  retried, and the last, which fails the task; the proofs do not depend on it, and
  `queue_stranded` and the statistics use three.
- *Tasks.* Three tasks with a LIMIT of two make a listing leave one out, so that
  fairness towards passed-over tasks is really tested. Two tasks of one account
  are enough for tasks that cross and for one task to deliver what another was
  created for.
- *Threads.* Hazards of unprotected read-change-save sequences take two threads
  and, where the processor or the monitoring loop is one of them, one handler.
- *Faults.* One fault leaves each partial state there is. A second one repeats the
  first on another task, which `StrandedOnlyByFaults` is proved for in general. An
  endpoint with one failing step and one repetition shows each half-done request.
- *Edits.* Two items, so that a save that puts one back is seen to leave the other alone.
  The processor sleeps meanwhile: it only reads accounts, and in the other part it runs
  beside the handlers. Two overlapping handlers are the race itself; a third repeats it
  (`UpdatesAreKept` is proved for any number).
- *Records of one consumer.* Three events are a creation for each of two stream records
  and an update of one, which makes the other false. One name is enough, for what moves
  between names is in the other part.
- *Statistics.* With three tasks and `StatLimit` 3 no list of the run is cut; that a cut
  keeps `ErrorBoundedByMoves` true rests on the theorem, which has any limit.
- *Configurations and items.* Two configurations tell older from newer; one item
  tells a change made from one not made. What the fields of a configuration do to
  each other takes pairs of fields: a creation gives two beside the necessary ones,
  updates one or two, three in all (`MaxGiven`, `MaxGivenStream`).
- *Numbers.* `UnitBase` is 32 instead of 1024, so that five units stay within TLC's
  integers; the 32 bits of `max_msg_size` shrink with it. Sizes are those around one
  byte, two decimals and that width; `DriftSteps` are changes made elsewhere that are
  below what is shown, and above it.
- *Migration.* Three runs: one that fails, one that repeats and one that finds nothing
  to do. Each reference column of the schema has a reference.
- *Topology.* Three members make paths that the search finds in two steps; one change
  lets the connections differ before and after it (`MaxGateways`, `MaxChanges`).
- *Collector.* With three servers, fewer, as many and more answers than expected.
- `MaxResets`, `MaxFaults`, `MaxApiFaults`, `MaxEvents`, `MaxMoves`, `MaxRuns`, `Tasks`, `Ids`,
  `Users`, `Jobs` and `part` are bounds of the models and not of the code. A request
  starts only when an identifier is left for what it will insert. `CHECK_DEADLOCK
  FALSE` is given because the models stop when identifiers, faults, events or answers
  are used up.

### Fairness
- `WF(Processor)`: the goroutine is never blocked for ever. The ticker fires every
  five seconds, a connection attempt and a push have time limits
  (`commands.go`: ten seconds for a push), database calls return. Nothing is
  assumed of the choice the LIMIT makes: that a waiting task is not passed over
  for ever follows from there being finitely many tasks and attempts.
- `WF(Handle(c))`: a handler that has begun runs to its end, but for a crash.
- `WF(Goroutine(j))`: as for the handlers; calls to the cluster have time limits.
- `WF(MonitorLoop)`: connection tests have a time limit and the sleep between rounds
  ends.
- Nothing makes clients send requests, operators retry, or hosts come back.

## 4. What is proved

`JWTTaskQueueProofs`, for any set of tasks, any limits, any number of retry handlers
and faults:

| Theorem | Statement |
|---|---|
| `QueueInvariant` | `Spec => []IInv` |
| `QueueTypes` | `Spec => []TypeOK` |
| `NoLostTaskUpdate` | `Spec => []OwnedRowsAreCurrent` |
| `TruthfulRows` | `Spec => []RowsTellTheTruth` |
| `QueueImplementsLifecycle` | `Spec => ImplementsLifecycle` |
| `FaultsBoundStrandedTasks` | `Spec => []StrandedOnlyByFaults`, for finitely many tasks |

The argument. `RowsTellTheTruth` is not inductive: the processor saves whole rows
from copies, so what a save writes depends on the copy. `OwnedRowsAreCurrent`
says that the copies are the rows. That holds because nobody but the processor
writes rows that are waiting or processing, and because the operator's `UPDATE` is
conditional on "failed", a status no row in the batch has. `ControlOK` says where the
processor is, and what it carries there. With `TypeOK` the four are inductive
(`IInv`); there is one lemma per action. The refinement uses `IInv` to see that a
step of the processor is taken from the status its copy says, and
`StrandedOnlyByFaults` that a task leaves the processor's hands in "processing" only
by a step that counts a fault.

`StoredRecordsProofs`, first for any sets of accounts, users and clients, whatever
overlaps:

| Theorem | Statement |
|---|---|
| `UsersTypes` | `Spec => []TypeOK` |
| `OrphansAreExplained` | `Spec => []OrphansCrossedADeletion` |

The property alone says nothing of the user a handler is about to write. The invariant
(`UInv`) is about accounts that are being deleted or are gone (`Doomed`): all their users
are exposed, and all handlers that may write one are crossed. An account is doomed only
by the check for users, which finds none and crosses the handlers at work; a handler that
begins later is crossed because it finds the deletion under way, or holds a copy of a
user that is exposed; and a user is put in the account by such handlers only.

and, of the migration, for any rows, references and number of runs:

| Theorem | Statement |
|---|---|
| `ReferencesSurvive` | `MigrationSpec => []ReferencesLead` |
| `MigrationIsComplete` | `MigrationSpec => []FinishedMeansMigrated` |
| `NewIdsNeverChange` | `MigrationSpec => NewIdsStay` |

`ReferencesLead` alone is not inductive, because a transaction changes copies that a
commit then makes the database. The invariant (`MInv`) says besides that inside a
transaction the copies agree with each other and keep the IDs of the new form
(`TransactionOK`), and that the tables passed so far are done, as are, in the table at
work, the rows the loop has passed (`ProgressOK`). That the statements for one table
change every column that refers to it, but for those forgotten, is the lemma
`ColumnsKnown`, a comparison of the schema with the statements.

Assumptions are those of the `ASSUME`s of the modules (`None` is not a task or a row,
limits are positive naturals, servers and tasks are finitely many, what requests give
for a number is a number), which TLC evaluates on every run.

`AccountJWTSyncProofs`, for any accounts, clusters, requests and numbers of handlers,
tasks, retries, failing writes and crashes:

| Theorem | Statement |
|---|---|
| `TypeCorrect` | `Spec => []TypeOK` |
| `SyncImplementsQueue` | `Spec => ImplementsQueue` |
| `QueueInvariantsHold` | the queue's `OwnedRowsAreCurrent` and `RowsTellTheTruth` hold here too |
| `ResolverNeverGoesBackHolds` | `Spec => ResolverNeverGoesBack` |
| `CompletedTasksAreDelivered` | `Spec => []CompletedMeansDelivered`, if `MayReject = FALSE` |
| `DriftIsAlwaysCovered` | `Spec => []DriftIsCovered`, if `MayReject = FALSE` |
| `UpdatesAreKept` | `Spec => []NoLostUpdate` |

The argument. The base (`BaseInv`) is the queue's own inductive invariant, which
`JWTTaskQueueProofs` has proved of every step of the queue, with the types, with what
accounts have been created (`HistoryOK`) and with a free task for every handler at work
(`RoomOK`). From it every step of handlers, pushes and retries is a step of the queue
or leaves it alone (`BaseStep`), which is the refinement. On top of it stand orders of
versions (`VersionsOK`): what a handler has read, what a task is for and what a cluster
holds are no newer than the row, and the JWT being pushed is no older than any of
these, since the processor reads the row again before it signs. From this follow that
clusters never go back, and, with what a push has done so far (`DeliveryOK`), that
completed tasks are delivered. `DriftIsCovered` is proved from the same invariant: a step
that makes an account differ from its cluster leaves a handler about to insert a task,
and a push that takes its coverage away ends the difference. The hypothesis is
not for convenience: a resolver's refusal is read by nobody (`MayReject`, section 6), so
without it the statements are false.

`UpdatesAreKept` has an invariant of its own (`UpdatesOK`). The row is as `intended`, but
for what is `undone`; and the copy a handler is about to save is as `intended` will be
after its request (`After`), but for what was undone or what the handler has missed. A
save puts the copy for the row, so what was missed becomes undone; what the request
itself changes is right in its copy, whatever it missed, and is no longer undone.

`ClusterProofs`, of the monitor, for any hosts and finite sets of clusters, any handlers and
numbers of requests and faults:

| Theorem | Statement |
|---|---|
| `MonitorTypeCorrect` | `MonitorSpec => []MonitorTypeOK` |
| `ChangesAreKept` | `MonitorSpec => []NoLostClusterUpdate` |
| `FailuresAreShown` | `MonitorSpec => []NoFailureIsHidden` |
| `LateRecordsAreFew` | `MonitorSpec => []AtMostOneLateRecord` |
| `DashboardIsNearTruth` | `MonitorSpec => []DashboardNearTruth` |

Each has an invariant of its own over the types, which include that every copy the
loop or a request works from is of a cluster that exists. `ChangesOK`: where no two
changes overlapped, one handler at most is changing the cluster, and its copy is the
row. `FailuresOK`: a failed test is on the list, or whoever made it is about to record
it. `LateOK`: a round names a cluster once, and not again the one it is testing; a
cluster that has had its late record is on no list any more. `DashboardOK`: what the
dashboard has computed is the arithmetic of what it read, and health records only grow.

of the collector, for any finite set of servers and any expected number:

| Theorem | Statement |
|---|---|
| `OnlySurplusPanics` | `CollectorSpec => []NoSurplusNoPanic` |
| `ListingIsComplete` | `CollectorSpec => []EnoughMeansEnough` |
| `ListingIsConsistent` | `CollectorSpec => []AnswerIsConsistent` |

The invariant (`CInv`) is a conservation law: the answers handed over are those
counted and at most the one that is not counted yet (`AnswersOK`); the channel is
closed only when enough are counted (`ChannelOK`); whatever can be parsed is collected
until there is enough of it, and no more (`CollectedOK`); what the caller has read is a
part of what was collected, and only the answer being handled can still be added
(`ReadOK`).

and of the topology, for any finite set of clusters, any gateways, and any number of
changes between the fetches:

| Theorem | Statement |
|---|---|
| `TopologyIsAccounted` | `TopologySpec => []TopologyInv` |
| `ClustersAreListedOnce` | `TopologySpec => []EveryClusterOnce` |
| `ComponentsAreGrouped` | `TopologySpec => []GroupsAreComponents` |

That every cluster is listed once is a matter of accounts (`Accounted`): what was
visited is the groups, the isolated clusters and the group being searched, which have
nothing in common, and the numbers are their cardinalities. A cluster is put on the
stack more than once, and the account holds because it is not visited twice. That
the groups are the components needs no induction over paths: the invariant
(`Searched`) says that a set no connection leaves contains each part found so far or
nothing of it, that no connection leaves a finished part, and that those of the group at
work lead to what is visited or on the stack; connections to clusters that were set aside
as isolated are excepted, which is the exception the property makes. A finished part is
then closed and in every closed set that meets it, and that is what a component is.

`JetStreamSyncProofs`, for any records, names, configurations and finite numbers of
handlers and goroutines (the run has one name):

| Theorem | Statement |
|---|---|
| `JetStreamInvariant` | `Spec => []JInv` |
| `JetStreamTypes` | `Spec => []TypeOK` |
| `PendingRecordsAreServed` | `Spec => []PendingIsBeingSynced` |
| `SyncedRecordsAreInSync` | `Spec => []SyncedMeansInSync` |
| `NamesAreUnique` | `Spec => []OneRecordPerName` |

`PendingIsBeingSynced` needs that a handler that has set a record to "pending" finds a
goroutine: the bound on goroutines counts the handlers at work too (`RoomOK`). The two
others hold for a name as long as nothing overlapped there (`Calm`): it has one
handler or goroutine at work, and one record; what the handler has read is still so;
the record is "pending" with the configuration the goroutine was given, and a success
the goroutine is about to record has taken effect; a "synced" record is what the
cluster has. What happens under one name must leave another alone, which is so because
an ID keeps its name, also when its record was deleted and is saved again by a handler
that read it before (`NamesFixed`). The lemmas follow the code: a request is taken
(`TakeOK`), a handler writes and starts a goroutine (`StartOK`), gives up (`EndOK`) or
has asked the cluster (`ProbedOK`), a goroutine sends (`SendOK`) and records
(`RecordOK`).

`ConsumerSyncProofs`, for any records, streams, names and configurations, finite numbers
of handlers and goroutines, and any number of faults (the run has two places):

| Theorem | Statement |
|---|---|
| `ConsumerInvariant` | `Spec => []ConsumerInv` |
| `ConsumerTypeCorrect` | `Spec => []TypeOK` |
| `SyncedConsumersAreInSync` | `Spec => []SyncedMeansInSync` |
| `ConsumerOutcomesAreTrue` | `Spec => OutcomesAreTrue` |
| `PendingConsumersAreServed` | `Spec => []PendingIsBeingSynced` |

What a name is for streams is a place here, but records move between places. The
invariant says that where two are at work, all that either touches is disturbed
(`Alone`), and so is all that is touched for a record that is gone (`Gone`). At every
other place whoever touches it is right about the record it works on (`Calm`): a handler's
copy is the row but
for the status (`HandlerSure`), a goroutine's is the configuration the record waits for,
and a success it is about to record has taken effect (`JobSure`). That much holds however
many records stand for the consumer, and `OutcomesAreTrue` follows from it. Where there was
never more than one (`Sole`), "synced" is true besides, and whoever touches the place
works on that record. One lemma
(`WorkerStep`) says what a step about one record must keep so that the rest of the
table, of the cluster and of those at work does not matter: it writes that record and
only what it touches. `StartOK`, `HandlerMoves` and `JobMoves` bring the actions to that
form; requests taken (`TakeOK`), deletions (`DeleteOK`) and steps that write nothing
(`QuietStep`) are the other kinds there are. In the work on this proof TLC found, with
three places, that the invariant failed of an earlier `disturbed`, which missed the
goroutine of a record that moves twice (section 2).

`ReportsProofs`, of the statistics, for any finite set of tasks and any limit:

| Theorem | Statement |
|---|---|
| `StatisticsAreNearTruth` | `StatsSpec => []ErrorBoundedByMoves` |

Of the statuses asked so far, the counts differ from the tasks that have them by no more
than the moves (`CoveredOK`): a query adds the tasks with one more status, which no
counted status has, and a move takes one task out of a status or puts one in. After
the fifth query these are all the tasks there are.

Of the answers, for any number of failing steps and repetitions:

| Theorem | Statement |
|---|---|
| `ClientErrorsKeepStateAsItWas` | `ApiSpec => []ClientErrorsChangeNothing` |
| `AnswersAreToldBefore` | `ApiSpec => []AnswersAreDocumented` |
| `RepeatedRequestsFinish` | `ApiSpec => []RetryFinishes` |

The proof has two halves. The first is about the 75 scripts (`HandlersAreWellMade`):
each answers with documented codes only and, after its first effect, with none of
400 to 499 (`Answering`); what it skips is done to the record the skip names
(`Skipping`, not `CreateAccountAssociation`); and, but for the nine of `HalfDone`,
nothing can fail, is looked for or must not be there after what must not be done twice
(`Repeating`). These are conditions on the text of a handler, and lemmas show them of
the pieces scripts are put together from before they are shown of the scripts. The second
half is the same for all scripts that meet them, an invariant in six parts (`ApiInv`).
`AnswerOK` says which step an answer is from, and that an effect had a step before;
`PassedOK` that every lasting step passed has had its effect, in this attempt or one
before, or has missed its record; `OnceOK` that what must not be done twice has not been
done when a failure stops the request; `FoundOK` that a record that is gone was removed by
the request; `RefusedOK` that a good request is refused only where nothing is promised;
`EffectsOK` is the types of the counts. None of the three properties is inductive without
them: that a repetition finishes rests on what the attempts before it have left behind.
In the work on this proof `RetryFinishes` was found to say too much of deletions of many
records, whose repetition may miss a record again; it now says so.

`ConfigProofs`, for any requests, units and changes made on the cluster:

| Theorem | Statement |
|---|---|
| `ConsumersCompareFairly` | `ConsumerConfigSpec => []ConsumerComparisonIsFair` |
| `StreamsCompareFairly` | `StreamConfigSpec => []StreamComparisonIsFair` |
| `ComparisonsAreFair` | both together: `ComparisonIsFair` |
| `LimitsAreSet` | `StreamConfigSpec => []LimitsHold` |
| `StraysAreReported` | `StreamConfigSpec => []DifferencesAreReported` |

`UnitBase` is any number above 1 here, so that the theorems speak of units of 1024 and of 32
bits, which TLC cannot. The invariants (`ConsumerInv`, `StreamInv`) say that what the
cluster has is what the server made of the row as it is, while nobody has gone past it,
and that the numbers of a row and of a cluster's configuration are numbers. The rest is arithmetic. Every unit is positive, so a size of a byte or more
stays one (`BytesArePositive`), and is kept by the conversion to 32 bits while it fits
(`SmallNumbersAreKept`). What the comparison shows of a size is off by half of the last
decimal shown and less than a byte (`SizesAreShown`), so sizes that are shown alike differ
by no more than the decimal of the larger one's unit and a byte (`SizesAreNear`), which is
what `DifferencesAreReported` excepts (`Near`). A value that is shown as the row's is near the one
that would be stored of the row, so one that is not near is reported (`StrayDiffers`),
however it came about. In the work on this proof `ConsumerComparisonIsFair` was
found to leave out numbers below zero: an update may give a consumer -1 replicas, which
are not sent and reported ever after (section 6). The property now excepts them, and the run
has such requests.

Only model-checked: liveness (`EverySettles`, `EventuallyInSync`, `EverySyncEnds`,
`FailureIsSeen`), which is out of the prover's reach. Every invariant and action property
of the passing runs is a theorem; the runs check them on instances, with the mutants of
`PROJECT.json` to show that they could fail.

`TypeOK` is checked by a run for the queue only. The types of the other modules are
proved, as theorems of their own or as parts of the invariants.

## 5. Limits of the models

- A push that timed out may in reality take effect later still. How a resolver
  compares an incoming JWT with the one it holds is not visible in this code, so
  in the models a push takes effect before its time limit or never. The same for
  calls that change streams and consumers.
- Reading the account and signing are one step: nothing else happens in between
  that the properties could see.
- Keys, signatures, JSON and log messages are left out. The content of an account is
  the set of its exports and imports and its status.
- Failed *reads* are modelled as the failure of the operation they are part of.
- `IsSystemAccount` is set by no endpoint, so the rows of system accounts exist in the
  initial state.
- One cluster is enough in `JetStreamSync` and `ConsumerSync`, for records of different
  clusters share nothing.
- What a server makes of a configuration (which defaults it fills in) is taken from
  what the comparisons of this code expect of it, and is marked external.
- Names that differ in more than case, options of connections and credentials are
  left out.
- Several properties hold of what requests did not overlap on, or of what nothing else
  spoiled, and name the rest as an exception: `SyncedMeansInSync`, `OutcomesAreTrue`,
  `OneRecordPerName`, `PendingIsBeingSynced` of consumers and `NoLostClusterUpdate` except what
  is `disturbed`, so the overlaps themselves (sections *Order*, *Names*, *Pause* below) are
  in the runs but are not caught; `ReferencesLead` excepts the forgotten columns and
  `FinishedMeansMigrated` a listing that broke off; `DriftIsCovered` and
  `PendingIsBeingSynced` what a fault hit. Each exception is a thing the code does wrong,
  listed in section 6.
- The configuration modules carry every field, also those that no exception or limit
  distinguishes from their neighbours: which fields are sent, stored and compared is what
  the properties of comparison are about.
- Components that share no state are checked in parts of one run (`part`); that they
  share a process shows only in crashes, which each of them has.

## 6. Further disagreements met while modelling

These have no run of their own, unless one is named.

Accounts, users and tasks:

- *Refused pushes.* `commands_executor.go` counts any answer to
  `$SYS.REQ.ACCOUNT.<id>.CLAIMS.UPDATE` as success and never reads it, so a push the
  resolver refused completes the task; `jwt_service.go` records "JWT updated
  successfully". With `MayReject = TRUE` TLC refutes `CompletedMeansDelivered`.
- *Lost tasks.* An account is saved and the insert of its task fails: no task will ever
  carry the change, and the client's error does not say that the rest was done.
- *Lost updates.* Two handlers of one account that overlap undo each other's exports
  or imports. `NoLostUpdate` says which: those that were changed between the read and
  the save of another handler, until somebody asks again. Without `undone` TLC refutes it.
- *Return of a deleted account.* A handler that read an account before it was
  deleted inserts it again when it saves.
- *Five seconds.* `docs/jwt-task-api.md` promises that a retried task is processed
  within five seconds; with more waiting tasks than the LIMIT the next tick may
  leave it out.
- *Statistics.* Each count stops at 1000.
- *Creds.* A comment in `CreateUser` says the creds file is made by the JWT task; the
  task's JWT is thrown away, and the file is written when it is first asked for and
  never again.

Streams and consumers:

- *Order.* Two updates start two goroutines; the older configuration may be applied
  last while the record, with the newer, says "synced".
- *Two records of one consumer.* `DELETE /jetstreams/{id}` removes the record of a stream and
  leaves the stream; `POST /jetstreams` makes a record of it again under a new ID, and
  `CreateConsumer` looks for the name under that ID only (`consumer_manage_service.go:73`).
  A second record of the same consumer passes, and an update of it changes the consumer
  that the first one goes on calling "synced". No requests need overlap.
- *Names.* Two overlapping creations of one stream, or of one consumer, both pass the
  check of the name. `ValidateJetStreamName` looks at one record of a search for a part of
  the name, so it can miss the record with the very name.
- *Retry.* An update that comes in while a retry probes the cluster is followed by the
  old configuration.
- *Pause.* `PauseConsumer` saves the row it read before the call to the cluster; what
  was recorded in between is undone.
- *Crash.* After a crash a record may stay "pending", which the retry endpoint refuses.
- *Limits.* `max_msg_size` of 2 GB and more wraps to a negative number, and 4 GB to
  "unlimited"; a fraction of less than a byte becomes "unlimited".
- *Negative numbers.* A creation with `replicas` below zero is refused
  (`models/consumer.go:318`); an update is not, and the comparison reports it for good.
- *Updates.* Changing a consumer's mode keeps the fields of the other mode. An update
  of a stream without `placement_tags` clears them.
- *Differences that are none.* After a synchronisation the comparison reports
  `opt_start_seq` given beside `start_seq`, `rate_limit` beside `rate_limit_bps`, a
  `max_waiting` of 0 of pull consumers, a `duplicate_window` of 0, a `max_bytes` that
  was rounded, and policies in another spelling than the row's.
- *Differences that are hidden.* `compareStreamConfigs` does not look at `max_msg_size`,
  `max_consumers`, `max_msgs_per_subject`, `description`, `metadata`, `placement_cluster`,
  `placement_tags`, `sealed`, `mirror_direct` and `discard_new_per_subject` (run
  `reports_hidden`), the comparison of consumers not at `backoff`, `metadata`,
  `max_request_batch`, `max_request_max_bytes` and `max_request_expires`. In the fields that
  are looked at, durations are cut to seconds and sizes to two decimals; a drift below that
  is not reported.
- *An update that is not sent.* When the look-up of the stream fails, `UpdateConsumer`
  answers with success and starts no goroutine (`consumer_manage_service.go:368`); the
  record stays "pending". `ConsumerSync` has it as a fault; in `ApiHandlers` the step is a
  `try`, which promises nothing.

Monitor, topology and collector:

- *Isolated clusters.* `cluster_monitor_service.go:356` marks a cluster "connected (has
  any connections)"; the mark depends on the connections found so far, so a cluster
  that is only connected to, by one looked at later, is marked isolated. The group a
  cluster is reported in depends on the order of a Go map.
- *Surplus answers.* `nats/service.go:65` closes the channel again on every answer
  beyond the expected number; the panic in the callback's goroutine ends the process.

Endpoints:

- *Documented answers that are never given*, because the service's error has another
  text than the handler compares with: the 404 of `UpdateAccount`, `DisableAccount` and
  `EnableAccount` (the service says "账户未找到"), of `GetJetStream`, `DeleteJetStream` and
  `CompareJetStreamConfig`, of `UpdateCluster` and `EnableCluster`, of `GetConsumer`,
  `UpdateConsumer` and `DeleteConsumer`; the 400 of most lists, of `RetryConsumerSync` and
  `PauseConsumer`. *Given but not documented:* 206 of the batch deletion, 403 of
  `ListClusterServers`.
- `GET /jetstreams/stats` always fails: the handler asks the service for the statistics of
  the stream whose ID is empty (`jetstream_handler.go:319`).
- A failed connection in `ListClusterServers` is answered with 404.
- `GetConsumer` passes a user's ID where an account's is wanted
  (`consumer_manage_service.go:414`).
- Missing records that a service returns as nil without an error make the handler
  panic; the client sees 500.
- *Requests that a repetition does not finish:* `CreateAccount`, `AddAccountExport`,
  `AddAccountImport`, `RemoveAccountExport`, `RemoveAccountImport`,
  `CreateAccountAssociation` and `CreateUser` refuse, when repeated, because of what
  they did before they failed; `DeleteClusterJetStreamStream` and
  `DeleteClusterJetStreamConsumer` look for what a deletion that timed out has removed,
  and answer 500 for good.

Migration:

- Four columns that hold IDs are left as they are: `accounts.origin_cluster_id`
  (`models/account.go` calls it "创建来源集群ID"), `jwt_tasks.entity_id` and `cluster_ids`,
  and `cluster_healths.cluster_id`.
- The tool says that it is complete although a listing broke off: no loop asks
  `rows.Err()` (`migrate_ids/main.go:36`).

## 7. Not modelled

- Start-up, configuration, routing and the generated API documents: they keep no state
  that changes.
- Key generation and encoding of JWTs and creds (`jwt/nats_manager.go`) beyond what a
  JWT carries; pure I/O around a library.
- Mirrors and sources of streams: tables that no endpoint writes.
- Code that nothing calls: `connectWithUserAuth`, `determineJetStreamEnabledStatus`,
  `extractAndStandardizeStreams`, `parseStreamsFromArray`, `GetStreamDetailInfo`,
  `DeleteCluster`, the service's `RetryJetStreamCreation`, `UpdateJetStreamDirect`,
  `DeleteJetStreamFromCluster`, `deleteStreamOnCluster`,
  `isValidNATSAccountPublicKey`, `PushAccountJWTToAllClusters`.
- The creds file of users.
