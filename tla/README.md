# Verification of BSCP

BSCP is a configuration service: users edit configuration items, freeze them in
releases and publish a release to groups of clients; sidecars next to the
clients watch for releases and download the content.  The repository builds
eight services in Go that share MySQL, Redis and etcd.  This directory holds
TLA+ models of the parts in which several actors change the same state,
configurations for TLC, and proofs for TLAPS.  Paths below are relative to
`src/`.

    tlc -workers 2 -config EventLoopOne.cfg MCEventLoop      one run
    tlapm EventLoop_proof.tla                                one module's proofs

## 1. The system

```
 web page, API          config-server (stateless)            ITSM (tickets)
      |                        |                              ^   | callback
      +------------------> data-service <---------------------+---+
                           |  MySQL: business rows, strategies, events
                           |  Redis: zset of publish times
                           v
                       cache-service (n instances, a master by etcd)
                           |  event loop: events -> Redis cache -> cursor
                           |  publish job: due orders -> released
                           v
                       feed-server (n instances)
                           |  observer: follows the cursor, purges its local cache
                           |  scheduler: matches releases, notifies sidecars
                           |  async download: batches of file transfers (GSE)
                           v
                       sidecars
```

A change reaches a sidecar in this order: data-service commits the row and an
event; the master of cache-service handles the event, which refreshes or deletes
the Redis key, and then records its cursor; every feed-server polls cursor and
events, purges its local cache and notifies the sidecars that a release now
matches.  Each stage trusts that the one before it is complete up to the cursor.

### Event log (data-service) — modelled, `EventLog`

- Code: `internal/dal/dao/event.go`, `id.go`; callers `app.go`, `credential.go`,
  `publish.go`, `client.go`.
- State: the rows of the event table with their final status, the id generator,
  the business rows, the CursorReminder row.
- Operations: draw an id, `Fire` and `Finalizer`, `FireWithTx`, `List`,
  `RecordCursor`, `LatestCursor`, `Purge`.
- Hard: an id is committed in a transaction of its own, before the row and the
  change; a row of `Fire` is visible before its change; `Finalizer` may not run.
- Correct when: an event handled stands for a change that can be read, and no
  event is lost between the cursor and the table.

### Event loop (cache-service) — partly, `EventLoop`

- Code: `cmd/cache-service/service/cache/event/loop_watch.go`, `consumer.go`,
  `purge.go`; fills and TTL in `service/cache/client`.
- State: per instance a cursor, a page and the previous mastership; Redis.
- Operations: watch for a change of master, list a page, filter it up to the
  first event that is not ready, consume it stage by stage, record the cursor,
  purge old rows.
- Hard: two masters at a time, crashes between a refresh and the cursor, pages,
  retries in the middle of a page, refreshes and fills that interleave.
- Correct when: nothing at or below the cursor is unhandled, and Redis holds the
  committed value once the events about it are handled.
- Left out: the caches of released items and key-values.  Their rows never change
  once they are released, so no refresh can make them stale.

### Release orders (data-service, cache-service, ITSM) — partly, `PublishApproval`

- Code: `cmd/data-service/service/publish.go`, `crontab/sync_ticket_status.go`,
  `internal/dal/dao/strategy.go`, `dao/publish.go`; the scheduled job in
  `cmd/cache-service/service/cache/event/publish.go`.
- State: the strategy rows (status, publish type, remaining approvers, ticket
  status), the zset of publish times, the ITSM tickets.
- Operations: submit; approve, reject, revoke and publish, from the page or through the
  API; the ITSM callback; the polling of tickets; the scheduled job.
- Hard: each reads the row outside the transaction that updates it, and the
  `UPDATE` does not look at the status again; ITSM is told before the commit;
  callbacks come late or twice.
- Correct when: one order is under way at a time, an order goes forward only, is
  published at most once and never without the approvals its app asks for.
- Left out: which groups a release reaches, the frozen rows, permissions and the
  deprecated flag (they are refusals, `ApproveFails`).

### Feed server: observer, scheduler, watch stream — partly, `Feed`

- Code: `cmd/feed-server/bll/observer`, `bll/eventc`, `bll/lcache`, `bll/release`.
- State: a cursor, the local cache, per app its members, an event queue and a
  cursor, a retry list with a worker, the watch streams.
- Operations: list events, purge the local cache, pipe them to the scheduler, queue
  them at the app, match and notify its members, subscribe with a first match of its
  own, retry, unsubscribe, close all streams of a deleted app.
- Hard: the cursor is stored before the local cache is purged
  (`observer.go:217-220`); a fill may outlive a purge; a subscription interleaves
  with the handling of an event; three goroutines may notify one sidecar; a sidecar
  may leave while a notification for it is in flight.
- Correct when: a sidecar is never sent an older release than the one it came with,
  has heard of the release that matches it once all is handled, and is forgotten when
  it has left.
- Left out: credential events, what the message carries, label and gray matching (a
  choice of the sidecars a publish reaches), TTL and LRU eviction of the local cache.

### Feed server: asynchronous download — partly, `AsyncDownload`

- Code: `cmd/feed-server/bll/asyncdownload/v2`, `internal/runtime/lock`.
- State: in Redis, written key by key: batches and the zset of due ones, targets,
  tasks, transfer ids, inflight keys, the pointer to the open batch; two locks.
- Operations: a request reuses, joins or creates; a scheduler per server dispatches
  due batches in shards, asks GSE for the progress of dispatching ones, times out,
  finalises.
- Hard: joining a batch and dispatching it take different locks; the refresh of a
  dispatching batch takes none; every save writes a copy read earlier; a final task
  state may be overwritten; keys are deleted whatever they name by now.
- Correct when: a file is handed to GSE once per target, a success was delivered, a
  batch that ended has no open task and tells how they ended, what ended stays so.
- Left out: the file on the feed server's disk, the TTLs of the keys.

### Process operations and task batches (data-service) — partly, `TaskBatch`

- Code: `cmd/data-service/service/process.go`, `task_batch.go`,
  `internal/dal/dao/task_batch.go`, `internal/task/executor/process/process.go`.
- State: the row of a batch with its counters, the stored status of each task, the
  status of each process instance.
- Operations: operate (mark instances, dispatch tasks), the deferred count of what was
  not dispatched, the callbacks with their count and rollback, retry.
- Hard: no lock covers any of it; callbacks, a partial dispatch and retries change the
  same counters; retries and rollbacks write the same instance.
- Correct when: the counters add up, a batch is finished exactly when all of its tasks
  are, its status tells how, and no instance is left starting or stopping.
- Left out: `retryPushConfigTask`, `retryCheckConfigTask` and the config tasks, which
  count in the same way and touch no instance; regeneration of configs; the deletion of
  scaled-down instances and the update of CMDB sequence numbers after a success;
  notifications.

### Mastership (serviced) — its effect only, in `EventLoop`

- Code: `internal/serviced/serviced.go`.
- State: keys with a lease in etcd, and a flag in each instance.
- Hard: the flag comes from two serializable reads and an error leaves it as it
  was, so two instances may be master at a time, or none.  `EventLoop` takes that
  as given: `BecomeMaster` asks for nothing.

### Not modelled

- **Configuration items, templates, groups, hooks, key-values**: CRUD, each inside
  one database transaction; nothing interleaves beyond the unique keys of MySQL.
- **CMDB and GSE synchronisation**: comparisons of tables with external
  inventories, whose state space is that of the inventories.
- **Client metrics and online state**: statistics.
- **config-server, api-server, ui, feed-proxy, auth-server**: they hold no state;
  they authorise, convert and forward.
- **vault-server, repository, object storage**: I/O against external services.
- **Tenant and database migrations**: one-off tools.
- **Asynchronous download v1**: the older form of v2, one job per file under one lock of
  the whole scheduler.
- **Election** (`serviced`): any flags are possible in `EventLoop`, which is the most an
  election can do to them.
- **Label and gray matching** (`release/match.go`): a pure function of a sidecar and the
  released groups; a hash of the sidecar is compared with a percentage.  `Feed` takes any
  set of sidecars for the ones that a release reaches.
- **`redislock`**: `AsyncDownload` has locks that exclude.  `Release` deletes a key
  without asking whose it is, so a holder that outlives its own time frees the lock of its
  successor; what two dispatchers of one batch do is the mutant `TakeDueBatchUnlocked`.

## 2. Plan

The modules, in the order of their weight for the system; all are written and checked.

1. `EventLog`, `EventLoop`: the pipeline that everything else trusts.  Runs
   `EventLoop*`; proofs of its safety.
2. `ReleaseOrder`, the abstract specification of the approval flow, and
   `PublishApproval`, which implements it.  Runs `Publish*`; proofs of what is
   published, of what waits, and of the implementation.
3. `Feed`: observer, local cache, subscription, notification and retry, on top of a
   cursor and events as `EventLoop` promises them (`FreshOnceCaughtUp`: Redis is fresh
   before the cursor tells of an event).  Proofs of what is sent and to whom, and that
   everybody is told.
4. `DownloadBatch`, the abstract specification of a batch, and `AsyncDownload`, which implements
   it: joining, dispatch, refresh and repair of batches.  Proofs of what a success and an end
   mean, of what happens once only, and of the implementation.
5. `OperationBatch`, the abstract specification of a task batch, and `TaskBatch`, which
   implements it: counters, callbacks and retries.  Proofs of its safety and of the
   implementation; liveness.

Left: the election of `serviced`; config pushes as a second kind of task in `TaskBatch`.

`EventLoop` EXTENDS `EventLog`: they share the event table, and every step of one
leaves the other's variables alone.  `PublishApproval` INSTANCEs `ReleaseOrder`,
`AsyncDownload` `DownloadBatch` and `TaskBatch` `OperationBatch`.  `Feed` has
the cursor of the cache-service in one variable, with what `EventLoop` proves of it.
The `MC` modules only give constants their values.

## 3. The models

### `EventLog` and `EventLoop`

| state | code |
|---|---|
| `maxID` | `id_generators.max_id` of the event table, `dao/id.go` |
| `status`, `aged`, `old` | `final_status` of a row; created more than `lagSeconds` ago; created more than 14 days ago |
| `txn`, `eventID` | how far a business transaction is, and the id its event drew |
| `db` | the version of a business row, 0 when it is deleted |
| `reminder` | `resource_id` of the CursorReminder row |
| `master`, `preState` | `serviced.isMasterFlag`, `observer.preState` |
| `pc`, `currentCursor`, `start`, `batch`, `last` | the locals of `loop`, `loopOneStep`, `doOneStep` |
| `stage`, `todo`, `loaded` | where `consume` is: kind of event, events left, values read and not yet written |
| `redis`, `fill` | the cached version of a row; a request that has read a row and not yet written it |
| `handled`, `gaps`, `unseen`, `overtaken`, `faults` | history: batches consumed; ids passed while they had no row; rows that a fill wrote late or whose event was taken before its transaction ended; failures |

A value is a version: whether a cached payload is outdated is all the properties
ask.  A refresh is two steps, the read of the database and the write to Redis;
everything of other instances, transactions and fills may come between them.
`refreshAllCache` hands the publish events to the refresh of app metadata, which
takes their resource id for an app id although it is a release id;
`ReadMetaOfPublish` therefore refreshes any set of apps.  `deleteApp` removes the
released groups too and fires no publish event for them; a released group is a row
of its own in the model.  The credential refresh reads a credential and its scopes
with two queries; the model reads them as one row.  The lock with which one process
lets a single request refill a key is left out: it excludes neither the loop nor
another instance.

### `ReleaseOrder` and `PublishApproval`

| state | code |
|---|---|
| `approval` | `app.Spec.IsApprove` and `ApproveType` |
| `strategy` | the strategy rows: `PublishStatus`, `PublishType`, `ApproverProgress`, `ItsmTicketStatus` |
| `queue`, `due` | the zset of publish times in Redis; the ids whose time has come |
| `late` | `FinalApprovalTime` is after `PublishTime` |
| `ticket` | ITSM, external |
| `call` | an `Approve` request: the row it read, what it wants, for whom |
| `submit`, `job` | a submission; what the job has read |
| `requests`, `publishes`, `approvedBy`, `unvetted`, `stale` | history: requests made, publications, approvals given, orders an API request passed unchecked, orders written from an outdated status |

A request is three steps: the read of the row, the ticket check
(`handleTicketStatus`) and the transaction; each may fail.  The commit writes over
whatever is there, as `UpdateByID` does.  `GenerateReleaseAndPublish` runs
the same check and transaction, at once or on approval (`GenerateBegin`).  A request may name any order
whose row exists, since `GetLast` looks for the release it names.

What a request may do depends on the header `X-Bscp-Operate-Way`, which whoever calls sets
(`iam/auth/middleware.go:438`): the page says "web" (`WebUI`), a client of the API another
way ("api") or none ("plain").  The callback and the polling have none either ("itsm"), and the code
takes both for the same: it looks for the user among the approvers only if the request is the
page's (`publish.go:704`), and takes one without a way for the last approval (718).  An order
that an API request passes without the approvals its app asks for is in `unvetted`;
`ApprovedAsRequired` is about all others, whatever API requests do to them.

A request that tells ITSM and then fails to commit is `CommitFails`: the ticket has the
decision, the row has not.  The job's two reads, zset and rows, are one step; what it read
and what it commits are two.

ITSM is modelled as the code uses it: a ticket takes at most one vote per approver,
ends when it is decided, or is withdrawn; it calls back after its end; it refuses a
vote or a withdrawal it no longer allows.  The two ITSM calls of
`handleTicketStatus` are one step; a vote between them is the same as one before or
after both.

`stale` collects the orders that some request wrote although the status had changed
since it read the row.  `OneInFlight`, `PublishedOnce` and the refinement exempt
these orders: what the code promises is what holds of the others, and how the
others are lost is what `PublishRevoke` shows.  `ApprovedAsRequired` and
`ScheduledIsQueued` exempt no such order.

### `Feed`

| state | code |
|---|---|
| `log`, `recorded` | the events of the app and the cursor of the cache-service, as `ListEventsMeta` shows them |
| `observer`, `cursor` | the locals of `doLoop` and `handleEvents`; `lastCursorID` |
| `cache` | the released groups in the local cache, by the number of events they include |
| `pipe`, `pushed` | the channel to the scheduler |
| `members`, `queue`, `handler`, `appCursor` | an `appEvent`: its consumers, event queue, `watchEvents` goroutine, cursor |
| `stream` | a watch stream: what the sidecar came with and how far `Watch` is |
| `job` | a match or notification under way, by the goroutine it runs in: subscription, event handler, retry worker |
| `retry`, `signal`, `retrying` | the retry list, its channel, the worker's copy |
| `told`, `missed`, `escaped`, `faults` | history: the release heard of last; the exempt ones; failures |

One app.  A release is named by the event that published it, and the groups by how many
events they include, so that whether a message is outdated is a comparison of numbers.
`again` is a retry event (`RetryInstance`, `RetryApp`), `delete` the deletion of the app.  A
match is two steps when the cache misses: the answer of the cache-service and the store in
the cache, and a purge may come between them.  The retry worker takes its signal and purges
the list in one step, a buffered channel of one being a Boolean.  A release without key-values
or config items is neither sent nor tried again (`NotifyNothing`).

### `DownloadBatch` and `AsyncDownload`

| state | code |
|---|---|
| `batch` | the meta key of a batch (state, window, target count) and its entry in the due zset |
| `task`, `listed` | the targets hash with the task keys; the tasks hash that the counts range over |
| `mapping` | the dispatch state hash: the GSE transfer of each target |
| `inflight`, `openBatch` | the inflight key of a target, the open pointer of the scope |
| `createLock`, `dispatchLock` | the two Redis locks |
| `request`, `server` | a `CreateTask` call; what a tick of a scheduler works on, with the copies it holds |
| `transfer` | GSE, external |
| `calls`, `faults`, `disturbed`, `unpinned` | history and bounds |

One file, target user and directory.  A save writes the copy that was read, not the current
value; what a copy holds beyond the state is the target count.  Several writes of one
helper whose order no reader can tell are one step (the meta key and the zset of
`SaveBatch`; the per-target updates of one result); the writes of `AddTask` are separate
where a failure falls between them (`RequestFails`).  A server's updates of the tasks of a shard
or of an answer are one step when they succeed, for nobody but the clients reads them before the
write that follows; when the server fails among them, any part of them may be done (`ServerFails`,
`ShardFails`, and `ShardUnrecorded`, where the dispatch goes on with the next shard).
`finalizeCompletedBatch` deletes its keys in one step.  The due and dispatching lists of a tick
are the choice of any such batch.  Leases and the longest dispatch are the choice
`ApplyTooLate`: a refresh that finds nothing new may find time up.  What GSE did is chosen
when somebody asks.  A crash frees the locks; nobody outlives a lock.  A source file that is
missing makes a shard be skipped.  The terminations that a repair sends to GSE have no effect
on the files already there, and keys do not expire.

`DownloadBatch` knows only how far a batch and its tasks are, as a client that polls sees them.
`Standing` and `Answers` compute that from the keys: a batch in `disturbed` is "lost", of which
nothing is promised; a target is none of a batch until its task is in the tasks hash, as a
request that fails in between leaves nothing that is counted or told.  `Reopens` is the one step
back, and the code does take it: a window may end before the creator of the batch has added its
task, another server then refreshes the empty batch and ends it as done, and the second save of
its dispatcher (`scheduler.go:148`) puts it back to dispatching.  Nobody polls such a batch.

### `OperationBatch` and `TaskBatch`

| state | code |
|---|---|
| `batch` | the row of the table: status, counters; `of` are its instances, `total_count` their number |
| `failing`, `original` | the error of `OperateProcess` its deferred function looks at; the statuses it read first (`OriginalProcStatus`) |
| `job` | how far one execution of a task is, by batch, instance and the call that asked for it |
| `task` | the status the task library stores |
| `inst` | the status of an instance: settled, or starting, stopping, restarting... |
| `made`, `lost`, `raced`, `stranded`, `faults` | history: retries made; counts that will not be made; batches retried twice at once; instances a fault left moving; failures |

The task library is external: it runs a task, stores its status and then runs its callback,
which may find that a retry has already restarted the task.  The unsigned columns are those of
the migration: an update that would take one below zero is an error.  The statuses of a process
and of its management are one.  A call of `RetryTasks` lists the failed tasks, resets the
counts and restarts the tasks one by one; each is a step.  A restart that fails may leave its
instance marked and its task stored as running (`RetryDies`).  `Dispatch` marks the instance and
hands over the task in one step.

`OperationBatch` knows a batch as the user sees it: a status, and of each task whether it is
open, a success or a failure.  It keeps no counts.  `Shown` and `Results` compute that: a task is
open while one of its jobs is still to be counted, whatever its stored status says by then, so
that a batch ends with its last count and not with the end of its last task.  `Astray` are the
batches that are "lost" to it: those with a count that a fault swallowed, and those two retries
worked on at once.  Without either exemption TLC finds the refinement violated.

## 4. What TLC checks

| run | bounds | shows |
|---|---|---|
| `EventLoopOne` | 1 instance, a publish, an update and a deletion of an app on 2 rows, pages of 2, 1 failure or crash | `NoLossBehindCursor`, `HandledAfterEnd`, `FreshOnceCaughtUp`, `CursorNeverMovesBack` |
| `EventLoopTwoMasters` | 2 instances, `Fire` and `FireWithTx`, pages of 1, 1 failure | two masters at a time lose no event and handle none too early |
| `EventLoopLive` | 1 instance, an update and a deletion of a credential, 1 fill, 1 failure | `EventuallyHandled`, `StaleIsRefreshed` |
| `EventLoopSkips` | 1 instance, pages of 1, no failure | violated: `NoEventSkipped` |
| `EventLoopCredentials` | 1 instance, 2 credentials, one updated and deleted, one updated twice, no fill, no failure | violated: `CredentialFreshOnceCaughtUp` |
| `PublishOrders` | 2 submissions at a time, 2 orders, 1 request, no approval and or-sign by the creator, ITSM v4 | `OneInFlight`, `ScheduledIsQueued`, `ImplementsOrder` |
| `PublishVotes` | 1 order, 2 requests at a time, of the page or of the API, 2 approvers and a creator who is none, all settings, ITSM v4 | `PublishedOnce`, `ApprovedAsRequired`, `ScheduledIsQueued`, `ImplementsOrder` |
| `PublishRevoke` | 1 order, 2 requests, no approval | violated: `RevokedNeverPublished` |
| `PublishCountersign` | 1 order, 1 request, 2 approvers, countersign, ITSM v2 | violated: `ApprovedAsRequired` |
| `Feed` | 2 sidecars, 3 events of an app, 4 events and subscriptions together, 1 failure | `FreshForCursor`, `NoRollback`, `SettledKnows`, `NoneForGone`, `DeletionCloses`, `CaughtUpAccepts` |
| `AsyncDownload` | 2 targets, 2 requests at a time and 3 in all, 2 servers, 2 batches of at most 2 targets, shards of 1, 2 transfers, 1 failure | `SuccessIsDelivered`, `TerminalTellsTasks`, `TransferredOnce`, `OneOpenTask`, `FinalStays`, `ImplementsDownload` |
| `TaskBatch` | 2 batches, 2 instances, 2 tasks together, 2 retries, 1 failure | `Ledger`, `TerminalMeansEnded`, `ResultMatches`, `InstanceSettled`, `OneExecution`, `SuccessIsFinal`, `ImplementsOperation`, `EventuallyTerminal` |

The type invariant of each module is checked by one of its runs: `EventLoopOne`, `PublishOrders`,
`Feed`, `AsyncDownload`, `TaskBatch`.

**The bounds.**  Three events with pages of two give a page boundary inside the
events, a page cut short by an event that is not ready, and a failure after a page
that succeeded.  Two events of two writers with pages of one are what it takes for
ids to become visible out of order and for two cursors to cross.  One failure is a
crash at any step; a second repeats it from a state the first already reaches, the
top of the loop.  Two approvers are the least that tell an or-sign from a
countersign; two requests at a time the least that write over each other, or one that
comes after the other (a late callback, a retry).  Two orders are the least for
`OneInFlight`.  In `EventLoopCredentials` the second credential is updated twice because a key
that Redis does not hold yet cannot be outdated: the first update is cached, the second is the
one whose refresh does not come about.

In `Feed` two sidecars are what it takes for an event that concerns one and not the other,
and for a last member that leaves beside one that stays; three events for a batch of two that
comes while the handler is busy with the first; `MaxInputs` leaves out the runs in which both
sidecars come and three events are fired.  In `AsyncDownload` two shards make a dispatch that
can be cut in the middle, two batches a target that asks again while its first batch ends, two
servers everything that one does to the other; the third request comes after two have crossed.
In `TaskBatch` two tasks are either one batch that succeeds in part, or two batches on one
instance, whose rollbacks meet; two retries overlap, or one follows the other.

`MaxEvents`, `MaxInputs`, `MaxFaults`, `MaxStrategies`, `MaxRequests`, `MaxBatches`, `MaxCalls`,
`MaxTransfers` and `MaxTasks` cap the counters; the theorems of section 5 hold for all their
values.

**The constraints.**  `Feed` and `AsyncDownload` run under `CONSTRAINT Calm`: a state in which an
exemption has happened (below) is checked and not explored further, because the properties
say nothing of what follows for the exempt sidecar or batch.  What follows for the others is
left out of the runs with it; the theorems of section 5 hold without the constraint, and so
cover it for the properties they state.

**Exemptions.**  These modules keep in history variables what the code does lose, so that a
property says "only so".  `EventLoop`: `gaps`, ids passed before their row appeared (`Lost` names
the rows they are about); `overtaken`, rows that a fill wrote late or whose
event was handled after its lag time and before its commit.  `PublishApproval`: `unvetted` and
`stale` (section 3); `late`, orders whose time came before their commit.  `Feed`: `missed` holds sidecars for which a step failed and is not
tried again, that read a late fill or match a release with nothing in it, or whose message
overtook a newer one; `escaped` those
that left while they were notified.  `AsyncDownload`: `disturbed` holds batches that a request
wrote into after they were closed, that were repaired while their dispatcher was still at
work, whose repair was cut short, or that two servers refreshed at a time; `unpinned` targets
whose inflight key was deleted or could not be read while their task was open.
`TaskBatch`: `raced`, two retries of a batch at once; `lost`, counts that a fault swallowed;
`stranded`, instances a fault left starting or stopping.

**Symmetry.**  Instances in `EventLoopTwoMasters`; approvers, requests and
submitters in `Publish*`; sidecars in `Feed`; targets, requests and servers in
`AsyncDownload`: no definition names one of them, and these runs check no liveness.
`TaskBatch` has none.

**Deadlock** is checked in the `EventLoop` runs.  The `Publish` runs turn it off: once
`MaxStrategies` orders are there and `MaxRequests` requests were made, nothing is
left to do but by the bounds.  `Feed`, `AsyncDownload` and `TaskBatch` turn it off as well: they
stop when nobody has anything left to ask, all events are handled and all batches ended.

**Fairness** is assumed by `EventLoopLive` and `TaskBatch` (`FairSpec`), and only weakly.  In
`EventLoopLive`:

- an open transaction goes on to its commit or rollback: MySQL ends it;
- a row grows older than the lag time: time passes;
- each instance's loop goes on: `loop` is a `for {}` with a sleep;
- instances without a master elect one: the etcd election is retried for ever.

The TTL of the keys is not among them: keys may expire, but `StaleIsRefreshed` asks the loop to
take an outdated value away.

`Finalizer` is not fair, for a crash of data-service skips it and nothing retries
it; nor is the refill of a key.  Failures are bounded by `MaxFaults`, which stands
for "failures stop in the end".

In `TaskBatch`: a call that was made goes on to its end (the loop of a request has no wait in
it), the workers run what was handed to them, and the library calls back.  Nobody has to
operate or to retry, and no fault is fair.

**Each property can fail.**  `PROJECT.json` lists for every property of a passing
run a mutant: a definition of the model replaced by one with a plausible bug (a
dropped guard, a `continue` for a `break`, ids taken out of the zset too early),
under which TLC finds the property violated.  The mutants stand next to the
definitions they change.

## 5. What is proved

For every value of the constants, from the named assumptions on them only:

| theorem | states |
|---|---|
| `EventLoop_proof!TypeCorrect` | `TypeOK` |
| `EventLoop_proof!NoLoss` | `NoLossBehindCursor` |
| `EventLoop_proof!HandledOnlyAfterEnd` | `HandledAfterEnd` |
| `EventLoop_proof!OneInstanceMovesOn` | `CursorNeverMovesBack`, for one instance |
| `EventLoop_proof!OneInstanceRefreshes` | `FreshOnceCaughtUp`, for one instance and without fills |
| `PublishApproval_proof!TypeCorrect` | `TypeOK` |
| `PublishApproval_proof!PublishesOnce` | `PublishedOnce` |
| `PublishApproval_proof!PassesOnlyApproved` | `ApprovedAsRequired`, assuming `EnableV4` |
| `PublishOrder_proof!OneAtATime` | `OneInFlight` |
| `PublishOrder_proof!NoneForgotten` | `ScheduledIsQueued` |
| `PublishOrder_proof!Implements` | `ImplementsOrder`: `PublishApproval` implements `ReleaseOrder` |
| `TaskBatch_proof!TypeCorrect` | `TypeOK`: in particular no counter goes below zero |
| `TaskBatch_proof!LedgerHolds` | `Ledger` |
| `TaskBatch_proof!EndedWhenReported` | `TerminalMeansEnded` |
| `TaskBatch_proof!SettledWhenQuiet` | `InstanceSettled` |
| `TaskBatch_proof!RunsOnce` | `OneExecution` |
| `TaskBatchResult_proof!ResultIsRight` | `ResultMatches` |
| `TaskBatchResult_proof!SuccessStays` | `SuccessIsFinal` |
| `TaskBatchResult_proof!Batched` | `ImplementsOperation`: `TaskBatch` implements `OperationBatch` |
| `AsyncDownload_proof!TypeCorrect` | `TypeOK`: in particular no batch counts more targets than it may |
| `AsyncDownload_proof!OnlyDelivered` | `SuccessIsDelivered` |
| `AsyncDownloadTasks_proof!EndTellsTasks` | `TerminalTellsTasks` |
| `AsyncDownloadTasks_proof!HandedOverOnce` | `TransferredOnce` |
| `AsyncDownloadTasks_proof!EndIsFinal` | `FinalStays` |
| `AsyncDownloadTasks_proof!OneTaskEach` | `OneOpenTask` |
| `AsyncDownloadTasks_proof!Downloads` | `ImplementsDownload`: `AsyncDownload` implements `DownloadBatch` |
| `Feed_proof!TypeCorrect` | `TypeOK` |
| `Feed_proof!SentFresh` | `FreshForCursor` |
| `Feed_proof!NeverBack` | `NoRollback` |
| `Feed_proof!LeavesAlone` | `NoneForGone` |
| `Feed_proof!AcceptsAll` | `CaughtUpAccepts` |
| `Feed_proof!AllIsTold` | `SettledKnows` |
| `Feed_proof!DeletionEnds` | `DeletionCloses` |

Every invariant, action property and refinement of the passing runs is among them.  Beside the named
assumptions on the constants, three theorems assume a setting, in the statement itself:
`PassesOnlyApproved` that tickets are those of ITSM v4, as the property does (which leaves out
the orders in `unvetted`); and the two about
one instance that `Nodes` has one member, and for the second that `Fillers` is empty.  With two
masters the recorded cursor does move back, which `EventLoopTwoMasters` allows; and a fill may
put back an old value, which only its TTL takes away.

**No event is lost.**  `NoLossBehindCursor` speaks of the recorded cursor only, but
what is recorded is what an instance holds, perhaps for long and beside another
master.  `CursorInv` says of every cursor there is (`reminder`, each
`currentCursor`, each `start`) that every id up to it was handled or was passed
before it had a row; and of every batch that its events and the `unseen` ids fill
the interval from `start` to its last event.  The step that matters is
`ListBatch`: `FilterOutIsPrefix` shows that the page, cut at `Limit` and at the first
event that is not ready, leaves out nothing below its last event.  A row that
appears later below it is in `unseen`.

**Nothing is handled too early.**  `EndInv`: ids in use are distinct and below
`maxID`; the event of an open transaction has no row or an unknown status; so an
event that is taken before its lag time belongs to a transaction that has ended.

**One instance moves on.**  `MovesOnInv`: an instance that has read the cursor holds the recorded
one, and its page begins there.  It is inductive only because nobody else records: a failure or
a crash drops what the instance holds, never what is recorded.

**Redis is fresh once all is handled.**  `consume` handles a page by kind and not in its order, so
an old value may be written after a newer one was; the row is right in the end because it is the
current one that is read each time.  `Owes` says so at every step: a value in Redis that is not
the row's has an event that is not handled, whose row is read later (`Ahead`) or was read and is
about to be written (`InHand`); a value read and outdated since has an event whose row is read
later still (`ReadIsOwed`).  It needs `EndInv`: an event is `Outstanding` until it is handled after
its commit, and one past its lag time, which may be handled while its transaction is open, counts
as outstanding for good (`CaughtUp` exempts its row).  `Refreshes` leaves out the one case in which
an event changes nothing in Redis: an insertion or update of an app that is deleted by now, whose
deletion then has an event of its own.

**An order is published once.**  `RowInv` adds to the types that ids are drawn one
at a time, that no row exists under an id still to be committed, and that requests
and job only work on rows that exist.  Then every commit that publishes reads
`pending_publish`; if the row still says so, this is the first publication, and
otherwise the order becomes `stale`.

**Nothing passes unapproved.**  `ApprovalInv`: not only the rows, but every copy of a
row that a request or the job has read satisfies the promise, and so do the
remaining approvers of a pending row (each approver who is missing there has
approved); ITSM shows no vote that nobody gave; an ended ticket is decided; and what
a request claims to know of the votes (`Claims`) is true, whatever came between.
This is why a request may write what it read long ago.  An order in `unvetted` promises nothing,
and stays there.  With ITSM v2 `Claims` fails, which is `PublishCountersign`.

**One order is under way.**  A submission looks at the last row and commits later; in between that
row may change or another order may come in.  The code does not look again, and the model
marks the order `stale` when this happened; the theorem says that it is the only way.  `OrderInv`:
while nothing is stale, only the last visible row may be under way (`Ordered`); a submission that
is not idle has seen a last row that had ended, and has drawn an id behind it (`Checks`); what is
stale is a row (`StaleSeen`).  A new order that is not stale then comes behind all others, and all
of them have ended (`CommitAfterAll`); every other step moves rows on, and an order that has ended
stays so unless it becomes stale.

**No scheduled order is forgotten.**  `QueueInv`: an order waits in the zset from before its commit
until its time comes (`WaitsInQueue`), and what the job has read of an order that is due is still
so, or the order was changed after its time and is `late` (`JobSees`).  This is what makes it safe
for the job to take out of the zset every id it had read, though it looked at the rows before.

**The flow implements the abstract order.**  What `ReleaseOrder` sees of an order is its status, or
"lost" once it is `stale`.  `CommitMoves` says once for
all requests, from `RowInv`, that a commit which finds the row as the request read it takes the
order through a step of `Order!May`; the job and the synchronisation of tickets, which have copies
of their own, likewise.  `NextOrder` concludes that each action is a step of `Order!Next` or
leaves all orders alone.

**A batch adds up.**  `Ledger` is inductive beside the types once it is known that a batch
not yet created has no jobs (`Untouched`) and that a retry not yet made has none
(`Unasked`): then each action moves as many jobs between the stages that will still count
(`Counting`) as it changes the counters and `lost`; the lemmas `SizeGone` and `SizeCame` say
what a set of jobs that leaves or comes in does to a cardinality.  `EndedIsFull` says that a
batch with an ended status has counted all of its tasks, from which `TerminalMeansEnded`
follows by `Ledger`: nothing is left to count.  It survives a second retry, because
`ResetCountsForRetry` sets the status back with the counts.

**An instance comes to rest.**  `MovingAttended`: an instance that shows a moving status has a
job that will write it again, or a fault has stranded it.

**A task runs once.**  `AllSingle`: in a batch no two retries have worked on at once, the stored
status of a task tells what may be done with it.  A task due to be dispatched is not stored yet,
one that a retry has listed has failed, one that runs is stored as running; so what is restarted
does not run.

**A status tells the truth.**  `Tally`: in such a batch the successes counted, or still to be
counted by a callback, are no more than the tasks stored as successful; the failures, with the
jobs still to dispatch or to restart, no more than the tasks stored as failed or not stored.
Every action that counts or moves a job moves its task with it, which needs `AllSingle` (what
is restarted was stored as failed, so taking its failure back is right).  A batch that has ended
has by `Ledger` counted all of its tasks, so both bounds are met and the counts are those of the
tasks.  `Shape` adds that a status that says ended is the one its counts give, and that jobs and
tasks belong to what the batch is about.  `SuccessIsFinal` follows: of a batch that has succeeded
nothing is left to count, and nothing can be listed for a retry.

**A task batch is an abstract batch.**  The code keeps counts and the abstract batch none, so what
has to be shown is that the status is at every time the verdict on the tasks (`KnownVerdict`).
For a batch that has ended this is `TerminalMeansEnded` and `ResultMatches`; for one that runs it
needs `Short`, that a complete batch is never left running: every count looks whether it is the
last (`CountShort`), and a retry takes at least one back.  The rest says what a step may do to a
task: it is written only while it is open (`TaskWritten`), and it opens only when its batch is
created or when a retry takes back the count of a failed one (`JobOpens`, and `AllSingle` for
"failed").  So each step starts the batch, closes some tasks or reopens some that failed
(`StartSteps`, `OtherSteps`, `RetrySteps`).

**A success is a delivery.**  What a server has seen of a target comes from the transfer the
batch maps the target to, and the batch may be dispatched again between the answer and its use.
`Inv` says that mappings, and a server that has begun a transfer, name transfers of their own
batch (`Mapped`, `Marking`); that what a server has seen as "ok" was brought by one (`Seeing`);
and that transfers not begun have no results.  Begun transfers keep their batch and what they
have brought (`Kept`), so a success that was true stays true, and no lock is needed for it: the
proof does not use `dispatchLock`.

**A batch that ended has ended.**  `RaceInv`, of every batch that is not `disturbed`: who dispatches
it holds its lock, and the targets it has not handed over are pending, unmapped and in no
transfer (`Dispatcher`); who refreshes it is alone, what it has seen is what the transfer says,
and the outcome it is about to save is that of the tasks as they are (`Refresher`); a task that
has ended says what its one transfer says (`Reported`, `Once`), or timed out in a batch whose end
is being saved.  Each part needs the others: that a late answer does not take a task back rests on
there being one transfer for it, that on the lock and on `Waits`, and these on the batch not being
closed twice, which is what `disturbed` tells.  `TerminalTellsTasks`, `TransferredOnce` and
`FinalStays` follow.  The steps of a server on another batch (`ApartKeeps`), of a dispatcher
(`DispatchKeeps`) and of a refresher are each dealt with once.

**A target waits once.**  `PinInv` adds the lock of the requests: who may still open a task for a
target holds `createLock` and has made sure that there is no open one (`Alone`), and an open task
is the one its inflight key names (`Known`).  A step of a server can only ease this (`Eased`): it
opens no task, and where it deletes a key, the key named no open task, or the target is
`unpinned` from then on.

**A batch is an abstract batch.**  `Downloads` shows, from `RaceInv`, that each action takes
every batch through a step of `DownloadBatch!Step`.  A step writes the keys of one batch only
(`SameAnswers` for the others).  What is left is what it does to that one: a step of a request
adds a task or nothing while the batch collects (`RequestSteps`), and one that comes later
makes the batch "lost" (`LostSteps`); a dispatcher and a refresher save copies, and `RaceInv`
says that what they save is ahead of what is there, not behind (`Forward`, `ForwardSteps`,
`WorkForward`); and the outcome a refresher saves is the one the tasks give at that moment, not
when it counted them (`ToldOutcome`).  This is more than `TerminalTellsTasks` and `FinalStays`
say together: a task is also no success before it ran, and an end is not taken back.

**A sidecar is not sent back.**  Every cursor on its way from the observer to a sidecar (pipe,
queue, handler, jobs, both retry lists) is one the local cache has been purged for already
(`Line`); what is in the cache, late fills aside, was read after the last publish among the
events purged for (`CacheFresh`); so what a job is about to send covers the cursor it is sent for,
and, if `waitForObserverReady` let the sidecar in after the purge (`Admitted`), the cursor the
sidecar came with (`Sending`).  `MatchedCovers` turns "no publish in between" into "no older
release".  It needs that a finite set of numbers has a largest member (`HasMax`): proved from the
well-foundedness of strict inclusion, as induction over the set is out of the prover's reach.
Two lemmas say once what any step may make of the work for a sidecar (`NextMoved`) and of its
stream (`NextStream`); each part of the invariant is proved from them, not from the 29 actions.

**A sidecar that left is left alone.**  `Belongs`: a sidecar that is no longer subscribed is no
member, and its own matching is over.  Work begins only for members, from the retry lists, or for
a sidecar that is let in (`WakeMove`); so whoever has left without work under way gets none
(`LeftAlone`).

**The news reaches everybody.**  That nobody sends a wrong release says nothing of who is sent none.
`OnItsWay` follows an event from the log through the pipe and the queue to the handler;
`StaysOnItsWay` shows that no step but the handler's own takes it from there (`WayInv`).  From
the handler on, the release a sidecar matches is `Carried`: by a job that will read the groups
after the purge for the event or that has read them already, or by one of the retry lists; a
step that drops it without telling the sidecar puts the sidecar in `missed`, and every other
step hands it on (`JobHandsOn`, `HandedOn`).  So of every subscribed sidecar that has not heard
of its release, the release is `Coming` (`Informed`, in `KnowInv`).  When nothing is on its way
and nothing is under way, it has heard: `SettledKnows`.

**A deletion ends the streams.**  On the same way: the deletion is the last event of the log
(`DeletedLast`), and while a member's stream has not been told to end, it is still coming to the
handler (`Closing`).  Who becomes a member behind the purge for the deletion is `late`; anybody
else is let in before it, while the deletion is still to come to the handler (`LetInBefore`).

**Model-checked only.**  Liveness (`EventuallyHandled`, `StaleIsRefreshed`, `EventuallyTerminal`):
it rests on fairness and so on ENABLED, which the prover does not reason about.

## 6. Where the code and its comments differ

Each is a run that TLC refutes, with the source line in `PROJECT.json`:

1. `EventLoopSkips` — an event whose row commits after that of a higher id is passed by
   the cursor and never handled (`dao/id.go:53`, against `dao/event.go:51-53`).
2. `EventLoopCredentials` — `refreshCredentialCache` returns at the first deleted
   credential instead of going on with the next (`consumer.go:585`, `592`).  In the run the page
   holds the update of a credential that is deleted before it is read, and behind it the second
   update of another one, whose first version stays in Redis.
3. `PublishRevoke` — a revocation and a publication that overlap leave an order revoked
   whose release is out (`publish.go:234`, `613`).
4. `PublishCountersign` — with ITSM v2, polling a running ticket passes a countersign
   with the vote of one approver (`sync_ticket_status.go:129`, `publish.go:718`).

Met while reading, and not stated as runs:

- A scheduled order whose time comes before its submission commits is never published
  by the job: its time is put in the zset first (`publish.go:165`), the job finds no
  row and removes every id it read (`event/publish.go:212`).  `late` holds these
  orders, and `ScheduledIsQueued` exempts them.
- Two approvers who pass a countersign on the page at the same time each write the
  remaining approvers they had read; one approval is missing in `approver_progress`
  until the ticket's callback.
- A request through the API passes an order without the approvals its app asks for: its user
  is not looked for among the approvers (`publish.go:704`), config-server asks no permission for
  a pass (`config-server/service/publish.go:223-225`), and one that names no operate way passes a
  countersign alone (`publish.go:718`).  `unvetted` holds these orders.
- When the commit of a decision fails after ITSM was told, the polling has to bring the row up
  to the ticket.
- A ticket of ITSM v4 that is withdrawn without a vote is never synchronised by the
  polling: there is no vote to return.
- A pass on the page for a ticket that ITSM has finished with a rejection still passes
  the order (`publish.go:1178-1182`): only the polling and the callback look at the
  votes.  Who approves on the page is an approver, so `ApprovedAsRequired` holds.
- When approval is switched on for an app while an order without a ticket waits, its
  ticket fields are empty.  `approval` is constant in the model.

In the feed server:

- A sidecar whose cursor lies between the stored one and the purge is let in and matched from
  the old cache (`observer.go:217-220`).  The comment at `eventc/scheduler.go:164-167` says
  that the wait avoids "mistaken matched released because of the inconsistently local
  cache".  It may be sent an older
  release than the one it has, until the event it already knew reaches it again.
- A release without key-values or config items is not sent, and the sidecar is not told so
  (`eventc/scheduler.go:287`, `312`).
- A value filled in after its purge (`lcache/released_group.go:97`) stays until its TTL.
- A first match that fails for another reason than "not found" is taken for release 0
  (`eventc/app_event.go:112-121`); a sidecar that has no release then hears of none.
- `app_event.go:114-115` filters out the sidecars that nothing matches "so that sidecar do not
  retry repeatedly"; the notification of an event does not, and such a sidecar goes round the
  retry list (`eventc/scheduler.go:271-275`).
- An event or a retry is dropped when the tenant of the app cannot be read
  (`app_event.go:159`, `scheduler.go:437`).
- A server that has restarted and seen no event refuses sidecars that come with a cursor
  (`observer.go:40`): its own is 0 until the next event.
- When the subscription of the second app of a stream fails, `Watch` returns without
  unsubscribing the first (`release/watch.go:50-77`).
- Two goroutines may call `Send` of one stream at a time (`release/watch.go:140`).

In the asynchronous download:

- A batch that is closed before its creator has added a task is ended as done by the refresh of
  another server, and put back to dispatching by its own dispatcher.  A task added after that
  comes too late for it, as in the next but one.
- A request that fails between the writes of `AddTask` leaves a target that is dispatched
  and no task that anybody counts.
- A request that read a batch as collecting may save it so after the dispatcher has closed
  it, or add its target after the targets were listed; the batch is then dispatched again, or
  the target is never transferred and times out.
- A repair overwrites nothing that ended, but a dispatcher that is still at work marks its
  shard running afterwards, and a repair cut short before the save of the batch leaves it to
  the next refresh, which takes the tasks for running or done again.
- Two servers refresh a dispatching batch at a time; the one with the older answer may save
  last.
- `finalizeCompletedBatch` and `tryReuseInflightTask` delete an inflight key by its target,
  whatever task it names by now: a second task is opened for the target.

In the task batches:

- A dispatch that the library refuses is only logged (`internal/task/task.go:132-135`), and so
  is a callback that cannot count (`executor/process/process.go:634`): the batch runs for ever.
- A retry that returns half-way has taken all failed tasks out of the counts; the batch runs
  for ever, and a further retry of the failed ones is refused once the counts would go below
  zero.
- Two retries of one batch at once subtract the same failures twice, when the counts allow it,
  and may restart a task that has succeeded.
