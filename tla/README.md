# TLA+ models of the WSO2 API Platform

This directory holds the formal models of the API platform's control protocols:
TLA+ modules translated from the Go and JavaScript source, TLC configurations that model-check
them on small instances, and TLAPS proofs of what matters most, for every value
of the constants. `PROJECT.json` maps every definition to the source lines it
models, and lists the runs, the mutants (plausible bugs each property has to
catch), the hazards the properties are aimed at, the findings and the theorems.

    tlc -config MC_EventHub_safety.cfg MC_EventHub      # one model-checking run
    tlapm EventHubCursorProofs.tla                      # one module of proofs

1. [The system](#1-the-system)
2. [The event hub](#2-the-event-hub-eventhub-eventlog)
3. [The deployment protocol](#3-the-deployment-protocol-deployment)
4. [The gateway's connections](#4-the-gateways-connections-gatewayconnections)
5. [The controller's replicas](#5-the-controllers-replicas-replicasync)
6. [The webhook outbox](#6-the-webhook-outbox-webhookoutbox)
7. [The proofs](#7-the-proofs)
8. [What the runs found](#8-what-the-runs-found)
9. [What is not modelled](#9-what-is-not-modelled)
10. [Plan](#10-plan)

## 1. The system

The platform API (`platform-api/`) is the control plane: it stores artifacts
(REST APIs, LLM providers, MCP proxies, ...) and their deployments to gateways.
A gateway is one or more *controllers* (`gateway/gateway-controller/`) on one
database, Envoy, and a policy engine (`gateway/gateway-runtime/`). A controller
keeps a WebSocket to the platform API, on which it hears about deployments and
answers; it fetches contents over HTTP. Both the platform API's replicas and a
gateway's controllers tell each other about changes through a table of events
(`common/eventhub/`).

    request -> platform API service -> deployment_status row
                      |
                      v
               event hub (SQL) -> dispatcher -> WebSocket -> controller
                                                                |  fetch content
                      ack  <------------------------------------+  guarded upsert
                      |                                         v
               status row                         event hub -> controller replicas
               ^                                                |
               timeout job                        memory store -> xDS -> Envoy,
                                                                  policy engine

### Inventory

| Component | State it keeps | Operations | Interacts with | Hard about it | Correct when |
|---|---|---|---|---|---|
| Event hub (`common/eventhub`) | tables `gateway_states`, `events`; per process a registry of gateways with subscriber channels, `knownVersion`, `lastPolled` | RegisterGateway, PublishEvent, Subscribe, Unsubscribe, UnsubscribeAll, the poll loop, Cleanup, Close | dispatcher (platform API), event listener (controller) | polling beside publishing, bounded channels that block, equal timestamps, locks dropped between a check and a write, shutdown | no event within the window is skipped; order per channel; no send on a closed or full channel; every event is offered in the end |
| Deployment service, repository and timeout job (`platform-api/internal/{service,repository}/deployment*.go`) | tables `deployments`, `deployment_status` (one row per artifact and gateway) | deploy, restore, undeploy, delete, HandleDeploymentAck, processStaleStatuses | event hub, controllers | requests in flight together on one row, late and duplicate answers, a timeout racing an answer, a write or broadcast that fails half way | a settled status is true of the gateway; an answer changes only its own operation; nothing stays in transition; both sides agree once quiet |
| Control-plane client (`gateway-controller/pkg/controlplane`) | the gateway's `artifacts` rows, with `deployment_id`, desired state and `deployed_at` | handle deployed / undeployed / deleted, bulk sync on first connect, acknowledgement, reconnect loop | platform API, gateway database, event hub | several controllers on one database, events lost while disconnected and replayed after it, a sync that races the read loop | the row never goes back to an older operation; no answer for what was not done |
| Connection registry and dispatcher (`platform-api/internal/websocket`, `service/event_dispatcher.go`) | connection list per gateway, connection counts per organisation, one event hub subscription per connected gateway | Register, Unregister, heartbeat monitor, OnGatewayConnected, OnGatewayDisconnected, deliver | event hub, controllers | read-modify-write of a list in a `sync.Map`, connections that come and go together | a live connection is listed, a listed gateway is subscribed, counts match |
| Event listener, memory store and xDS managers (`pkg/eventlistener`, `pkg/storage/memory.go`, `pkg/*xds`) | in-memory copies of the database's rows, snapshot caches with versions | apply an event, rebuild a snapshot | event hub, Envoy, policy engine | an event applied after a newer one, a row changed between the event and the read | every replica's snapshot ends up at the database's state |
| API keys (`pkg/utils/api_key.go`, `service/apikey.go`) | keys per artifact and user | create, update, revoke, regenerate, list | event hub, policy engine | limits under concurrent creates, a revocation that races a sync | no more than the limit; a revoked key is gone everywhere |
| Bottom-up import (`service/artifact_import.go`, `controlplane/sync.go`) | origin and watermark of artifacts created at a gateway | push, retry, import | platform API | last-in-wins between two gateways, retries | the newest push wins |
| Policy engine (`gateway-runtime/policy-engine`) | policy chains by route, from xDS | replace resources, execute a chain on a request | controller, Envoy | replacement under requests in flight | a request runs one consistent chain |
| Webhook outbox (`portals/developer-portal/src/{dao/eventDao.js,services/webhooks}`) | tables `dp_events`, `dp_event_deliveries` | publish, claim events, create deliveries, claim deliveries, mark, recover, reconcile | subscribers' HTTP endpoints | several dispatchers and workers, a process that stops between a claim and its work, a slow answer after the recovery | every event reaches each subscriber or is marked failed, and its status says which |
| Event gateway (`event-gateway`) | WebSub subscriptions, broker connections | subscribe, verify, publish | brokers | outside services | subscriptions survive and expire as asked |
| Rendering and templating, gateway builder, Kubernetes operator, CLI, portals, SDK | none of their own, or the API server's | - | - | - | see section 9 |

The first three rows are where a customer's change is won or lost: the status
row says what the gateway is believed to run, the events are how the gateway is
told, and the timestamps on both sides are the only thing that orders them.
They were modelled first; then the two ends of the event hub (the dispatcher
that feeds the WebSockets, the listener that feeds memory and the policy
engine), and the developer portal's outbox.

| Module | Component | Between its actors |
|---|---|---|
| `EventHub`, `EventLog` | event hub, and what it promises | two SQL tables, channels |
| `Deployment` | deployment service, control-plane client | status row, event log, acknowledgements, the gateway's row |
| `GatewayConnections` | connection registry, dispatcher | the connection list, the count, the subscription, `is_active` |
| `ReplicaSync` | event listener, memory store, key store | the controller's database and the event log |
| `WebhookOutbox` | publisher, dispatcher, delivery worker | two SQL tables, and the connection they share |

## 2. The event hub (`EventHub`, `EventLog`)

**State.** The two tables (`rows`, `version`, `events`, and `txs` for publish
transactions that have inserted but not committed); per replica, the registry
(`registered`, `subs`, `known`, `lastPolled`), the channels (`chan`, `buf`) and
the polling goroutine's locals (`pc`, `snap`, `page`, `more`, `cursor`, `cur`,
`ver`, `bound`, `batch`, `last`, `blocked`). Three history variables record what
was sent (`offered`), what a pass delivered to an empty list of channels
(`missed`), and where the window of a cursor began (`floor`). Payloads are left
out; an event is its primary key and its timestamp. Times are numbers, 0 is the
unset `lastPolled`.

**Actions and code.**

| Action | Code |
|---|---|
| RegisterGateway, Subscribe | the functions of the same names, registry part included |
| RemoveSubscriber, RemoveAllSubscribers, CloseChannel | Unsubscribe and UnsubscribeAll: the registry change under the lock, and then the `close(ch)` outside it |
| PublishInsert, PublishCommit, PublishRollback | Publish: the insert with its `time.Now()`, and the commit that makes row, event and version visible together |
| Cleanup | Cleanup of the `cleanupLoop` |
| PollStart, PollPage, PollPageError | pollGateways: the snapshot of the registry, each page of `gateway_states` |
| PollGateway, PollFetch, PollFetchError, PollDeliver, PollEndDelivery, PollUpdate | pollGatewayWithState: the check under the read lock, the query with the boundary trim, the delivery loop (read lock held), the cursor update under the write lock |
| CloseBegin, CloseCollect, CloseGateway | Close: cancel, wait for the goroutines and list the gateways, close each gateway's channels |
| Exit, Initialize | the end of a process, at any point, and a new one |
| Receive | a consumer reading its channel |
| Tick | time |

Each lock region is one action; where the code drops a lock, other actions may
interleave. The delivery loop holds the registry's read lock over its sends, so
registry writes wait for `pc = "deliver"` to end. `SerialWriters` says whether
the database admits one write transaction at a time (SQLite, the controller's
default) or several (PostgreSQL). Several wait for each other in one place:
ensureGateway inserts the gateway's row unless it exists, and while a
transaction that creates the row is open, the next publish or registration of
that gateway waits for it before it takes its time (`RowFree`). Once the row is
there they overlap. (SQL Server's form of that statement locks the row each
time; its transactions of one gateway are serial, `SerialWriters`.) A publish of a key that exists changes nothing
(`eventExists`) and so has no action.

**Runs.**

| Run | Instance | Shows |
|---|---|---|
| hub_safety | 1 replica, 1 gateway, 2 channels of capacity 2, 2 events, time to 4, retention 1, equal timestamps, one writer | `TypeOK`; `SubscribersOpen` (no send on a closed channel, no double close); `BufferBounded` (a send never blocks under the lock); `ChannelOrdered`; `CursorSound` and `CaughtUpSound` (no event is overtaken by a cursor, none is forgotten by a replica that believes it is up to date); `CursorMonotone`; `ImplementsLog` |
| hub_liveness | 2 gateways on pages of one, a channel of capacity 1, retention 0, fairness | `EventuallyOffered`: a gateway behind a page boundary is reached, and an event that found the channel full of an expired one is offered later |
| hub_commit_order | 2 events, concurrent writers, a gateway that is registered | violation of `CaughtUpSound` (section 8) |

**The abstract log.** `EventLog` is what the hub's users rely on: per gateway, a
log that grows at its new end and loses its old one; every replica passes the
stored events on in the order of their timestamps and leaves none out from the
place where its reading began (`from`). Reading is at least once after a
`Reset` and may be given up at any time (`Drop`). `EventHub` implements it with
`stored <- events`, `taken <- batch`, `passed <- Passed`, `from <- floor`
(`ImplementsLog`, checked in hub_safety); polls, pages, versions, cursors,
channels and the boundary trim have no counterpart in it. `Deployment` and
`ReplicaSync` read such a log: `pos` moves forward over it, and back on a
reconnect or restart.

**Bounds.** Two events are enough for a cursor to be between them, at one of
them, or at both (equal timestamps); the third position is past the retention.
Two channels are enough for one to be full while the other has room. Capacity
two lets a channel hold a pair whose order can be wrong. A second replica would
add only a second reader of the tables: replicas share nothing but the tables,
publishers are not bound to the reader's replica, and the proofs cover any
number of replicas. In hub_liveness each gateway has one key; the
second event of a gateway is the same key published again after the first has
expired, while the channel still holds that one. `MaxTime`, `MaxPublishes` and
`EventIds` bound the
clock, the transactions and the keys; `MaxTime` exceeds the first timestamp by
more than the retention, so cleanup happens.

**Fairness.** Goroutines are scheduled, the tick of the poll loop keeps coming,
consumers keep reading: weak fairness. A query may fail any number of times, but
not for ever: strong fairness of the page query at each cursor position and of
the event query of each gateway, which a pass attempts anew every time. Nothing
is assumed of publishers, subscribers, shutdown or the clock.

## 3. The deployment protocol (`Deployment`)

One artifact on one gateway. The status row is per artifact and gateway, and the
gateway's row per artifact, so pairs do not interact; the hard limit is counted
per pair as well.

**State.** Of the platform API: the deployments (`deps`, `nextDep`), the status
row (`st`), the requests in flight (`rpc`, `rop`, `rdep`, `rat`) and the row the
timeout job holds (`entry`). Between the parts: the published events in order
(`log`) and the acknowledgements (`acks`). Of the gateway: the artifact's row
(`cfg`), and per controller its place in the log (`pos`), its read loop (`hpc`,
`hev`, `hdata`) and its bulk sync (`spc`, `srow`, `sdata`). History variables:
operations that have got their `performed_at` (`stamped`), the Creates with
theirs (`created`), the operations a controller acknowledged (`applied`). The
content of a deployment is the deployment's own number, so that a controller
that stores the wrong content is seen. The clock is finer than the millisecond
to which the services truncate `performed_at` (`Ms`); Create does not truncate.

**Actions and code.**

| Action | Code |
|---|---|
| DeployCreate | DeployAPI to the end of CreateWithLimitEnforcement (one transaction: limit, insert, status row) |
| RestoreCheck, UndeployCheck, DeleteCheck | the checks of the three requests, before their write |
| Stamp | `performedAt := time.Now().UTC().Truncate(time.Millisecond)` |
| SetCurrent, SetCurrentError | SetCurrentWithDetails and its failure: DeployAPI goes on, the others return |
| Send, SendError | the broadcast; its failure is logged only |
| Delete | DeploymentRepo.Delete, with the cascade to the status row |
| HandleAck, LoseAck | HandleDeploymentAck through UpdateStatusWithPerformedAtGuard; the acknowledgement that gets lost |
| TimeoutScan, TimeoutResolve, TimeoutError | processStaleStatuses: the query (a query that fails leaves everything as it was), and then the guarded update of each row, or its failure |
| Receive, Fetch, Read, Save, HandleError | handleAPIDeployedEvent and handleAPIUndeployedEvent: the message, the fetch or the read, the guarded UpsertConfig with its answer, and a failure on the way |
| Connect, Disconnect, Restart | the connection; on connect the position in the log may have moved (missed or replayed events); a restart also loses any of the controller's answers that have not arrived, so it may come between the write and the answer |
| SyncList, SyncDiff, SyncFetch, SyncRead, SyncSave, SyncError | the bulk sync on a process's first connect: list, computeSyncDiff, fetch batch, status update |
| Tick | time |

Reading the row, fetching content and writing are separate steps, so any other
actor may act between them. Failures (a call, a message, a process) each count
against `MaxFaults`.

**Runs.**

| Run | Instance | Shows |
|---|---|---|
| deploy_ha | 1 request at a time, 4 operations, 3 deployments with the limit at 2, 2 controllers on one database, no faults, statuses without transition | `ConvergedWhenQuiet`: once everything is handled, a DEPLOYED or UNDEPLOYED row describes what the gateway runs, content included; `LimitHolds`; `CurrentKept`: the cleanup at the limit never drops the deployment the row names |
| deploy_races | 2 requests together, transitional statuses, a bulk sync, 2 faults of any kind, timeouts | `TypeOK`; `Confirmed`: a settled status was acknowledged for exactly that operation; `FailedIsFinal`: no late answer revives a failed one; `NewRowKept`: an answer or a timeout never touches the row of another operation |
| deploy_timeout | every message losable, fairness | `TransitionResolves`: DEPLOYING and UNDEPLOYING end |
| deploy_sync_undeployed | 1 request, a bulk sync | violation of `UndeployedNotServed` (section 8) |

**Bounds.** Two requests make every overlap of check, token, write and event
possible, and two operations are enough for an answer or timeout about one to
meet the row of the other. In deploy_ha four operations on three deployments
reach the limit (`HardLimit` 2, `Batch` 1; in the code 20 + 100 by default, and 5),
restore an archived one and undeploy it. `MaxTime` leaves room for a timeout
after the last token (`MaxOpTime`). `CHECK_DEADLOCK FALSE`: the clock and the
requests are bounded, so the system comes to rest.

**Fairness.** Only that time passes, that the timeout job's ticker fires and
that its updates do not fail for ever (`MaxFaults`):
`TransitionResolves` needs nothing else, since the job is there for the case
that nobody answers.

**Ties.** Tokens are milliseconds; two operations on one artifact and gateway
within the same one share a token, and the code has no rule for that. All runs
assume distinct tokens (`Ties = FALSE`), and the theorems that need it name the
assumption.

## 4. The gateway's connections (`GatewayConnections`)

The connections of one gateway on one instance of the platform API. Several
controllers of a gateway connect under one gateway id, and a controller that
lost its connection comes back with another, so connections overlap.

**State.** The manager's `count` and the gateway's `list`; per connection
whether it is closed here (`closed`) and answered there (`peer`), where its
Connect handler is (`pc`) and its heartbeat monitor (`mon`); the column
`is_active`; the dispatcher's subscription (`sub`) with a dispatch loop each
(`loop`, `todo`). Unregister is called by three kinds of goroutine, and each has
its place in it (`at`), the list it loaded (`view`) and, for a loop, whom it
removes (`victim`). The history variable `lost` is set when a store is based on
a list that has changed since it was loaded.

**Actions and code.** Register: `RegisterCount` (the limit, under the lock),
`RegisterLoad`, `RegisterStore` (with the start of the monitor), `RegisterHook`
and `RegisterHookFails` (OnGatewayConnected, under the dispatcher's lock).
Unregister: `UnregisterLoad`, `UnregisterStore`, `UnregisterClose`,
`UnregisterHook` (OnGatewayDisconnected), `UnregisterCount`. The handler:
`MarkActive`, `ReadError`, `CheckRemaining`, `MarkInactive`, `MarkFails`. The
monitor: `MonitorTick`, `MonitorExit`. The dispatch loop: `Deliver`, `Send`,
`Delivered`, `LoopExit`. Shutdown: `ShutdownManager`, `ShutdownDispatcher`;
Register does not ask whether the manager is shutting down, and a connection
registered after the manager has closed the listed ones stays open.
`PeerGone` is the gateway's end of the connection.

**Run.** `connections`: two connections, at most two counted, two subscriptions,
one failing call, a shutdown at any time of the first subscription.

| Property | Says |
|---|---|
| `CountExact` | `connectionCount` is what is listed plus what is on its way in or out: a connection that handler, monitor and dispatch loop unregister one after the other is counted down once |
| `ConnectedIsServed` | an established connection is listed and its gateway subscribed: a late hook of an earlier connection never ends the subscription of a new one (the desynchronisation the comment of OnGatewayDisconnected is about) |
| `ListedIsWatched` | a listed connection has a heartbeat monitor, or somebody is unregistering it |
| `InactiveWhenGone` | when the last handler has ended the gateway is not left marked active |

All of them end where an update of the list is lost: the manager loads the
list, builds another and stores that, with no lock over the three. TLC reaches
this at once - two controllers of a gateway that connect at the same time, the
second store forgets the first connection, which stays open but is never sent
an event; two goroutines that unregister the same connection at the same time
both count it down, although `manager.go:197` calls Unregister idempotent. The
states behind such a store are not explored (`CONSTRAINT Explored`), nor is a
shutdown after a failed call or a second subscription: a shutdown treats every
subscription alike and repairs nothing that failed.

**Bounds.** Two connections are one that goes while another comes, which is what
the hooks have to survive; a third adds only another of the same. Two
subscriptions let the first be ended and a second begin. `RegisterHook` waits
when the bound on subscriptions is reached.

## 5. The controller's replicas (`ReplicaSync`)

A gateway's controllers share a database. Whoever changes it publishes an event
with the id of what changed, and every replica reads the row when it handles the
event - so what a replica sees may be newer than the event, or gone.

**State.** The handle's row (`dbConf`), per API the row of the key name
(`dbKey`), the published events (`log`); per request where it is and what it has
read (`pc`, `op`, `api`, `key`); per replica its place in the log (`pos`), the
API whose keys it is about to load (`busy`), its memory (`conf`, `mem`) and the
key store the policy engine is fed from (`xds`). An API that is deleted and
created again under the same handle is another API. Requests are numbered, and
what a request writes carries its number, which is both the value and its
`updated_at`, so that an older value is told from a newer one.

**Actions and code.** `StartCreateApi` to `StartRevokeKey` are the reads and
checks of a request, `WriteApi` and `WriteKey` its write (UpsertAPIKey replaces
the row of a name unless that row is as new, and the request goes on either way;
UpdateAPIKey keeps the id), `Publish` and `PublishFails` the event, `RemoveKey`
and `RemoveKeyFails` the removal that ends a revocation. The update of a key
that does not exist is a creation in the code and in the model. `HandleApi` and
`SyncKeys` are handleAPICreateOrUpdate and the loading of the API's keys after
it, `HandleApiGone` handleAPIDelete, `HandleKey` and `HandleKeyGone` the two key
handlers; each names the early returns that leave memory or the key store
alone. `Restart` is the loading at start, with a subscription that may begin
anywhere in the log.

**Runs.** `replica_sync`: six requests one after the other on two APIs under one
handle, one replica, one publication or removal that fails, one restart.

| Property | Says, of a replica that has handled everything, when no publication and no removal failed |
|---|---|
| `ApiFollows` | its memory has the database's version of the API |
| `KeyFollows` | its memory has the database's key |
| `KeyServed` | the policy engine has the keys of the database, in their last value |
| `RevokedLeaves` | the policy engine has no other key |

`KeyFollows`, `KeyServed` and `RevokedLeaves` end where a new key was written
under a name that had a row (`overwritten`): StoreAPIKey refuses the new key in
memory, so a key the user has been told of may never work (section 8).
`RevokedLeaves` ends also where a key came with an API event while memory did
not have it (`adopted`): without that exception it is what `replica_revoke`
refutes.

**Bounds.** Replicas share nothing but the database and the log, so one shows
what each does. Six requests create an API and a key, change, revoke or replace
the key, and delete and recreate the API around it. One request at a time keeps
events in the order of the writes; with requests in flight together two events
may be published in the opposite order, which changes nothing for handlers
that read the row, except around deletions (sections 7 and 9).

## 6. The webhook outbox (`WebhookOutbox`)

Requests of the developer portal publish events inside their own transaction;
a dispatcher turns events into one delivery row per subscriber; a worker posts
the rows. Both run on intervals that do not wait for the batch before, and the
dispatcher also whenever a request publishes.

**State.** Per request its transaction (`tx`) and what it will make visible
(`heldRows`, `heldEv`); the committed status of events and delivery rows
(`event`, `row`) and the rows in flight too long (`old`); per dispatcher batch
and worker batch its work and its place in it. `host` is the publisher in whose
asynchronous context a woken batch runs: `db/driver.js` looks the transaction
up in its AsyncLocalStorage and sends the statements there, so `Joins` says
into which transaction a statement falls: the publisher's, none, or that of
whoever has the connection by then.

**Actions and code.** `PublishPlain`, `PublishKey`, `Commit`, `Rollback`;
`DispatchClaim` (claimPending), `Match`, `Insert`, `InsertFails`;
`WorkerClaim` (claimDueDeliveries with the recovery of abandoned rows), `Post`,
`Mark`, `ReconcileRead`, `ReconcileWrite`, `WorkerFails`; `Age` (five minutes
pass for a row, its worker slow or gone) and `Crash`. A statement that fails
inside another request's transaction leaves that transaction usable on SQLite;
on PostgreSQL it can only be rolled back then, which is `InsertFails` followed by
`Rollback`.

**Runs.** `outbox`: two events, one of them with secrets, two subscribers, two
dispatcher and two worker batches, one fault of any kind.

| Property | Says |
|---|---|
| `AtMostOnce` | no delivery row is posted twice, whatever overlaps, crashes or comes late |
| `KeyDelivered` | an event with secrets that is ALL_DELIVERED was delivered to every subscriber (not so for plain events, section 8) |
| `Settled` | without faults and rollbacks, when nothing is left to do every event has ended, with one row per subscriber |

`outbox_wake` drops "and rollbacks" (`RollbackIsOwn`) and fails (section 8).

**Bounds.** Two batches of each kind make every overlap of claim, insert, mark
and reconcile possible; with two subscribers an event has two rows to be
reconciled by two workers. Two copies of a row leave room for the second one a
repeated fan-out inserts.

## 7. The proofs

All hold for every value of the constants that satisfies the named assumptions
(`HubAssumption`, `DeploymentAssumption`, `ConnectionsAssumption`,
`SyncAssumption`, `OutboxAssumption`; they only say which constants are numbers,
positive numbers, Booleans or subsets of one another). Where a theorem needs
more, its statement says so.

| Module | Theorem | Statement |
|---|---|---|
| EventHubProofs | TypeCorrect | `Spec => []TypeOK` |
| EventHubProofs | ChannelsSafe | `Spec => []SubscribersOpen` |
| EventHubProofs | SendsNeverBlock | `Spec => []BufferBounded` |
| EventHubCursorProofs | NothingOvertaken | with `SerialWriters`, `Spec => []CursorSound` |
| EventHubCursorProofs | NothingLost | with `SerialWriters`, `Spec => []CaughtUpSound` |
| EventHubLogProofs | CursorsMoveForward | `Spec => CursorMonotone` |
| EventHubLogProofs | ChannelsInOrder | `Spec => []ChannelOrdered` |
| EventHubLogProofs | HubImplementsLog | with `SerialWriters`, `Spec => ImplementsLog` |
| DeploymentProofs | DeploymentTypeCorrect | `Spec => []TypeOK` |
| DeploymentProofs | SettledIsConfirmed | with `~Ties`, `Spec => []Confirmed` |
| DeploymentProofs | FailureIsFinal | with `~Ties`, `Spec => FailedIsFinal` |
| DeploymentProofs | NewOperationKept | with `~Ties`, `Spec => NewRowKept` |
| DeploymentProofs | LimitKept | `Spec => []LimitHolds` |
| DeploymentProofs | CurrentSurvives | `Spec => CurrentKept` |
| DeploymentProofs | GatewayConverges | with `Sequential`, `Spec => []ConvergedWhenQuiet` |
| GatewayConnectionsProofs | ConnectionsTypeCorrect | `Spec => []TypeOK` |
| GatewayConnectionsProofs | CountCorrect | `Spec => []CountExact` |
| GatewayConnectionsProofs | ConnectedServed | `Spec => []ConnectedIsServed` |
| GatewayConnectionsProofs | ListedWatched | `Spec => []ListedIsWatched` |
| GatewayConnectionsProofs | FlagCleared | `Spec => []InactiveWhenGone` |
| ReplicaSyncProofs | SyncTypeCorrect | `Spec => []TypeOK` |
| ReplicaSyncProofs | ApisFollow | with `OneRequest`, `Spec => []ApiFollows` |
| ReplicaSyncProofs | KeysFollow | with `OneRequest`, `Spec => []KeyFollows` |
| ReplicaSyncProofs | KeysServed | with `OneRequest`, `Spec => []KeyServed` |
| ReplicaSyncProofs | RevokedKeysLeave | with `OneRequest`, `Spec => []RevokedLeaves` |
| WebhookOutboxProofs | OutboxTypeCorrect | `Spec => []TypeOK` |
| WebhookOutboxProofs | PostedOnce | `Spec => []AtMostOnce` |
| WebhookKeyProofs | SecretsDelivered | `Spec => []KeyDelivered` |
| WebhookKeyProofs | EventsSettle | `Spec => []Settled` |

Every inductive invariant below was an invariant of TLC's on the instance of the
component's run before it was proved.

### The event hub

*ChannelsSafe, SendsNeverBlock.* `SubscribersOpen` and `BufferBounded` are
inductive together with `UnusedEmpty` (a channel never handed out has an empty
buffer): the delivery loop checks all buffers of the list it sends to, and the
list changes only when the loop does not hold the read lock.

*NothingOvertaken, NothingLost.* `CaughtUpSound` speaks only of the moments at
which a version is known; what carries it from one such moment to the next is
`CursorInv`:

- `TableInv`: no event is stamped in the future, there is at most one open
  transaction and it is younger than every stored event (here `SerialWriters`
  enters), versions are handed out once;
- `GatewayInv`, for each replica and gateway: at the cursor there is a delivered
  event, unless everything at that time has expired (which is why the boundary
  trim drops only a replay); a gateway whose cursor is unset has empty
  channels, so that its first delivery cannot be blocked; both properties;
- `PassInv`, for each pass: every stored event of the gateway being polled is
  delivered, in the batch, or was committed after the version of the pass was
  read, so that the version it will store is not the current one.

Steps that only change the tables, only walk the pages, or only concern another
replica are each handled once (`TablesKeep`, `WalkKeeps`, `Elsewhere`); fetch,
delivery, end of delivery, update and exit have a lemma each.

*CursorsMoveForward.* The cursor a pass stores was computed several steps before,
so the property needs `ForwardInv`: what the pass has reached (`Reached`: the
last event it delivered, or the cursor it started from) is not behind the
stored cursor, and the batch is not behind it either.

*ChannelsInOrder* holds with concurrent writers too: `OrderInv` says that what is
in a channel's buffer is ordered and not ahead of what its pass has reached, so
the next send is not behind the buffer's end. An event that commits late is
then lost (`hub_commit_order`), never delivered out of order.

*HubImplementsLog* is the refinement of section 2, step by step. `PassedInv` (what
a replica has passed on implies that it has a cursor, or will have one at the
end of its pass) makes the deliveries of one pass those of the abstract log;
`CursorInv` gives that nothing was left out, which is where `SerialWriters` is
needed: with commits out of order the hub does not implement the log, and
`hub_commit_order` is the counterexample.

### The deployment protocol

*DeploymentTypeCorrect.* The one part of the type that is not by construction is
that the sync never writes a state `ParseDesiredState` does not know; it needs
`SyncParsed`: a sync that has decided on a status update holds a row whose
status parses.

*SettledIsConfirmed.* `Confirmed` relates the row to what controllers answered,
and needs the chain in between: `TokenUnique` (from `~Ties`), and that whatever
carries a token carries that operation (`RequestStamped`, `LogStamped`,
`HandledStamped`, `AcksApplied`, `RowStamped`). So the row an answer with an
equal token settles is the row of the operation it answers. The conjunction,
`ConfirmInv`, is inductive.

*FailureIsFinal, NewOperationKept.* Properties of steps, from `TokenInv`: every
token a request is about to write was issued, is not the row's, and is no other
request's (`WriteAhead`), so a write always brings another token; and the row
the timeout job holds was stale when it was read (`EntryStale`). An answer or
the timeout job, which name the row by its token, then find either the row they
mean or none. For `NewRowKept`, `ConfirmInv` says in addition that the answer is
the operation's.

*LimitKept.* `LimitInv` adds that the deployments in the table are a finite set.
The insert is preceded by a deletion of the oldest archived ones, and
`KeptLeavesRoom` is the counting argument: at the limit at least one archived
deployment is among the oldest, so what is kept is below the limit. It needs
neither distinct tokens nor any order of requests. *CurrentSurvives* goes through
the steps: Create drops only what is archived when it counts, and Delete takes
the row with its deployment.

*GatewayConverges.* For any number of controllers, operations and deployments,
with and without transitional statuses, under `Sequential`: at most one request
at a time, distinct tokens, no bulk sync, and at least one controller. The first
and the third are needed: TLC refutes the property for two requests together
(section 8), and `deploy_sync_undeployed` shows what the sync does. The property speaks of behaviours without failures, and
so do those parts of its inductive invariant `ConvInv` that are about the row.

- `ClockAhead`, `LogOrdered`, `RequestAhead`: tokens are not in the future, the
  published events are in the order of their tokens, and a request's token is
  later than all of them;
- `InHand`, `CfgFromLog`: what a controller works on is the event at its place in
  the log, and what the gateway's row holds is what some event asked for;
- `RowOwned`, `SendRow`: the status row is the one Create wrote for the request
  under way, that of the request about to send its event, or that of the last
  published event (`RowOfLast`); with `RequestExists` and `RowShape` about the
  request and the row by themselves;
- `LastRow`, `LastContent`: a row of the last event has its operation and
  deployment, and what was fetched for that event is its deployment's own
  content, although a fetch returns what is current at the time of the fetch;
- `LastSettles`: the gateway's row was written by the last event, or an
  undeployment found nothing to do, or the event was answered with a failure, or
  some controller has events ahead of it or in its hands.

The last part is the argument. Each of several controllers handles every event,
old ones beside new ones, and the guard of UpsertConfig lets only the newest
token through; so an old event never undoes the last one, and the last one is
refused only where it has been applied already. When all controllers are quiet
none has an event ahead, so the last one has settled the row, and by `RowOwned`
and `LastRow` that is the row the platform API shows.
`ConvInv` was checked by TLC on deploy_ha's instance (1.8 million states without
its symmetry) and, with transitional statuses and one failure, on an
instance of 4.3 million states.

### The gateway's connections

For any number of connections, loops and overlapping calls of Unregister.

*CountCorrect, ConnectionsTypeCorrect.* As long as no update of the list was lost.
`CountExact` is inductive with `ActorInv`:
whoever runs Unregister does it for one connection that has been registered, and
has found it in the list it is about to store. A second goroutine that stores
after the first has based its list on an older one, which is a lost update (the
count is then lowered twice, and the theorem says nothing); without one it is
lowered once. That the count is a natural number, the
only part of the type that is not by construction, follows.

*ConnectedServed.* `ListInv`: a registered connection is listed, or closed, or
about to be closed by the goroutine that has unlisted it (`Closing`); it leaves
the list for good. `ServedInv`: the hook of a late Unregister ends the
subscription only if it finds the list empty under the dispatcher's lock, and
then every connection whose own hook has run is `Closing`.

*ListedWatched* is inductive by itself with `ActorInv`.

*FlagCleared.* `LeftInv`: a handler that looks for the connections that remain does
not find its own. `ActiveInv`: as long as the flag is set some handler has still
to look. The last one to look finds none and clears the flag.

All of them are about the states before an update of the list was lost, as the
properties are (section 4).

### The controller's replicas

*SyncTypeCorrect* holds with any number of requests. Versions are bounded
because each request that has still to write makes one at most: `WriteInv`
counts them.

The other four are for one request at a time (`OneRequest`), as the run is. That
is not only convenience: of two requests, one may delete an API and the other
create its successor under the handle, and the successor's event may be
published first. Add refuses it, since the old API still has the handle, the
deletion's event removes the old one, and the successor is not loaded until its
next event. The three about keys say nothing once a new key was written under a
name that had a row, as the properties do (section 5); in particular KeysServed
does not promise that such a key works. `SyncInv` says, as long as nothing
failed:

- `RequestInv`, `RowInv`: what a request has read is still so when it writes, and
  the row it finds is older than what it brings; a key
  has a row only while its API has, and is active unless it is being revoked;
- `LogInv`: in the events published and the one about to be, APIs and keys come
  in the order in which they were created, and the event that ends one is the
  last about it;
- `ConfInv`, `KeyInv`, `StoreInv`, for each replica: wherever the replica differs from
  the database, an event that repairs the difference is still ahead of it
  (`Repair`), and for whatever it holds that is not in use, an event that takes
  it away (`Removal`).

The invariant never says which event that is: a replica handles old events
against new rows, and repeats them after a restart, and each handler either
leaves the difference with its event ahead or removes it. The two arguments
that are not routine are that no handler refuses what it must not:
`EarlierGone` (an API's event never meets another API under the handle) and
`Storable` (nor a key's event another key under the name), both from the order
of the log. A quiet replica has nothing ahead, so it differs in nothing
(`QuietAgrees`).

### The webhook outbox

*OutboxTypeCorrect and PostedOnce.* Both follow from `OutboxInv`:

- `TypeOK`, and `SaysInv`: a worker about to mark a row holds a status of rows, one
  about to reconcile holds a status of events (it keeps both in one place, so
  the type needs this);
- `RowInv`: a row is held by at most one transaction or one worker's batch, it
  is unposted while it is held or PENDING, and a worker's row has left PENDING
  for good, because recovery leads to FAILED. This is where a retry of abandoned
  deliveries would break the proof;
- `KeyInv`: an event with secret fields is never PENDING, so the dispatcher never
  has it; before its publisher begins, its rows are unused. Without this, a
  publisher could hold a row that the dispatcher has inserted already.

*SecretsDelivered.* From `OutboxInv` with three more parts: `WorkInv` (no two workers
have the same row, and a row in a worker's hands is not DELIVERED before its
Mark), `AppearInv` (rows and status of an event with secrets appear together,
with its publisher's commit), and `VerdictInv` (a worker about to write
ALL_DELIVERED has seen every matched row delivered, and they stay so: the
recovery of abandoned rows touches only rows in flight).

*EventsSettle.* `Settled` speaks of behaviours without failures and rollbacks, and
so does its inductive invariant `SettleInv`: `OutboxInv`, and `CleanInv` as long
as nothing has failed (`Clean`, which a step never restores). `CleanInv` follows
an event on its way:

- `HeldInv`: only an open transaction holds statuses or rows, and of another
  request's event only once that event is committed: a dispatcher's statement
  that falls into a stranger's transaction is delayed, never lost;
- `StageInv`, `BatchInv`: an event is published once, claimed once, in the hands
  of one dispatcher, and has no subscribers before it is matched;
- `FanInv`: each matched subscriber has one row, numbered 1, in the table or in a
  transaction, or the dispatcher that has the event has still to insert it;
- `FlightInv`: a row in flight is in the hands of a worker (so that a row that
  counts as stale has met a failure);
- `EndInv`: about a DISPATCHED event something is still to be done. The case that
  needs care is reconcile: a worker that gives up on an event has seen a row that
  another worker still has to end.

When all is quiet nothing of this is left, so no event is DISPATCHED and the rows
are exactly those of the matched subscribers.

**Only model-checked:** liveness (`EventuallyOffered`, `TransitionResolves`),
which with its fairness is out of the prover's reach. Every other property of a
passing run is stated by a theorem.

## 8. What the runs found

Four runs end in a counterexample to what a comment or a document says.

- **hub_commit_order.** The timestamp of an event is taken before its transaction
  commits. On a database with concurrent writers, and once the gateway's row
  exists (its creation makes the second transaction wait), a later-stamped event may
  commit first, the cursor moves past the earlier one, and that one is never
  delivered. With one writer this cannot happen: that is `NothingLost`.
- **deploy_sync_undeployed.** The bulk sync fetches a row with another deployment
  id "regardless of state", and a fetched artifact is always stored as deployed,
  with the `deployed_at` of the undeployment; the undeployment's own event is
  then stale.
- **outbox_wake.** A dispatcher batch woken by a publisher keeps the publisher's
  transaction handle. By the time it marks an event that has no subscribers, or
  inserts its rows, the publisher has committed and another request may have a
  transaction open on that connection (on SQLite there is one connection, and
  the raw handle takes no lock). When that request rolls back, the statements
  are undone with it and the claimed event stays DISPATCHED. The comment of
  `sqliteAdapter.js` describes this very risk and says the lock excludes it.
- **replica_revoke.** A replica that handles an API's event late loads the API's
  keys into the policy engine, but not into memory. If such a key is revoked
  before its own event is handled, that event finds no row, and the
  revocation's event does not know the key's name, because names come from
  memory: the key stays valid in the policy engine until the replica restarts
  or the API is deleted. `api_key.go:502` calls the revocation "already
  complete" before the row is removed.

Divergences met on the way, without a run of their own. For the first four TLC
gives the counterexample when the instance or the property is changed as said:

- Two overlapping deployment requests (deploy_ha with a second request). The one
  with the older token may write the status row last; the gateway drops its
  event as stale and does not answer. `client.go:1628` relies on the timeout of
  the platform API, but that resolves only DEPLOYING and UNDEPLOYING rows, and
  with transitional statuses off (the default) there are none: the status stays
  UNDEPLOYED while the gateway serves the deployment, or the other way round.
  With one request at a time this cannot happen: that is `GatewayConverges`.
- A subscriber that leaves during a poll (`CaughtUpSound` for a gateway with
  subscribers, `offered` in the place of `Passed`). `pollGatewayWithState` checks for subscribers,
  drops the lock, and later sends and stores `lastPolled` and `knownVersion`
  without looking again. When the last subscriber leaves in between, the batch
  goes to nobody and the reset made by removeSubscriber is overwritten: a gateway
  that reconnects is not sent the event, although `topic.go:117` says it "replays
  all events missed during the disconnect window", and `sqlbackend.go:553` that a
  gateway without subscribers must "skip cursor advancement".
- A key created under a name in use (`KeyServed` without its exception). Creating a
  key does not check the name, and UpsertAPIKey gives the row of that name the
  new id. `StoreAPIKey` refuses a known name with another id (`memory.go:480`),
  so no replica passes the new key on: the key returned to the user is not
  accepted, and the replaced one is, until a restart.
- A plain event that is ALL_DELIVERED although a delivery FAILED (`KeyDelivered` for
  events without secrets; one event, two subscribers, one dispatcher, two
  workers, no fault). `reconcile` reads the rows and then writes the event's
  status, unconditionally, and the rows of a plain event are inserted one by
  one. A worker delivers the first row before the second is inserted, and finds
  all rows delivered; another worker then fails the second row and writes
  FAILED; the first one's late write makes it ALL_DELIVERED.
- A dispatcher that fails between two inserts of an event's rows, or stops after
  the claim. In the first case the event is claimed again and the subscribers
  that had a row get a second one, and so a second post (`AtMostOnce` is per
  row); in the second it stays DISPATCHED, and nothing looks for it (`Settled` is
  for runs without faults).
- A connection that registers between a handler's look at the remaining ones and
  its write of `is_active` stays established at a gateway marked inactive
  (`InactiveWhenGone` is the other direction).
- Overlapping updates of a gateway's connection list are lost, and overlapping
  unregistrations counted twice (section 4).
- A gateway whose connection failed in the middle of a send and that reconnects
  does not get that event again: `lastPolled` stays, and the boundary trim
  takes the event for a replay; `event_dispatcher.go` and `sqlbackend.go`
  expect the replay of `initialPollSkewWindow`.
- An undeployment that finds no row is answered with success and leaves no
  trace; a sync beside it may then store the older deployment it had listed
  before.
- Create writes a `performed_at` that is not truncated to the millisecond. Listed
  by a sync that runs just then, it is later than the truncated token of the
  same deployment's event, which is then stale and unanswered: with transitional
  statuses the deployment ends as FAILED although the gateway runs it.
- A revoked key whose row could not be removed keeps it, and RegenerateAPIKey,
  which asks only for a row, makes the key valid again.
- `eventDao.js:142` says an abandoned delivery "re-enters PENDING"; nothing sets
  it so, and nothing reconciles its event, which stays DISPATCHED.
- `Manager.Shutdown` says that it waits for the connection handlers; its
  WaitGroup counts the heartbeat monitors only.
- `deployment.go` speaks of a "+ 5 buffer" where `DeploymentLimitBuffer` is 100;
  `GetControlPlaneDeploymentsByGateway` is said to return only DEPLOYED or
  UNDEPLOYED rows and has no such filter, so a sync also sees FAILED and
  transitional ones (and `SyncList` lists them).

## 9. What is not modelled

Within the modelled components: `CleanupRange` (no caller), statement
preparation, logging and metrics; the building of a deployment's content
and the WebSub topics registered beside a deployment; the read-only listings.
CreateWithLimitEnforcement is one step because it is one transaction on the
platform API's database; on SQLite transactions are serial, and on PostgreSQL
two concurrent Creates at the limit could each count before the other's insert,
which `LimitHolds` does not cover. The events of artifact deletion, API keys,
subscriptions and secrets in the control-plane client are not modelled, nor are
the LLM, MCP and WebSub twins of the deployment service, which run the same
protocol on the same repository. The event hub between the two sides is
represented in `Deployment` by a log every controller reads in order, with a
position that may move on a reconnect.

In `GatewayConnections`: the rate limit per client address, the delivery
statistics, and what happens after an update of the list was lost. In
`ReplicaSync`: rendering (a configuration that does not render is stored
unrendered by the key events), the pushes to Envoy and the policy managers,
the limit of keys per user, two writes of a key with the same `updated_at` (the
second UpsertAPIKey is then ignored), the LLM, MCP, subscription and application events,
which read a row and replace it in the same way, and requests in flight
together: around the deletion of an API a key written in the last moment keeps
its row, and a revocation that removes a key by name may remove a newer key of
that name. In `WebhookOutbox`: how subscribers are matched and payloads signed
and sealed, and the mssql dialect.

Planned, and not begun: the xDS snapshot managers, the client's reconnect loop,
the bottom-up import, the policy engine and the event gateway (section 10).

Other components: rendering and templating (pure translations of documents),
secrets (idempotent upserts), the gateway builder (a build tool), the
Kubernetes operator (its state is the API server's), the CLI, the portals, the
SDK and the Python executor (driven by the policy engine).

## 10. Plan

Done: `EventHub`, `Deployment`, `EventLog` and its refinement,
`GatewayConnections`, `ReplicaSync`, `WebhookOutbox`. Next, in this order:

1. `ClientLoop`: the control-plane client's reconnect loop, heartbeat and backoff.
2. The xDS snapshot managers (versions of five caches under concurrent
   updates), the bottom-up import (watermarks), the policy engine's chain
   replacement, the event gateway.
