# Verification of desafio-backend

A Go service that receives status changes of municipal service requests
("chamados") by webhook, stores them as notifications of a citizen, publishes
them through a transactional outbox to Redis, and delivers them to WebSocket
connections and a push endpoint, next to a REST API to list and read them.
This directory holds TLA+ models of its core, the TLC configurations that check
them and TLAPS proofs about them. `PROJECT.json` is the machine-readable
index: components, runs, mutants, the map from definitions to source lines,
findings, hazards and theorems. Paths below are relative to `src/`.

## Inventory

| component | state | operations | interacts through |
|---|---|---|---|
| webhook receiver (`internal/webhook`, `repo/webhook.go`, `repo/webhook_dlq.go`) | `citizens`, `notifications`, `event_outbox`, `webhook_dlq` | `HandlePOST`, `persist` | one transaction per delivery, pool of 8 connections |
| outbox worker (`notify/worker.go`, `repo/outbox.go`) | `event_outbox` rows; the batch and its push jobs in memory | `processBatch` | row locks with other workers; Redis PUBLISH; push endpoint |
| subscriber (`notify/subscriber.go`) | none of its own | `runOnce` | Redis Pub/Sub in, `Hub.Dispatch` out |
| WebSocket hub (`wsbus`) | registry under `hub.mu`; per client a channel, a connection, `closeOnce` | `Register`, `Unregister`, `Dispatch`, `Close`, `shutdown`, the pumps | two goroutines per connection, the Subscriber, `waitShutdown` |
| WebSocket endpoint (`httpapi/ws.go`) | none | `handleWS` | authenticates, upgrades, `NewClient`, `Run` |
| notification list (`httpapi/notifications.go`, `repo/notifications.go`) | reads `notifications` | `GET /notifications` | COUNT and page in two statements, against concurrent inserts |
| read state (same files) | `read_at` | `PATCH /:id/read`, `PATCH /read-all` | callbacks to chamados in goroutines of their own |
| authentication (`authjwt`) | `last_seen_at` | `Middleware`, `TouchLastSeenMiddleware` | before every REST handler |
| devices and push (`httpapi/devices.go`, `repo/push_devices.go`, `integrations/push.go`) | `push_devices`, a circuit breaker | `POST`/`DELETE /devices`, `sendPushNotifications`, `Send` | the worker sends the pushes of its batch before it polls again |
| chamados client (`integrations/chamados.go`, `httpapi/chamados_mapas.go`) | a circuit breaker | `GetSummary`, `NotifyRead`, `GET /chamados/:id/summary` | request handlers and callback goroutines share the breaker |
| mapas client (`integrations/mapas.go`) | a circuit breaker, the last ping under `mu` | `StartBackgroundPing`, `pingOnce`, `Stop`, `StatusJSON` | a ticker goroutine, `GET /mapas/status` |
| queries, profile | none of their own | `GET /:id`, `unread-count`, `citizens/me` | single SELECTs |
| wiring (`cmd/server`, `config`, `db`, `rdb`, `migrate`, `telemetry`, `upstream`) | start-up values | `main`, `waitShutdown` | cancels the context, closes the hub, then the listener |

What is hard here, and what makes each part correct:

- **Outbox.** The Redis publish happens inside the transaction and is not undone
  by a rollback; several workers poll one table; the reply to COMMIT may be lost;
  push jobs live only in memory. Correct: what is `sent` was published, rows end
  `sent` or `dead`, copies are bounded by what really failed, a push is sent at
  most once.
- **Hub.** Four goroutines may shut the same client down while a fifth sends to
  it. Correct: the registry holds only open channels, no channel is closed twice
  or sent to once closed, the stream of a connection has no gaps, everybody ends.
- **Webhook.** Concurrent deliveries of one event, failures between the
  statements of a transaction, senders that hang up, ambiguous commits. Correct:
  one notification and one outbox row per key, and 200 only for what is stored.
- **List.** OFFSET moves under insertions. Correct: a walk misses nothing that
  was there at its start.
- **Read state.** Concurrent single and bulk updates. Correct: read once, by the
  owner; exactly the requests that were answered report what they read.
- **Delivery.** Pub/Sub keeps nothing, subscriptions break, processes restart,
  connections come and go. Correct: a registered connection gets its citizen's
  messages, once and in order, or the loss is explained by a subscription that was
  down; the list covers what the stream may have missed before.
- **Breakers.** Callers of different kinds share one; results arrive late; the
  counts expire with the clock; callers cancel. Correct: an upstream in trouble
  is left alone, nobody is refused without cause, outages and recoveries are
  noticed in bounded time, the circuit closes again.
- **Push.** Devices change while a job runs; a hanging endpoint holds up the
  worker; the devices of a job share one deadline. Correct: only registered devices,
  none left out but by its own job's time, and the stall is bounded.

The hazards, each at its line and with the properties that would catch it, are
in `PROJECT.json`.

## Modules

### OutboxContract and Outbox

`OutboxContract` is the promise to whoever reads the citizens' channels: a row is
enqueued once, copies appear only while it is pending, `sent` requires a copy,
`sent` and `dead` are final. It has no workers and no transactions.

`Outbox` is the code. `status`, `attempts` and `due` are the committed table
(`due` stands for `next_attempt_at <= now()`); per worker, `todo`, `seen`,
`sentTx`, `retryTx`, `deadTx` are the rows of its open transaction and what it
wrote about them, invisible to others until `Commit`. One action per step of
`processBatch` that others can observe: `BeginBatch` (BEGIN and the SELECT),
`PublishRow` (PUBLISH and the UPDATE of one row), `Commit` (with or without its
reply), `Rollback` (any other end: a failed statement, shutdown, death),
`SendPushNotifications`, `EndBatch`, `StopBeforePush`. The row locks are
`Held`. A PUBLISH is any number of executed commands up to `RedisTries`, since
go-redis retries, with an error possible in every case. The whole push of a job
to the citizen's devices is one step. Row numbers are the `(created_at, id)`
order; rows appear in any order, as transactions commit.

### Hub

Sections under `hub.mu` are single steps, except Dispatch's read lock, which is
taken and released in two: everything it excludes must be excluded in the model
too. `stage[c][k]` is the progress of goroutine `k` through `c.shutdown()`, in
which `closeOnce` is `free`, `busy` or `done`. A message is its number among
those dispatched to its citizen, so that a gap or a reordering shows in
`written`. `panic` records the two run-time panics of channels; nothing recovers
them in these goroutines, so the process stops. The pump's `hand` is the message
taken from the channel and not yet written.

### Webhook

A delivery is an event and what may be wrong with it (`Forms`); `HandlePOST`
answers in the code's order. `tx[q]` names the tables in which `q`'s open
transaction has a row. PostgreSQL's ON CONFLICT is modelled by what it does at
READ COMMITTED: the INSERT waits while another open transaction holds the key,
then finds it committed or inserts. `live[q]` is the request's context; a
statement on a cancelled context fails at no cost in faults. `Fail` covers every
error return of `persist`, `CommitUnacknowledged` the commit that took effect
but was reported as failed. The idempotency key is the part `about` of the
event, the fingerprint its `cpf`.

### Delivery

Composes the outbox, by its contract (`INSTANCE OutboxContract`, which `Outbox` is
proved to implement), with Redis Pub/Sub, a Subscriber per process and the
registries of their hubs. `log` is the order in which Redis executed PUBLISH;
`chan[p]` the messages that wait in process `p`'s go-redis channel, `lost[p]` those
its subscription missed. `Disconnect` drops any tail of what was on its way;
`Restart` is a crash or a replacement at any time; `Cancel`, `CloseHub` and
`SubscriberReturns` are the steps of `waitShutdown` and what follows from them,
in the races the code allows (a cancelled context may lose the Subscriber's
`select`). `Upgrade` and `Register` are two steps, as in `handleWS` and `Run`. What
happens to a message within a connection is Hub's subject. The backoff branch of
`Subscriber.Run` (lines 31-42) has no counterpart: `runOnce` returns an error only
when the context has ended, since go-redis reconnects underneath it. Nor has
go-redis' own drop of a message whose 100-slot channel stays full for a minute: the
Subscriber empties it without ever waiting for a client.

### Breaker, Chamados, Mapas, Push

`Breaker` is gobreaker 1.0.0 as the three clients use it, a record and one operator
per section the library runs under its mutex (`currentState`, `beforeRequest`,
`afterRequest`). It is external code. The library's generation number, by
which it ignores late results, is the set `current` of callers admitted in this
generation. `left` counts ticks to the generation's expiry; where the clock may
stand on either side of it, the choice `late` is free.

`Chamados`: callers (summary requests and read callbacks, the latter in goroutines)
go through `Check` (the ownership query), `Enter` (the breaker admits or refuses)
and `Return`. Time is abstract: `Interval` and `Timeout` are 0 ticks, so that the
circuit may expire after any `Tick`. Both users share `breaker`; a client that
hangs up makes its call fail. A summary refused with `ErrTooManyRequests` is
answered 502, like a failed call. `configured` is whether `CHAMADOS_API_BASE_URL` was
set, which it is not by default: without it the handler answers 503
(`Unconfigured`) and no callback starts. The other early answers are
`UnknownCitizen` and `InvalidID`.

`Mapas`: explicit time, because the ticker and the breaker's expiry race. The
goroutine's steps take no time, its HTTP call up to `HTTPTimeout`. The ticker's
channel holds one tick. A status reader takes its two reads at any two moments.
Without `MAPAS_API_BASE_URL` there is no client and the status is the constant
`disabled`; the model is of a client that exists.

`Push`: the table of devices against the worker's push jobs, explicit time again:
a call lasts up to `HTTPTimeout`, a job's context `JobDeadline`, and sends on a
context that is done fail at once and count in the breaker, as they do in the code.
`reached` holds the devices called while the context lasted, `refused` those the
breaker turned away; a send on a context that is done is in neither. `ListFails`
stands for every early return of `sendPushNotifications`: no push client (the
default), a payload that does not decode, a failed query. Listing the tokens takes no
time in the model. In the code it is a database statement that may wait for the pool;
if it took seconds, the breaker's 30 s or 20 s could run out between two calls of a
batch, which the bound of `StallBounded` does not allow for.

### Pagination

One citizen's notifications are inserted in any order around one client that
sends limit and offset (absent, no number, or an integer on either side of the
bounds) and walks on by the limit in the response until a page is empty. `Count`
and `Page` are separate, as in the repository layer. The clients of the
repository do not include such a walker; it is the environment under which
the list's promise can be stated.

### ReadState

Requests are authenticated (a citizen is known once a notification of it is
stored), then run one UPDATE. `MarkNotificationRead` locks one row and is one
step; read-all first fixes the rows it looks at (`snapshot`) and then updates
those that are unread still. `calls` counts the callback goroutines that were
started, none if the client is not `configured` (`Reportable`). What becomes of one
is `Chamados`' subject: an open circuit drops it with a log line, and nothing repeats
it. A statement may fail before or after it took effect.

### MC modules

`MCOutbox`, `MCHub`, `MCWebhook`, `MCPagination`, `MCReadState`, `MCChamados`,
`MCMapas`, `MCPush` and `MCDelivery` hold the constants and symmetry sets of the
instances; `MCMapas` also assumes `MapasSettings`. Definitions whose
comment starts with "Mutant" are small faults used to show that each property
can fail; no specification uses them.

## Runs

The runs of Outbox, Hub, Webhook, Pagination and ReadState allow the system to stop
(`CHECK_DEADLOCK FALSE`): these instances have finitely many deliveries, messages or
requests, and are at rest when they are done. Waiting for ever is excluded by the
liveness properties instead. The other runs go on for ever.

| run | instance | shows |
|---|---|---|
| `outbox` | 2 workers, 2 rows, batch 2, 2 attempts, 2 Redis tries, 2 rollbacks | `TypeOK`, `SentWasPublished`, `DeadExactlyAtLimit`, `CopiesBounded`, `PushAtMostOnce`, `ImplementsContract`, `EveryRowSettles` |
| `hub_safety` | 2 connections of one citizen, 1-slot channels, 2 messages | `RegisteredIsOpen`, `NoDoubleClose`, `CloseLeavesNoneBehind` |
| `hub_stream` | 1 connection, 2 slots, 4 messages | `WrittenInOrder`, `RegisteredMissesNothing`, `ShutdownCompletes`, `PumpsEnd` |
| `hub_send_on_closed` | as `hub_safety` | violation: `NoSendOnClosedChannel` |
| `webhook` | 3 deliveries, 2 events of two citizens with one key, 2 connections, 1 fault and any number of hang-ups | `OneNotificationPerKey`, `OneCitizenPerFingerprint`, `OutboxMatchesNotifications`, `AcknowledgedIsStored`, `FailedIsKept`, `EveryDeliveryAnswered` |
| `webhook_duplicate` | 2 deliveries, 3 events | violation: `DuplicateMeansSameEvent` |
| `pagination` | 5 notifications (2 of one instant), limits -1..3 around 1..2, offsets -1..1 | `UnseenIsAhead`, `WalkMissesNothing` |
| `read_state` | 2 requests, 2 citizens, 4 notifications of 2 chamados, with and without a client, 1 fault | `ReadOnceByOwner`, `CallbacksBacked`, `CallbacksMatchAnswers`, `NotFoundMeansRead` |
| `chamados` | 2 callers for ever, 2 citizens with a chamado each, threshold 3, with and without a client | `NoPeeking`, `UpstreamShielded`, `TurnedAwayWithCause`, `OnlyProbeCloses`, `Recovers` |
| `mapas` | the code's defaults in ticks of 5 s | `NoticesOutage`, `NoticesRecovery`, `StatusTellsWhy` |
| `delivery` | 2 processes, 1 connection, 2 rows of two citizens, 2 publishes | `SameOrderEverywhere`, `PublishedReachesConnected`, `ListAndStreamMissNothing` |
| `push` | 3 jobs a batch, 2 citizens who share a token, threshold 2, deadline of 2 calls | `OnlyRegisteredPushed`, `NoDeviceLeftOut`, `StallBounded` |

Every module states a type invariant `TypeOK`. Outbox's is checked by its run; the
others hold on the same instances (add the line `TypeOK` to a configuration), and all
of them are proved. A delivery that
`HandlePOST` rejects is stored nowhere by the order of its checks alone, so no
property is spent on it. What the breakers promise by themselves is gobreaker's; the
properties are about what the clients make of it.

**Bounds.** Two workers are enough for any two transactions to compete for a row;
two attempts give one retry and one death. For larger instances the safety
properties of all modules and the refinement are proved; what rests on the bounds
alone is liveness. Two clients let Dispatch and Close meet a
client in shutdown while another waits; a channel of one or two slots is full
within reach, where the code's 16 would not be. Three deliveries over two
connections make one wait for the pool while another waits for a row. The
constants `MaxRollbacks`, `MaxFaults` and `MaxDispatch` only bound the state
space. `Citizens` is one in `hub_safety`: clients of different citizens share
nothing but `hub.mu`, which two clients of one citizen share as well. Two callers
let a late result of one generation meet the probe of the next. Two publishes let
two copies of one row, or rows of two citizens, surround every event of a
connection; the second process is there for the fan-out. In `push`, two failing
calls open the circuit and three jobs outlast that; a deadline of two calls leaves
the third device of a job out; the shared token shows a mix-up of citizens. `steady` in Mapas and `failures` in Chamados saturate where
no property tells larger values apart. Time in `mapas` and `push` is in whole ticks;
the free choice at the edge of an expiry stands for what lies between them.

**Findings.** Two runs show that the code departs from what it says of itself;
`PROJECT.json` quotes the lines. (1) Dispatch may send on a channel that
`shutdown` closed after the registry was copied, and the process panics. (2) The
idempotency key leaves out citizen and texts, so that a different event with the
same key is acknowledged as a duplicate and lost.

Further departures that the models contain but no run is kept for:

- `hub.go:73` says that Close "shuts down all clients and prevents new
  registrations". Register on a closed hub returns silently and `Client.Run` starts
  the pumps all the same: a connection accepted before Close that registers after
  it runs on (`Hub.Register` with `closed`, `Delivery.Register` not enabled).
- `README.md:157` says that `webhook_dlq` keeps body and signature when persistence
  fails. The insert uses the request's context and fails with it when the sender
  has hung up, which is one of the reasons for which `persist` fails. `FailedIsKept`
  states what is left: the failure of a connected sender is kept unless the
  database fails twice.
- `docs/rest-api.md:71` gives 502 as a failure to contact the chamados API, and 503
  for the circuit breaker. In half-open, summaries beyond the probe are refused by
  the breaker (`ErrTooManyRequests`) and answered 502 without any contact
  (`Chamados.Enter`); `TurnedAwayWithCause` admits that answer, as the code gives it.
- A summary whose client hangs up counts as a failure of the upstream
  (`chamados.go:57`, the request's context). Three hang-ups in a row open the circuit
  over a healthy upstream, for summaries and read callbacks alike.
  `TurnedAwayWithCause` counts them as the failures they are to the breaker: it says
  that fewer turn nobody away, not that hang-ups cannot.
- The devices of a push job share one context of 15 s (`worker.go:128`). After three
  calls that time out the other devices of the job are not called at all; their sends
  fail at once and count against the endpoint, so that they may open the circuit for
  later jobs too; and `Send` returns nil for `ErrOpenState`, so that a refused push
  leaves no trace in the log. `NoDeviceLeftOut` states what is left: only calls of
  the same job, enough of them to fill its deadline, cost a device its push.
- Two settings have limits nobody checks. With `MAPAS_PING_INTERVAL` above about
  27 s (two pings and a timeout no longer fit in the breaker's 60 s interval)
  `NoticesOutage` fails, and from 60 s on an outage need never be noticed. With
  `HTTP_CLIENT_TIMEOUT` of 6 s or more, five push calls that time out no longer
  fit in the push breaker's 30 s and the bound of `StallBounded` fails. The two
  predicates `MapasSettings` and `PushAssumption` state these limits; the
  defaults (20 s and 5 s) satisfy them.

**What the time bounds say.** With the defaults, a mapas outage shows as a circuit
that is not closed after at most 4 periods and a timeout (85 s), a recovery after
at most the breaker's timeout, a period and a timeout (55 s). A push endpoint that
stops answering costs a batch at most two rounds of five timeouts (50 s), counted
from the last send that worked, before the breaker cuts it off. `DetectBound` and
`StallBound` are met with equality in the instances.

**Fairness.** Outbox: weak fairness of each worker's steps (the ticker keeps
firing; SKIP LOCKED never waits) and of time passing; none on inserts or faults,
and a finite number of rollbacks. Hub: weak fairness of goroutines that can run,
reads on a connection closed on this side and writes (deadlines); strong
fairness of shutdown's steps, because `sync.RWMutex` blocks new readers while a
writer waits. Nothing obliges peers, Redis or the operator to act. Webhook:
strong fairness of each delivery's own steps, since the pool and PostgreSQL
queue those who wait. Chamados: weak fairness of each caller's own steps (statements
and HTTP calls end, the client has a timeout) and of the clock; none on the upstream,
on hang-ups or on new calls: `Recovers` assumes in its own premise that the upstream
works, clients stay and calls keep coming.

## Proofs

`OutboxProofs` proves, for every set of rows and workers and every value of the
limits (assumption `OutboxAssumption`: rows are naturals, the configured batch
size and limit any integers, `RedisTries` positive):

- `TypeCorrect`, `SentWasPublishedHolds`, `DeadExactlyAtLimitHolds`,
  `CopiesBoundedHolds`, `PushAtMostOnceHolds`: the invariants of `outbox`;
- `ImplementsContractHolds`: `Spec => ImplementsContract`, the refinement.

None of these is inductive alone. `DeadExactlyAtLimit`, for instance, fails after
a `Commit` by a worker whose `seen` value is stale; it holds because no row is
in two transactions (`LocksExclusive`), and a row that a transaction holds is
pending with the attempts it was selected with (`LockedRowsFresh`), so that the
outcome in `retryTx` or `deadTx` agrees with the committed column. `Phases` ties
the sets to the worker's phase. `CopiesAccounted` strengthens `CopiesBounded`:
the publishes of a row are paid for by its committed attempts, by rollbacks and
by at most one call of the transaction that holds it. `JobsExclusive` says that a
push job belongs to one worker and to a row that is sent and not yet pushed.
Their conjunction `IInv` is proved inductive with one lemma per action
(`InsertStep`, ..., `LeavePushStep`, gathered in `NextIInv`); `StepImplements`
uses it to map each step to a contract step or a stutter.

`HubProofs` proves, for any number of connections, citizens and messages and any
buffer size (assumption `HubAssumption`):

- `RegisteredIsOpenHolds` and `NoDoubleCloseHolds`. Their inductive invariant
  `IInv` is the argument for `Client.shutdown`: `closeOnce` lets at most one
  goroutine inside (`OneInside`), a closed channel was closed by the goroutine
  that is still inside or by one that is through (`ClosedFromInside`), a client
  leaves the registry before that point (`RegisteredNotLeft`), and before a
  client registers neither Dispatch's copy nor Close's holds it
  (`FreshUnknown`), so that `Register` cannot put a dead client back.
- `CloseLeavesNoneBehindHolds`, from `CloseInv`: a client that was registered and
  whose shutdown nobody has begun is in the registry, in Close's list, or one
  that Close is waiting to shut down (`NoneForgotten`); Close empties the first
  two and waits for the third, and `closed` keeps the registry empty. The theorem
  says nothing of a client that registers after `closed` is set: that one is left
  behind (see Findings).

- `TypeCorrect`, `WrittenInOrderHolds` and `RegisteredMissesNothingHolds`, about the
  stream. `StreamInv`, on top of `IInv`, is the argument: what the writer holds and
  then what is queued continue what was written without a gap (`QueueInOrder`), and
  a registered client lacks only the message that Dispatch is about to send it,
  unless Dispatch is about to drop it (`UpToDate`). That no two dispatches overlap
  (`DispatchPhases`: one Subscriber goroutine calls Dispatch) is what makes "the next
  number" the one that comes next.

`WebhookProofs`, for any deliveries and events, any pool and number of faults
(`WebhookAssumption`: there are events, they have the three parts, the pool is not
empty): `TypeCorrect`, `Idempotent` (`OneNotificationPerKey`), `CitizensUnique`,
`OutboxInStep`, `AcknowledgedStored`, `FailedKept`. The properties speak of committed
rows; they are kept by a commit only because of what open transactions hold. An
uncommitted row is the only one with its unique key (`UncommittedExclusive`, which
the waiting INSERT provides); a transaction holds a notification exactly if it holds
its outbox row when it commits (`TransactionPhases`); a row that a transaction has
found stays (`FoundRowsStay`), so that a duplicate is answered 200 for a row that is
there; committed rows are what their requests, all over, had to insert
(`RowsAsInserted`). `FaultsExplained` charges the failure of a connected sender to
one fault and a missed DLQ insert to a second.

`DeliveryProofs`, for any rows, processes, connections and number of publishes
(`DeliveryAssumption`: the maps have their domains): `TypeCorrect`, `OrderEverywhere`
(`SameOrderEverywhere`), `ConnectedReached` (`PublishedReachesConnected`),
`ListAndStream` (`ListAndStreamMissNothing`). The channel of a process is ascending
(`Typed`), within Redis' log (`WithinLog`) and after everything its connections were
handed (`HandedBeforeWaiting`); appending to the log, losing a tail and handing over
the head keep that. The list closes the gap before a registration because a row that
is published but not in the list was published after it (`UnlistedIsLater`).

`ClientProofs` holds the proofs about the two clients of the REST API. About
Chamados, for any callers, notifications and breaker settings
(`ChamadosAssumption`: notifications are pairs, at least one; `BreakerAssumption`):
`TypeCorrect`, `Unpeeked` (`NoPeeking`), `Shielded` (`UpstreamShielded`) and the action
properties `TurnedAway` (`TurnedAwayWithCause`) and `ProbeCloses` (`OnlyProbeCloses`).
Without a client no caller is ever under way (`NoClientNoCall`), so that each 503 has
its own cause. The rest is lemmas about the breaker's operators and the meaning of its
generation: half open, it holds at most one caller, who is all that was let through
since the circuit opened (`OneProbe`); a circuit that is not closed has `Threshold`
failed calls behind it (`FailuresBehindIt`); a call in flight was checked and its
notification is not deleted (`CheckedBefore`).

About Mapas (whose names carry the prefix `mapas` where Chamados has the same one, so
that the module can extend both; the type invariant is `MapasTypeOK`), for all settings
within `MapasSettings` (a threshold of at least two, calls shorter than
the period, and an interval that outlasts the pings that trip the circuit; the theorems
carry it as a hypothesis): `PingTypeCorrect`, `StatusExplained` (`StatusTellsWhy`),
`RecoveryNoticed` (`NoticesRecovery`), `OutageNoticed` (`NoticesOutage`). The invariant
`PingInv` accounts for the ticks since the upstream changed:

- `PingClock`: a call has ended when the next tick of the ticker comes, so that the
  ticks since the last ping (`Waited`) can be read off `next` and `flight`.
- `PingGeneration`: the ping is the breaker's only caller, a half-open circuit admits
  it, and a call of an earlier generation finds a closed circuit that has counted
  nothing.
- `FailuresNoted`: a failure that counts is noted or about to be. The circuit opens a
  step before the ping that opened it is noted, and a reader may look just then; with
  a threshold of two or more the ping before had failed and was noted, with a
  threshold of one `StatusTellsWhy` would be false. The reader's first value is the
  current note unless a ping crossed it.
- `RecoveryUnderWay`: an open circuit has run off as much of its timeout as the
  upstream has been up, then it waits for one ping, and a closed one for the ping
  that clears the error.
- `OutageUnderWay`: either the failures counted pay for the whole outage, one period
  each, or the generation began in the outage; in the second case they pay for the
  age of the generation, which therefore trips before it expires
  (`OutageForgivenOnce`), and `Threshold` periods pay for what came before. A ping
  whose result the breaker ignores, because its generation expired during the call,
  pays nothing (`Lag`).

`ReadStateProofs`, for any requests, citizens and notifications
(`ReadStateAssumption`): `TypeCorrect`, `ReadOnceOnly` (`ReadOnceByOwner`),
`CallbacksAreBacked` (`CallbacksBacked`), `ReadsAreReported`
(`CallbacksMatchAnswers`), `NotFoundIsRead` (`NotFoundMeansRead`). Each row has one
reader (`ReadOnce`), a request reports only rows that it has read and that are its
citizen's (`RequestPhases`), and what the middleware saw is still stored
(`SeenIsStored`), which justifies the 404. `CallbacksCounted` compares the callbacks of
a citizen and chamado with the rows reported by answered requests, not with the rows
read: the latter alone is not inductive, since scheduling a callback reads no further
row. `CallbacksExact` counts them the other way round, request by request: a request
joins the reporters of a chamado in the step that starts its callback and answers it,
and the requests answered so far are finitely many (`AnsweredFinite`).

`PushProofs`, for any devices, batches, deadlines and breaker settings within
`PushAssumption` (above all `Threshold * HTTPTimeout < Interval`, see Findings, and an
open circuit that stays open for some time):
`TypeCorrect`, `RegisteredOnly` (`OnlyRegisteredPushed`), `NobodyLeftOut`
(`NoDeviceLeftOut`), `StallIsBounded` (`StallBounded`). `WorkerPhases` says that the
worker is the breaker's only caller, `TokensAccounted` that every token listed is
waiting, reached or refused as long as the job's context lasts, `DeadlineShared` that
the job's time was spent in its own calls, at most `HTTPTimeout` for each device
reached; together they give `NoDeviceLeftOut`. `TimeAccounted` is the bound's argument: a closed
circuit has counted all the time lost in the batch, or began its generation during
the batch and will trip before it expires (lemma `ExpiryForgivesOnce`: the clock can
forgive one round of failures, not two); an open circuit that has cost time no
longer closes within the batch.

`PaginationProofs`, for any finite set of notifications, any instants, limits and
offsets (`PaginationAssumption`): `TypeCorrect`, `UnseenStaysAhead`
(`UnseenIsAhead`), `WalkIsComplete` (`WalkMissesNothing`). Two facts about the order
carry it: an insertion never lowers a rank (`RankGrows`), and ranks have no gap
(`NoGap`, by the least element of the rows at or beyond a rank), so that an empty page
has nothing behind it (`EmptyPageIsLast`).

Every inductive invariant above was model-checked on the instances of its runs before
it was proved.

Only model-checked: all liveness (`EveryRowSettles`, `ShutdownCompletes`,
`PumpsEnd`, `EveryDeliveryAnswered`, `Recovers`), because the prover has no support
for fairness and ENABLED. What they say of the small instances has no counterpart for
every value of the constants.

## Not modelled

GET of one notification, unread-count and the profile (single SELECTs that change
nothing); `last_seen_at` (written best-effort on every request, shown only in the
profile); the route table, start-up, configuration, migrations, telemetry, stubs,
manifests: they run once, before anything else, or are fixed tables. Token,
signature and CPF checks and all formatting are data: only their outcomes appear.
Device requests that are refused change nothing and are left out of Push.

## Plan

Every safety invariant and action property that a run checks is proved, and so is the
refinement. When the code changes, the order of work is: the model of the handler that
changed, its run, the inductive invariant on that run, then the lemma of the action.
One extension would say something new: Hub's connections in place of Delivery's
registered set, which would carry `RegisteredMissesNothing` through to what a client
has been written.
