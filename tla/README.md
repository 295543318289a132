# RelayHub in TLA+

Specifications of RelayHub: what happens to a delivery between the transaction that stores it
and the moment it is acknowledged or given up, and of the services around this path that have
concurrent callers, shared rows, caches or shutdown of their own. Everything is translated from
the Go backend under `src/backend` and the Go SDKs under `src/sdks`; `PROJECT.json` maps every
definition to the lines it stands for.

## The system

RelayHub accepts events over HTTP and stores each one, its deliveries and one outbox row per
delivery in a single PostgreSQL transaction. From there a delivery takes one of three ways:

| way | components | state | who runs concurrently |
|---|---|---|---|
| stream | outbox dispatcher, JetStream, stream gateway | `deliveries`, `outbox`, stream `RH_DELIVERIES`, in-memory session | dispatchers; per session: receivers, the control reader, Close |
| callback | outbox dispatcher, JetStream, callback worker | `deliveries`, `outbox`, streams `RH_CALLBACKS` and `RH_DLQ` | dispatchers, worker pool |
| queue v2 | subscription, pull API, result callbacks, scheduler, queue worker of the SDK | `queue_subscriptions`, `queue_deliveries`, `queue_result_callbacks`, `queue_schedules` | consumers, owners, callback workers, scheduler replicas |

Nothing else coordinates these processes: a random token in a row, written by a claim and
repeated in the `WHERE` of every later statement, is the only fence. The hard behaviours are
therefore a process that stalls past its claim, an answer that is lost although the change was
made, a message handed out twice, a crash between two steps, and an operator's replay, which
reuses the row under the next generation while messages of the last one are still under way.

Around this core stand

* publication, which finds the targets and makes repeated requests take effect once;
* functions: calls that are stored, dispatched over NATS to the gateways of the owner and
  answered by a session before their deadline;
* the realtime hub: channels with history and rewind, reactions, presence, rate limits, with
  state in memory, in Redis and on the wire between replicas;
* applications and their credentials, administrators and their browser sessions;
* processes that start (streams, schema, instance id), record metrics and stop;
* a tool that copies the old server's database while it is still written;
* the agent of the SDK, which works on deliveries of a server that may drain it.

`components` in `PROJECT.json` lists all parts with what is modelled; the last section says what
is left.

## Modules

    DeliveryLifecycle            what a delivery promises (abstract)
      ^ refined by StreamPipeline and Queue (TLC and proof)

    DeliveryStore   JetStream    PostgreSQL rows; the broker
         \            /
       OutboxDispatcher          RetryPolicy (delays, classification of answers)
        |        |      \
     Outbox   + StreamGateway   + CallbackWorker
              = StreamPipeline  = CallbackPipeline

    QueueSubscription            one subscription row (abstract for QueueAdmin)
      Queue (extends it)   QueueAdmin (refines it)   QueuePriority
    QueueCallbacks   QueueScheduler   QueueWorker (the client side)

    Publication   FunctionInvocations   Applications   AdminSessions
    RealtimeChannel   SessionClose   RealtimePresence   PublishRate
    Process   Startup   InstanceRegistry   Dashboard   Migration   Agent

`MC*.tla` give the constants their values for TLC, `*Proofs.tla` hold the theorems.

| module | models | its variables are |
|---|---|---|
| `DeliveryStore` | `store/postgres`: the columns of `deliveries` and `outbox` that steer delivery, creation, replay (`admin_lifecycle.go`) | `row` (status, generation), `assignment` (stream columns), `callback` (callback columns), `outbox` |
| `JetStream` | the broker as the code uses it (external): storage, duplicate window, redelivery, ACK, NACK, maximum age | `messages` per id and copy, `window` |
| `OutboxDispatcher` | `outbox/dispatcher.go` over `store/postgres/outbox.go`, one action per transaction or broker call | `dispatcher` (program counter, token, batch), history `publishes`, `crashes` |
| `StreamGateway` | `streamgateway/session.go` over `store/postgres/delivery_assignments.go` | `phase`, `inflight`, `bytes`, and where the receiver (`handler`), control (`reader`) and Close (`closer`) of a session are |
| `CallbackWorker` | `worker/jetstream.go` and `callback.go` over `store/postgres/callbacks.go` | `worker`, `deadLetters` (`RH_DLQ`), histories `requests`, `completed` |
| `RetryPolicy` | `retryDelay` of the dispatcher; the classification of HTTP answers and the next attempt of the worker | none (operators) |
| `QueueSubscription` | one row of `queue_subscriptions`: create, update, pause, drain, delete | `subscription` |
| `Queue` | `store/postgres/queue_v2.go`: publish, pull (with its sweep), settle, extend, replay, delete, retention, drain status | `delivery`, `recent`, `results`, `held`, `reader`, history `arrivals` |
| `QueueAdmin` | `service/queue.go`: owners that read the row and write it back | `stored`, `owner` |
| `QueuePriority` | the `ORDER BY` of the pull: priority plus age | `backlog` |
| `QueueCallbacks` | `worker/queue_callbacks.go` over `store/postgres/queue_callbacks.go` | `result`, `worker`, history `calls`, `errors` |
| `QueueScheduler` | `service/queue_schedule.go` over `store/postgres/queue_scheduler.go` | `now`, `schedule`, `accepting`, `enqueued`, `replica`, `editor` |
| `QueueWorker` | `sdks/go/queue.go`, `WorkQueue`: pull loop, handlers, heartbeats, settlement, Drain; the queue is external | `loop`, `room`, `batch`, `job`, `beat`, `lost`, and the leases `queue`, `of` |
| `Publication` | `service/events.go` and `routing.go` over `store/postgres/events.go` | `event`, `delivery`, `queued`, `dedup`, `idempotency`, `request`; what changes meanwhile: `policy`, `rules`, `subscription` |
| `FunctionInvocations` | `service/functions.go`, the invocations of `realtime/hub.go` and `nats_bridge.go`, `store/postgres/function_invocations.go` | `row`, `call`, `handler` (a gateway), `session`, `frame`, `late` (statements whose callers have given up), messages `requests`, `replies`, `hint` |
| `RealtimeChannel` | one channel and one subscriber: `realtime/hub.go`, `session.go`, `redisstate/realtime_history.go`, `realtime_actions.go` | `stream` (history), `wire`, `deliverer`, `rewinding`, `buffer`, `seen`, `outbound`, `reader`, what the client `received` |
| `SessionClose` | `Session.Close`, `Hub.register`, `Hub.Close` and the function route | `stack` of each goroutine, `registered`, `members`, `handling`, `route`, `once` |
| `RealtimePresence` | `realtime_connections.go`, `realtime_presence.go` and the goroutines that call them | `record`, `entry` (Redis), `opener`, `reader`, `refresher`, `closer`, `joined` |
| `PublishRate` | `redisstate/ratelimit.go`, `realtime_rate.go` and batches of the hub | `bucket`, `session`, history `granted`, `sent` |
| `Applications` | `service/apps.go` over `store/postgres/apps.go` | `app`, `enabled`, `endpoint`, `revoked` (per credential), `editor`, `client` |
| `AdminSessions` | `service/admin_sessions.go`, `redisstate/session.go`, the handlers for users | `user`, `stored`, `caller`, histories `age`, `issued` |
| `InstanceRegistry` | `runtime/runtime.go` over `redisstate/ownership.go` | `process`, `member` (the record in Redis), `started` |
| `Startup` | `broker/nats/bootstrap.go`, `Migrate` of `store/postgres/client.go` | `stream`, `ledger`, `schema`, `lock`, `replica` |
| `Process` | `cmd/relayhub/main.go` | `phase`, `opened`, `live`, `listener`, `worker`, `request`, `stream`, `hub` |
| `Dashboard` | `redisstate/dashboard.go`: recorder and buckets | `queue`, `recorder`, `counted`, `reported` |
| `Migration` | `migrate/migrate.go`; the old server is external | `source`, `target`, `draft` (the transaction), `run` |
| `Agent` | `sdks/remake/go/agent.go`; the gateway is external | `agent`, `session`, `reader`, `loop`, `worker`, `gate` (admission) |

How code becomes model:

* **A transaction is a step**, and so is every Redis script and every call of the broker or of a
  receiver. Between two steps of a process anybody else may act. A failing store call and a
  process that dies look the same to everybody else, so one action (`Crash`, `Die`, `*Lost`)
  stands for both; answers that are lost after the commit are separate actions where the caller
  goes on. In `FunctionInvocations` a statement may even take effect after its caller has gone
  on.
* **Code under one mutex is a step** in the in-memory components (hub, agent, queue worker). A
  `select` of Go is a choice among its ready cases.
* **Instants are the time left until them**, so time needs no bound: `expires_at > now` is
  `expiresIn > 0`, and `Tick` counts everything down. In the queue a lease counts on below 0,
  because the retry delay starts at the instant the lease ended. Only the scheduler, publication
  and the dashboard have a clock, which stops at `Horizon`.
* **Reading the clock and the statement that uses it are one step**, except where the code can
  be caught between them: ACK and NACK frames of the gateway, the worker's `Finish`, a schedule
  update, and the recorder of the dashboard, whose reading may be old when it is used.
* **Random tokens** are tokens that nothing refers to at the moment.
* A batch of queue settlements or extensions is its items in a row. Rows locked by another
  transaction are skipped (`SKIP LOCKED`), so a claim may come back with any batch of claimable
  rows.
* A drain's deadline only changes the status that is reported and is left out. The end of a
  delivery's retention may come at any time. A cron expression is its period.

## What TLC checks

All properties carry a comment that says which behaviour of the code they are about. Most runs
check conjunctions, whose parts are named in the component's module: `QueueSafe`, for example,
is `TypeOK`, `InFlightBounded`, `AttemptsBounded`, `LeaseCapped` and `DrainedHoldsNothing`.

| run | instance | shows |
|---|---|---|
| `outbox` | 1 delivery, 2 dispatchers, 2 attempts, 2 generations, a crash, 2 copies | every counted attempt makes at most one broker call; a dispatched row is in the stream; a failed row has used its attempts (`OutboxSafe`); a live claim is respected, a settled row stays so until a replay, every row is settled in the end (`RowsSettle`); the retry delays are the capped powers of two |
| `stream` | 2 connections, lease 2, maximum age | a dispatched delivery that is not acknowledged can reach a client until the stream drops it for its age; an acknowledgement is never undone; no lease passes the processing deadline (`WorkIsKept`) |
| `stream_session` | 1 connection, 2 generations, a store error | capacity, ACK to the broker only for what the store has settled, nothing lost (`SessionSafe`); the pipeline implements `DeliveryLifecycle`; Close ends |
| `callback` | 2 workers, 2 attempts, an error | the number of HTTP requests is bounded and they do not overlap (`RequestsInTurn`); every delivery is delivered or dead-lettered |
| `callback_replay` | 2 workers, 2 generations | ACK is justified across generations; a dead letter on record is in `RH_DLQ`; classification of answers bounds attempts and delays |
| `queue` | 2 messages of one key, rate 1, capacity 1, 2 attempts, 2 generations, 3 versions of the subscription | limits of leases, attempts, lease time, and a drain reported complete is (`QueueSafe`); rate; order per key; results tell the truth; the queue implements `DeliveryLifecycle` |
| `workers` | one of ten components moves, see `MCWorkers` | progress: deliveries of an open subscription are settled; low priorities are served; results are reported by calls that do not overlap; every instant of a schedule is run once and none is skipped; `Invoke` returns although hints are lost; what a closed connection left in Redis disappears; a drained worker, a cancelled or drained agent and a process end. Safety on the way: late work is dropped; stores are closed after their last use |
| `platform` | one of eight components moves, see `MCPlatform` | an invocation is sent once and has one outcome; a publication takes effect once per key; endpoint, credentials and patches of an application agree; revocation reaches all sessions that were not being written and refreshes do not prolong their life; a successor keeps its instance record; replicas serve on their own schema; a migration's copy is closed and the last one complete; metrics are counted once or reported |
| `realtime` | one of seven settings moves, see `MCRealtime` | messages are shown once and live ones in order; a rewind joins the live messages without a gap; the function route follows the handlers, closing never waits in a circle and a closed hub is empty; a joined connection is present; rates hold and batches pass as a whole |

In the last three, the components share no state. A variable `which` chooses at the start the
one that moves, the others stay in their initial states, and so the run explores the sum of
their state spaces and not the product. A property of a component that stays put holds
trivially, so what such a run shows is what it would show of each component alone. In `workers`
the fairness conditions of the components are written in rows (`Clock`, `Main`, `Helper`...),
one disjunct per component: as only one of them is ever enabled, fairness of the disjunction is
fairness of each.

Three runs show that the code does something else than the documentation says:

* `stream_close`: a control frame whose store call fails after Close has taken its snapshot
  leaves the assignment of a closed session in PostgreSQL
  (`docs/architecture/durable-stream-gateway.md:32`). It ends with its lease.
* `callback_repeat`: a dispatcher that marks its row after the callback has been recorded turns
  `delivered` back into `dispatched`, and a redelivery repeats the completed request
  (`docs/architecture/callback-jetstream-delivery.md:26`).
* `rewind_actions`: the frame of a reaction carries the id of its message. When a rewind has
  just shown that message, the hub takes the frame for a duplicate and drops it, and the
  subscriber never hears of the reaction (`sdks/typescript/README.md:38`).

Smaller differences were met on the way and have no run:

* The end of a stream lease starts nothing while its connection stays open
  (`docs/developer/streaming-protocol.md:61`).
* Two deliveries of an ordering key may be in flight at once, when a dead letter of the key is
  replayed behind a later one (`web/docs/docs/developer/queue.md:79`), and during a drain nobody
  takes expired leases back (`queue.md:16`).
* The final run of the migration does not reopen a delivery that was copied as a dead letter and
  replayed in the source afterwards, and does not carry over changes of users that were already
  copied (`docs/superpowers/specs/2026-10-31-relayhub-full-migration-design.md:35` and `:38`).
  When a user whose id sorts last is added between two runs, the later ones expect all events in
  that user's workspace and fail at those of applications that were copied before.

And behaviours that no document speaks of, kept in the models as they are: a drained queue
worker whose pull is in flight may leave its leases to expire; its options do not require the
heartbeat to be shorter than the visibility; `combinedWorker.Run` does not wait for the other
workers when one fails; when `Shutdown` runs into its time limit the stores are closed under the
requests that are left (`StoresOutliveUse` speaks of neither: it is about processes without a
failure or a passed time limit); the realtime bridge, the metrics recorder and the heartbeats
end with the signal, before the requests do; tokens that a publication took before a later
bucket refused it are not given back; `Close` of the recorder drops what is queued; a presence
update that is overtaken by `Close` leaves an entry until its time is over, and expired entries
that another connection's update removes are never announced as timed out.

**Bounds.** One delivery is enough for the outbox, stream and callback models because rows share
nothing: every statement names one row, and batches only decide which rows are handled by whom.
Two competing processes, two attempts and two generations are the least with which takeover,
exhaustion and stale messages happen. The redelivery of a message that is still being worked on
stands for duplicates in the stream and callback runs; second copies after the duplicate window
(`Copies = 2`) are in `outbox`. The queue needs two messages for order, capacity and rate. A
function call has two gateways with a session each, so that a claim can pass from one to the
other; publication has three requests, two for a key and two for a deduplication key; the
registry three processes, so that a predecessor meets a successor's successor; a startup has
three binaries, two of which disagree; a channel two messages in the history and one more for
trimming; closing three sessions, the least for a circle that is not mutual. `MaxVersion`,
`MaxGeneration`, `MaxCrashes`, `MaxErrors`, `MaxFaults`, `MaxPublishes`, `MaxChanges`,
`MaxRuns`, `MaxSubscriptions` and the like bound histories and appear only in guards. With more
schedules than tokens the scheduler would run out of tokens, which the code's random ones never
do.

**Deadlock** is checked in `outbox`; the others stop at their bounds or when all work is done.
That closing sessions do not wait in a circle is an invariant (`NoCircularWait`).

**Fairness.** Weak fairness of time, of pollers on tickers, and of the next step of a started
process or goroutine. Nothing is asked of clients, receivers, servers or operators;
`CloseCompletes` asks only for the goroutines of the session, and of the user's handlers that
the SDKs call only the queue worker's `Drained` asks that they return. Strong fairness is
assumed in three places: a dispatcher does not for ever let its claim go stale before its first
transaction, a scheduler replica does not for ever complete too late (both claims last 15 to 30
seconds and the steps take milliseconds), and a heartbeat of the queue worker that may stop or
extend does not extend for ever, as Go chooses among ready cases at random. `EventuallySettled`
of the queue assumes that somebody keeps pulling and that the subscription is open from some
time on. `QueueCallbacks` assumes that a worker is stalled between its claim and its call for
less than the margin between the two timeouts (`Stall < Margin`).

## What is proved

The proofs are for all values of the constants, under the assumptions that the modules name:
limits are natural numbers and at least 1 where 0 makes no sense, `None` is no token, session,
process or row, leases do not exceed the total processing time, policies and periods have
largest values, the set of messages of a queue is finite. `RealtimeProofs`, `SessionProofs`,
`PublicationProofs` and `PlatformProofs` hold the proofs of several components that share no
state: one is extended, the others are instances with a name of one letter, some of whose
constants and variables are renamed so that the names do not clash. The assumptions on the
constants of an instance are definitions (`ChannelSensible`, `OutlivesPeriod`, `RateSensible`,
`ThreadsDiffer`, `MigrationSensible`, `PublicationSensible`, `SchedulesSensible`,
`SessionsSensible`, `NoneIsNoRow`, `RecordsLast`) that the theorems state as hypotheses; the
values that the runs give to the constants satisfy them. The theorems about instances state the
property of the component (`M!CopyAgrees`); the runs `platform`, `realtime` and `workers` check the
same definition for the component that moves, under a definition of their own with the same name.

* `DispatcherProofs` holds what the three delivery paths share: `DispatchInv` of
  `OutboxDispatcher` is kept by every step of a dispatcher, whatever else moves beside it. It says
  that tokens are unique among the rows and dispatchers that refer to them, that the batch a
  dispatcher holds was claimed under its token, so that a row with this token is still of the
  claimed generation, that a dispatcher about to publish has the attempt it counted to itself,
  and that what it is about to mark is stored. A stalled dispatcher then finds either its own
  token, and everything it knows is current, or another one, and it writes nothing.
  `DispatcherMoves` sums up for the other proofs what a dispatcher may do to a delivery and to
  the stream.
* `PublicationProofs`, about `Outbox`: `OutboxSafety` and its parts `OutboxTypes`,
  `DispatchedRowsAreStored`, `AttemptsBoundCalls`, `FailedRowsAreExhausted`, from `OutboxInv`,
  which is `DispatchInv` and the last of them; none of the parts is inductive alone.
  `RowsKeepTheirHolders` proves the two action properties of the run, `SettledIsFinal` and
  `ClaimRespected`.
* `PublicationProofs`, about `Publication`: `PublicationsTakeEffectOnce`, for any requests, keys,
  targets and windows. `PublicationInv` adds that the lock of an idempotency key has one holder,
  who has seen that no answer is kept; that the answer kept for a key is that of its latest
  event, all earlier ones having run out before that was stored; that a deduplication key is
  kept until the window of its event has ended; and that a stamp is at most `Patience` old when
  it is stored, which is where the tolerance in `Deduplicated` comes from.
* `PublicationProofs`, about `Migration`: `MigratedCopyAgrees`. `MigrationInv` says of the target
  and of the draft that they hold nothing the source does not have (it never loses a row) and
  that what refers to another row finds it; and, table by table, that what the run has passed
  agrees with a source that has been at rest since. Between the deliveries and their outbox rows
  the run remembers which deliveries it has settled (`SeenFits`).
* `PublicationProofs`, about `RetryPolicy`: `ScheduleHolds`, for all answers and wishes, and
  `DelaysAreCappedPowers`, for all bases, caps and attempts. The second is an induction over the
  attempt, made through a least counterexample: were there one, `WFMin` and
  `NatLessThanWellFounded` of the library give the smallest, and one turn of the loop
  (`CappedDoubling`) leads from the attempt before it to it. As the provers know nothing of
  powers, that `2^0 = 1` and `2^(n + 1) = 2 * 2^n` is a hypothesis (`PowersDouble`).
* `StreamProofs`: `SessionsAreSafe`, `WorkStays` and the refinement `PathImplementsLifecycle`,
  for any number of sessions, deliveries, generations and dispatchers. `SessionInv` adds to
  `DispatchInv` what the goroutines of a session know while they are between two calls: the slot
  that a receiver has reserved is counted, a message that somebody is about to acknowledge
  belongs to a generation that is finished or replaced, and an assignment ends no later than its
  total processing time. Delivery and outbox row are of one generation, so that a dispatched row
  has had a message of the present generation stored, which is gone only by an ACK, and then the
  delivery is finished, or by its age.
* `CallbackProofs`: `RequestsComeInTurn`, `AcksAreJustified` and `DeadLettersExist`, for any
  number of workers, copies of a message, failed calls, crashes and replays. `CallbackInv` has
  three parts. Nothing is ahead of its row: messages, workers and requests are of the generation
  of the row or an older one. Reservations: the token of an attempt is its own; as long as a
  worker may still send or wait, and its generation is current, the row names its token and the
  lease lasts at least as long as the worker counts on (this is where `FinishMargin` is needed);
  the requests of a generation, plus one for the worker that may still send, are at most its
  counted attempts. Settled first: a worker that is about to mark or acknowledge, a row that
  says delivered or recorded, and an acknowledged message are all preceded by what they stand
  for. `CompletedNotRepeated` is false (run `callback_repeat`), and nothing here rests on it.
* `QueueProofs`: `QueueSafety` and its parts `QueueTypes`, `PullsAreBounded`,
  `AttemptsAreBounded`, `LeasesAreCapped`, `DrainedIsEmpty`, the refinement
  `QueueImplementsLifecycle`, and `ResultsAreTrue`, `KeysAreFifo` and `RateIsRespected`.
  `QueueInv` says that every row is sound by itself (a lease ends before its total time, what is
  offered has attempts left) and that rows and subscription agree: leases fit the largest
  capacity, and once a drain status call has counted none, there are none, because nothing is
  handed out while the subscription drains. Results are true because a settlement is fenced by
  the lease and a success is final; order follows from the pull, which offers of a key only what
  has no earlier unsettled one; the rate from the count that every pull makes under the lock of
  the subscription.
* `PlatformProofs`, about `QueueAdmin`: `AdminImplementsAtomicUpdates`, for any number of owners.
  The version a write expects is at most that of the row it has read, which is at most the stored
  one; if the stored version is still the expected one, all three agree, and two rows of one
  version differ at most in the completion of the drain, which the write leaves alone.
* `PlatformProofs`, about `QueueScheduler`: `RunsAreExact`, no instant twice and none skipped, for
  any periods and replicas. `SchedulerInv` adds that a claim knows the period its schedule had, or
  completes in vain, and that everything up to the next run has been enqueued; the arithmetic is
  that of `NextIsFirst`: the next multiple of the period is the first one after the instant it is
  computed from.
* `PlatformProofs`, about `AdminSessions`: `RevocationCompletes`. What a refresh has read ages with
  the session it will be written to, so that the end of its life does not move; a login has its
  session to itself until it is stored. While a caller revokes, every session from before the
  change that is stored, or that a login or refresh is about to store, is one that it still has
  to look at or one that was being written meanwhile (`OldIsCovered`).
* `PlatformProofs`, about `Applications`: `EndpointFollowsApplication`, `OneCredentialIsValid`,
  `UpdatesKeepOtherFields`. What an update is about to write it has checked, provided that the
  row is still the one it has read, which is what the comparison in the store decides.
* `PlatformProofs`, about `InstanceRegistry`: `SuccessorIsSafe`, for any number of processes and
  starts at any times.
* `PlatformProofs`, about `Process`: `StoresAreClosedLast`, for any workers and requests. What is
  open is a prefix of the dependencies, all of them while the process serves; and `UsersEnd` says
  phase by phase who may still use them.
* `SessionProofs`, about `FunctionInvocations`: `CallIsSentOnce` and `CallsAgreeOnOutcome`, for any
  number of callers, gateways, sessions, dispatches and late statements. `InvocationInv` adds that
  the row stays with the session that a gateway holds it for, or that a release is under way for,
  and that there is at most one such gateway or release; that the gateway about to send finds
  nothing sent; and that a result comes from the session that was sent the call.
* `SessionProofs`, about `SessionClose`: `ClosingIsSound`, for any number of sessions, of which any
  may close any other. Every `Close` in the stack of a goroutine runs the `Once` of its session and
  the call outside it waits for it; no two calls close one session; and a `Close` of the hub still
  has to close whoever is registered. A goroutine that would wait for a `Once` waits for the one
  goroutine that runs it, and as it has just begun to, it is not waited for on the way back.
* `RealtimeProofs`, about `RealtimeChannel`: `SubscribersSeeEachMessageOnce` and `HistoryJoinsLive`,
  for any messages, limit of the page, length of the history and size of the queues. `ChannelInv`
  says that a message is routed once, after it was appended; that what was sent, what is about to
  be sent, what is flushed and what is buffered follow each other in the order of arrival; that
  nothing a page shows is shown live, because it is remembered until its frame cannot arrive any
  more; and that what a full page lacks is in one of these places.
* `RealtimeProofs`, about `RealtimePresence`: `OpenConnectionsStayPresent`, for any number of
  connections and failures, given that a record lasts at least two refresh periods.
  `PresenceInv` says that a record is never more than one period old when its refresh begins.
* `RealtimeProofs`, about `PublishRate`: `LimitsHold`. The history `granted` counts, for every
  `k`, what a bucket has granted in the last `k` ticks; `RateInv` says that this and what the
  bucket could grant now are within its limit and the refill of `k` ticks, in whole numbers
  multiplied by the window, as the script computes it.

`DispatchInv`, `SessionInv` of the stream path and `CallbackInv` are defined in the modules they
speak of, the others beside their proofs; TLC checked each on the instances of the runs before
it was proved.

Only model-checked:

* all liveness properties (`EventuallySettled`, `EventuallyResolved`, `CloseCompletes`,
  `StoppingEnds` and the like): they need fairness and `ENABLED`, which are out of the prover's
  reach;
* `LateWorkIsDropped` of the agent, `StartsOnItsSchema` of the start of replicas,
  `NothingLostInSilence` of the dashboard, and of `EndpointAgrees` the types of the rows;
* result callbacks and the queue worker, of which the runs check that they end.

Induction over data is open to the provers only where a least counterexample is a number, as for
the retry delays; the library's induction theorems take an operator as a parameter and cannot be
used.

## Not modelled

* The Rust server (`src/rust` and its tables), a second implementation of the platform, which
  would be held to the same abstract specifications.
* Realtime files and push: a file is one row that goes from pending to ready once; a push is a
  loop over devices with one external call each. A failure to store an outcome ends the loop for
  the devices that are left.
* `worker/worker.go`, which nothing constructs, and the ownership of connections and the list of
  live instances in `redisstate/ownership.go`, which nothing calls; the dashboard's own list of
  live instances, which is only shown.
* HTTP decoding, validation and authentication, configuration, metrics, encryption, object
  storage, read-only queries, the request wrappers of the SDKs, consoles and documentation. They
  keep no state that the modelled components share.
* Within the modelled parts: cancellation of events, creation of administrators, the frames of
  the first realtime protocol, audiences and encryption markers of messages, CSRF tokens, and
  what `components` lists beside each part.
