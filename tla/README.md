# Verification of gqueue

gqueue takes events over HTTP and calls the webhooks of the consumers
registered for them, through Google Pub/Sub or through asynq (Redis). This
directory holds TLA+ models of it, the TLC configurations that check them and
proofs that TLAPS checks. Paths below are relative to the repository.

## The system

| Part | Code | State | Operations |
|---|---|---|---|
| Back office | `internal/app/backofficeapp`, `cmd/setup/backoffice` | the `events` table | register or change an event (PUT), register an archived listener (POST), remove (DELETE), list (GET), insights (GET) |
| Event catalog | `internal/interstore`, `cmd/setup/memstore` | a `MemStore` per process: the map of served events | first load, refresh every minute, `GetEvent` |
| Publisher handlers | `internal/app/{pubsubapp,taskapp}/publisher_handle_http.go`, `pkg/pubadapter` | none | look the event up, publish one message per consumer, answer 201/202, 404 or 500 |
| Pub/Sub worker | `cmd/setup/pubsub/consumer.go`, `pkg/asyncadapter/gbubsub_adapter.go`, `internal/app/pubsubapp` | messages in Pub/Sub, callbacks under way | call the webhook, retry, archive, ack, nack, handle dead letters |
| Task worker | `cmd/setup/task`, `pkg/asyncadapter/asynq_adapter.go`, `internal/app/taskapp` | tasks in Redis, handlers under way | call the webhook; asynq retries and archives |
| Webhook client | `internal/fetcher`, `pkg/httpclient` | none | one HTTP call with a time limit, an error above status 299 |
| Metrics and insights | `internal/domain/metric.go`, `internal/storests` | sorted sets in Redis | record one metric, sum up |
| Process | `cmd/api/main.go`, `cmd/setup/httpsvc` | servers, closers | start the services of a scope, stop on a signal |
| Pure functions | `internal/domain/event.go`, `pkg/queryparser`, `pkg/topicutils`, `pkg/intertime` | none | options, query parameters, topic names, durations |

How they interact: the back office writes the table and nothing tells the
publishers, which see it at the next refresh of their `MemStore` (in the scope
`all` the Pub/Sub and the task service share one, and each starts a goroutine
that refreshes it). A publisher handler reads the `MemStore` and hands one
message per consumer to the broker. A worker gets a message under a lease, calls
the webhook, and answers the broker; on the Pub/Sub path it forwards the message
itself (retry or dead letter) before it acknowledges the original, on the task
path asynq counts and retries.

What is hard in it:

* **At-least-once delivery under leases.** A callback may lose its lease, and
  another works on the same message; the process may die between any two calls;
  a publish may report a failure although the message was stored.
* **Forward, then acknowledge.** `retryable` and `archivedMsg` publish a copy and
  then acknowledge the original, with `defer`red Acks and Nacks of which only
  the first counts.
* **Retries counted in two places**, in a message attribute on the Pub/Sub path
  and by asynq on the task path, each with its limit.
* **A cache refreshed in two phases** by up to two goroutines, one of which may
  be late.
* **Stopping**: subscribers end with an error and are not started again, a
  cancelled wait acknowledges, the task server requeues.

What makes the parts correct: no job is lost silently, a job is given up only
after a real failure (and only when its retries are used up, but for the Pub/Sub
path, where a subscriber that stops while a job waits for its next try drops it),
a second call for a job whose webhook took it comes from faults and time limits
alone, a unique event has one task under way, every accepted job gets an
outcome, publishers are served active events only, from a table state that really
was, and eventually the current one.

## Modules

| Module | Models |
|---|---|
| `DeliveryContract` | the promise about one job (one iteration of the fan-out loop), whatever the broker |
| `PubSubDelivery` | the Pub/Sub path from the publish to the last acknowledgement |
| `TaskDelivery` | the task path from Enqueue to completion or archive |
| `EventCatalog` | the events table, the `MemStore`s and their refreshes |
| `EventPublisher` | the publisher handlers and their clients: the loop over the consumers of an event |
| `Lifecycle` | the replicas: start of a scope, topics and subscriptions, signals, shutdown, exit |
| `InsightsStore` | recording metrics in Redis and reading those of the day |
| `Metrics` | the loop of `Insights` that sums the metrics up |
| `EventListing` | the list of events: query parameters, defaults, the query, a walk through its pages |
| `MCPubSubDelivery`, `MCTaskDelivery`, `MCEventCatalog`, `MCEventPublisher`, `MCLifecycle` | instances for TLC |
| `MCBackOffice` | `InsightsStore`, `Metrics` and `EventListing`, the three things the back office reads |
| `PubSubDelivery_proofs` | all safety properties of `PubSubDelivery`, the refinement and the absence of loss |
| `EventPublisher_proofs` | type correctness, what a success promises, when a message is sent twice |
| `EventCatalog_proofs` | type correctness, what publishers are served, what a started service knows |
| `TaskDelivery_proofs` | all safety properties of `TaskDelivery`, the refinement and the absence of loss |
| `Lifecycle_proofs` | type correctness, requests and clients when a process stops, who gives up on a topic |
| `InsightsStore_proofs` | type correctness, and what the insights of a day contain |
| `Metrics_proofs` | that the insights add up |
| `EventListing_proofs` | type correctness, the walk through the pages |

Definitions whose comment begins with "Mutant" are deliberately wrong variants of
the operator below them; they belong to no specification and show that each
property depends on the code it is about.

### DeliveryContract

A job is *stored* when the broker took it in, *accepted* when its publisher heard
of it, *live* while the broker has a copy somebody will work on. It leaves with
an outcome: *delivered*, *discarded* (given up after its retries) or *dropped*
(acknowledged unfinished by a worker that was stopping); the last two only after
a failed call. A live job may not disappear without one. Copies may come back at
any time: delivery is at least once.

### PubSubDelivery

| State | Code |
|---|---|
| `queue` | the copies of each message Pub/Sub would hand out now |
| `pc[w]`, `held[w]` | where a callback of `subscription.Receive` is, and its `*pubsub.Message` |
| `leased[w]` | whether Pub/Sub still regards the callback as the owner |
| `receiving[t]` | the goroutine of that subscriber is inside `Receive` |
| `wraps`, `retry` of a message | how often it was marshalled into another message's Data, and its `retry_count` |

Each action is what happens between two points at which others can act: handing
out a message, the decode or the webhook call (`DecodeFails`, `NotifyOk`,
`NotifyFails`), the wait (`WaitElapsed`, `WaitCancelled`), the publish of a retry
or an archived copy (`Republish`, `Archive`), and the acknowledgement (`Ack`).
`ForwardFails` is the failed publish with its Nack. Faults, bounded by
`MaxFaults`: `PublishFails`, `ForwardFails` (either may have stored the message),
`LeaseExpires`, `ReceiveFails`, `Restart`. Pub/Sub itself is external and modelled
by unordered at-least-once delivery under leases.

The decode deserves a word. `retryable` passes the received message to
`Publish`, which marshals it, so the Data of the copy is the JSON of a
`pubsub.Message` and not of a `RequestPayload`. `wraps` counts this; `Decodes` is
true of unwrapped messages only.

### TaskDelivery

Per task: `state` (where asynq has it; *called* means that the webhook answered
and the completion is not written), `retried`, `attempts`; per job the unique
`lock`; `orphans` are tasks with a handler that runs on without them. `Store` is
`Enqueue` with the options of the event; `FailAttempt` is asynq's retry or
archive; `LeaseExpires` is the recoverer; `Requeue` is a server that stops. asynq
and Redis are external and modelled by what the code relies on.
`EffectiveRetry` is the merge of `NewDefaultOpt` and `ToAsynqOptions`.

asynq does not wait for a handler whose context has ended. So an attempt fails
(`AttemptFails`) when the handler returns an error, but also when the deadline
passes before it returned, even after `Notify` returned nil and while
`insertInsights` is at work: a task whose webhook took it is then retried, and all
its further attempts fail without a call (`Calls`). The jobs of an event without a
deadline (`Deadlined` has those with one) get asynq's default limit of 30 minutes
per attempt instead, `AttemptTimesOut`; they are called again. The end of the
context also ends the webhook call, so an answer counts only if it came before.
`requeued` and `cutOff` are history: how often a stopping server put a task back,
and for which tasks asynq has not waited for a handler.

### EventCatalog

`table` is the events table; `past` remembers what `GetAllEvents` would have
answered after each write. `Query` and `Refresh` are the two halves of
`LoadInMemStore`; `Start` and `FirstLoadFails` are `Service.Start`, which ignores
the error of its first load. `storeOf` is the deployment, chosen in the initial
state: one process with a shared `MemStore`, or one per service.

### EventPublisher

| State | Code |
|---|---|
| `served` | what `GetEvent` of the `MemStore` has for the event |
| `clientOf[h]`, `consumers[h]`, `next[h]` | a running handler: its request, its copy of the event, the position of its loop |
| `waitsFor[c]`, `answer[c]` | the client's connection and the last answer it got |
| `lock` | asynq's unique locks: payload and consumer |

`Request` is the handler up to its loop, `Publish` one iteration, and
`PublishRefused`, `PublishFails` and `AnswerOk` are its three ends. A handler
does not stop when its client is gone (`GiveUp`: the client's own time limit, or
the server's write timeout, after which the answer is lost); the client may
post the same event to a second handler while the first one is at work. A lock
ends when its task completes or after `unique_ttl` (`LockEnds`).

### Lifecycle

| State | Code |
|---|---|
| `phase[p]`, `at[p]` | where `main` is: starting its services, in `waitForShutdown`, in the loop over the servers, in the loop over the closers, and how far |
| `expired[p]` | `shutdownCtx` is done: one context of 15 seconds for all servers |
| `open[p]` | the services whose `http.Server` accepts connections |
| `worker[p]` | the asynq server, which `Run`s in a goroutine and listens for signals itself |
| `sub[p][t]` | the goroutine of each handler in `consumer`: `Exists`, `CreateTopic`, `Exists`, `CreateSubscription`, `Receive` |
| `topicBy`, `subBy` | what exists in Pub/Sub, and who made it |
| `req` | the HTTP requests under way |

`StartService` is one iteration of `main`'s start (`BackofficeStarts`,
`PubsubStarts`, `TaskStarts` are its cases). `Signal` does what the operating
system and the two listeners make of it: before `waitForShutdown` it either ends
the process or, when the asynq server already listens, stops that server alone.
`CloseListener` and `ShutdownReturns` are the two halves of `server.Shutdown`,
which ends when no request is left or the time is over; later servers go on
accepting meanwhile. `AllServersShutDown`, `CloseClient` and `MainReturns` follow
the code; `Die` is the end of a process with all its goroutines. Replicas share
one Pub/Sub: a subscriber whose `CreateTopic` meets a topic another replica has
just made gets `AlreadyExists` and returns for good (`SubscriberFails` is that,
or a fault).

### InsightsStore

A handler records one metric with four Redis commands: `ZAdd` into a sorted set
whose key ends with the day of the month, `Expire`, then, deferred, `SAdd` of the
key into the group of the day, and `GroupExpire`. `task[r]` is where a recorder is.
The day of the key is taken before the first command, the day of the group after
the second. Each command may fail, before or after its effect
(`KeyCommandFails`, `GroupCommandFails`), or be sent again (`ZAddAgain`); the
process may end (`Abort`). `Tick` lets a minute pass and drops what expires.
`StartRead`, `ReadKey` and `EndRead` are `GetAll`, which reads the keys of the
group one by one, in any order. `today`, `missed`, `missedGroup` and `straddled`
are history, for the properties only.

### Metrics

`Iterate` is one iteration of the loop of `Insights` over any metric, `sums` its
accumulators, and `Insights` the report: totals, segments, requests per minute,
percentiles and percentages. Faithful in what is odd about it: a minute that
returns after another one opens a second entry of the series (`AddToSeries`), a
percentile is that of the first duration of a name (`AddDuration`: the appended
slice is dropped), and no metrics give `NaN`. Percentages are in hundredths of a
percent. `Percentile` says which duration `percentile` picks, not how it sorts.
`AnswerAddsUp` says of a series that its entries count the metrics of the name one
stretch after the other (`CountsInOrder`), so that two entries of one minute
together still count that minute.

### EventListing

`rows` is the table in the order in which a query happens to find its rows (there
is no `ORDER BY`), `walk` a client on its way through the pages. `ParseQueryParams`,
`ApplyDefaults` and `ValidSQL` are the three steps from the parameters to the
answer: 400 for a number that is malformed or needs more than 64 bits; 500 when the
statement is refused or the database fails, which it may at any request
(`Refusal`). The statement is refused when the WHERE clause is empty (a `state`
that names nothing), asks for `team_owner`, which the table does not have, has a
name with a quote in it (`Quoted`; names are put into the statement as they are),
or a limit or an offset beyond a signed number of 64 bits (`MaxBigint`).
`Write` is any change of a row by somebody else, which may move it. A list of the
query is the set of the names in it, since the query asks for `IN (...)`. `PageOf`
gives the positions in the table whose rank among the matching rows lies in the
window of `LIMIT` and `OFFSET`; a client goes on while there are at least as many
matching rows as its page ends with (`IsFull`).

## Runs

| Run | Instance | Shows |
|---|---|---|
| `pubsub_safety` | 2 jobs, 2 callbacks, 1 retry, 2 faults, symmetric; 330 000 states | `NoSilentLoss`, `WrapsMatchRetries`, `GivenUpOnlyAfterFailure`, `NoWorkAfterOutcome`, and that every behaviour is one of `DeliveryContract` |
| `pubsub_liveness` | 2 jobs, 1 callback, 2 faults | `EventuallySettled` |
| `task_safety` | 2 jobs (one with a deadline), 2 tasks, 2 handlers, 2 retries, unique lock, 2 faults, symmetric; 310 000 states | `ArchivedIsExhausted`, `AttemptsWithinOption`, `TakenOnce`, `OneTaskWhileUnique`, and the contract |
| `task_liveness` | 2 jobs (one with a deadline, one without url), 2 tasks, 1 handler, 1 retry, no lock, 2 faults | `EventuallySettled` |
| `catalog` | 2 events, 3 writes, 2 services in both deployments | `ServedIsActive`, `CacheIsASnapshot`, `KnownSinceStart`, `NeverGoesBack`, `EventuallyCurrent` |
| `publisher` | 2 clients with equal events, 2 handlers, lists of 1 and 2 consumers in either order, 1 refresh, 1 fault, unique locks; 160 000 states | `PromiseKept`, `DuplicatesOnlyAfterFailure`, `RetriesGetThrough` |
| `lifecycle` | a replica with all services and one with Pub/Sub only, 1 topic, 1 request, 3 starts and faults; 380 000 states | `ClientOutlivesHandlers`, `GivesUpOnlyAfterRace`, `RequestsAreAnswered`, `SignalledExits`, `SomebodyListens` |
| `backoffice` | 2 recorders, 2 subjects, 8 minutes in days of 2 and months of 3 days, 2 metrics, 1 fault; 3 metrics summed up; 3 events, 2 writes, pages of 1 to 3, a quoted name, limits beyond both ranges; 1 530 000 states | `RecordedIsShown`, `NothingTwice`, `AnswersAreOfToday`, `AnswerAddsUp`, `WalkMissesNothing` |
| `pubsub_retries`, `pubsub_dead_letters`, `task_zero_retries`, `catalog_listed` | smallest instance | each finds a behaviour that contradicts what the repository says (below) |

Why the bounds are enough. Two callbacks and two jobs give every pairwise
interleaving, of copies of one job and of different ones. Two faults give a fault
in the handling of another (a lost lease, then a crash; a failed publish that
stored its message, then another). One retry is what the code publishes with
(`max_retries` is "1") and has both sides of the limit. Two tasks of two jobs
allow a second task of a job next to its first, or one of another job, and in
`task_liveness` one handler less than tasks makes them wait; with two retries in
`task_safety` a task can lose a lease, be put back and still have a try left. Two handlers let a client's second request run beside its first,
or beside the equal one of the other client, and lists in both orders let two
requests hold the locks the other needs. Three writes are the shortest sequence in which an event is
registered, removed and registered again. Three starts and faults of two
replicas allow both to start together and one to fail, or one to start, stop and
come back next to the other. Eight minutes are four days, one more than a month:
a key may live on from its day to the same day of the next month, and be read
there. Two recorders write over the same midnight, or one of them fails half-way.
Three metrics are the least with which a minute comes back after another one.
Three events with two writes let a row move from behind the page just read to
before it; in `backoffice` the three parts share no state, so each behaviour
moves one of them (`part`). Symmetry is used in safety runs only.
Deadlock is not checked: a system whose jobs are settled has nothing left to do.

Fairness. Callbacks and handlers make progress (`WF` on their steps): each wait
in them has a time limit (five seconds before a retry, the client time limit of a
call, the context of a publish). A broker goes on handing out what is available
(`WF` on `Receive` per message; `SF` on `Dequeue`, because a task competes with
others for a free handler and asynq takes pending tasks in order). Ticker
and query of the catalog are weakly fair. Nothing is assumed of faults, and
publishers need not publish, except in `RetriesGetThrough`, which is about
clients that keep trying: there a client whose request failed posts it again
(`SF`, since it competes for handlers), and faults and refreshes, being bounded,
come to an end. With equal consumers in one event it would be false: the second
message is refused by the lock of the first (`ListingAssumption`). In `Lifecycle` `main` and
the setup of the subscribers get on with their work (every call they make
returns or fails) and the 15 seconds pass. Of HTTP handlers, callbacks, signals
and of whoever starts a replica again nothing is assumed: `SignalledExits` holds
although a handler may hang. `SomebodyListens` is stated for replicas that stay
up; with one that is down for good it is false, because the others may all have
lost the race for the topic to it. `EventuallySettled` of the Pub/Sub path is stated
for behaviours in which both subscribers run from some moment on: nothing starts
one again after `Receive` fails.

### Where code and description disagree

* `pubsub_retries`: the retry of a failed call never reaches the webhook, because
  the copy cannot be decoded; `pkg/telemetry/metrics.go:28` counts it as a retry
  for a consumer.
* `pubsub_dead_letters`: archived listeners are never told of a dead letter; the
  handler is given the `MemStore`, whose `GetAllSchedulers` always answers
  `EventNotFound`. `internal/app/pubsubapp/deadletter_handle_test.go:153` checks
  the opposite with a mock.
* `task_zero_retries`: `max_retries` 0 is accepted
  (`internal/domain/event.go:91`) and means three retries.
* `catalog_listed`: an event that was removed and registered again is listed as
  active and never served, because the upsert leaves `deleted_at` set.

Without a run of their own, because the models take them as they are:

* `docs/shutdown.md:15` says that the closers stop the workers and that the
  process exits only then. They close the clients: subscribers and the asynq
  worker run until `main` returns, which ends them wherever they are. The context
  of `main` is not cancelled by the closers either.
* A signal during the start goes to nobody, or to the asynq server alone, which
  stops while `main` goes on serving publishers (`Signal`).
* `example/example.md:22` lists with `team_owner`, for which
  `deployment/tables.sql` has no column: 500.
* Every publish is counted as a success: `insertInsights` records `ACK: true`, and
  the argument `err == nil` of its `defer` is evaluated before anything can fail
  (`publisher_handle_http.go:61` and `:89` of `pubsubapp`, `:73` and `:101` of
  `taskapp`).
* What a consumer registered without a `service_name` (nothing asks for one)
  consumes is counted as published (`internal/domain/metric.go:49`).
* The page of a listing is an offset in rows (`postgres_store.go:132`): pages
  overlap. `WalkMissesNothing` says what this still guarantees.
* A listing with a `state` parameter that names nothing gets no default
  (`pkg/queryparser/parser.go:141` sets an empty slice, which is no zero value) and
  is answered 500; so is one whose names have a quote in them, or whose limit or
  page is beyond a signed number of 64 bits.
* Percentiles are those of one duration per name, and a minute may be listed
  twice; `AnswerAddsUp` is what holds of the insights nevertheless.

A property these runs do *not* contradict is just as telling: with two services
on one `MemStore` a late query of the first can replace the first load of the
second, and the cache can go back by one refresh. `KnownSinceStart` and
`NeverGoesBack` say exactly for whom the guarantee holds, and `EventuallyCurrent`
that the effect ends with the next tick.

## Proofs

Every safety property of every passing run is a theorem. The theorems hold for all
values of the constants. For the Pub/Sub path these are
all finite sets of jobs and callbacks, all retry limits and fault bounds, under
the assumptions named in `PubSubDelivery`
(`MaxRetriesAssumption`, `MaxFaultsAssumption`, `WorkerAssumption`,
`NoMessageAssumption`).

1. `TypeCorrect`, `WrapsCorrect`. `TypeOK` is not inductive: a wrap count stays in
   its range only because it follows the retry count, and that one stays in its
   range only because a waiting callback has retries left. The invariant is
   `ShapeInv == TypeOK /\ WrapsMatchRetries /\ HeldShape`, preserved action by
   action (`ShapeNext`).
2. `GivenUpCorrect`. A dead letter is in the system because a call failed, but the
   message does not say so; `Remembered` ties messages and callbacks to the
   history: a wrapped message carries a failed job. The proof goes through
   `WhereMessagesComeFrom`: a message new to the system is a request just
   published or a copy a callback forwarded.
3. `ContractImplemented`. The refinement maps `live` to the jobs with a copy the
   broker will hand out, now or when its holder fails. Each action is shown to be
   one contract step or a stutter: the lemmas say how a step changes `LiveJobs`.
4. `NoLossCorrect`. Conservation is inductive in the contract; with the step
   simulation it carries over, and with `accepted \subseteq stored` it is
   `NoSilentLoss`.

5. `PromiseKeptCorrect` (`EventPublisher`, for any lists of consumers, clients,
   handlers and limits). A success promises the whole list, so while the loop
   runs every consumer before `next` must have been reached: `PassedReached`,
   kept because `reached` only grows and a handler's copy of the event does not
   change. The theorem holds with and without unique locks, so it covers the
   Pub/Sub path too, which run `publisher` does not instantiate.
6. `DuplicatesCorrect`. A client that no request failed is `Calm`: at most one
   handler works for it, it is connected to it, and exactly what that handler
   has behind it was sent. The consumers of an event being distinct
   (`ListingAssumption`), the next one is new. `TypeCorrect` of the module comes
   first, with the fact that a connected client's handler works for it.

7. `EventCatalog_proofs` (for any events, services, deployments and numbers of
   writes): `TypeCorrect`, `SnapshotCorrect`, `ServedCorrect`, `KnownCorrect`,
   `NeverGoesBackCorrect`. Neither the properties nor their conjunction is
   inductive. What a store holds is active because every answer of
   `GetAllEvents` was (`AnswersAreActive`), and those were because a disabled row
   stays deleted (`DisabledIsDeleted`). What a store holds is recent because of
   what may still be swapped in: `OneLoad` says that a load in flight is the only
   one of its service and was made after its start, `LoadIsNewer` that the load of
   a store's only service is no older than the store. With two services on one
   store the latter is false, which is why the cache can go back there.
8. `Lifecycle_proofs` (for any replicas, scopes, topics, requests and bounds):
   `ClientCorrect`, `AnsweredCorrect`. While `main` goes through its servers, those
   it has passed are closed and, unless the time is over, without requests
   (`DrainedInOrder`): nothing can reach a closed server, so they stay *settled*.
   After the loop all servers are (`ClosingSettled`), so neither the closers nor
   the end of `main` can meet a request. `Typed` and `WaitingAtZero` carry what the
   index needs. `TypeCorrect` is about all variables, `RaceCorrect` about the
   subscribers: whoever is about to create a topic or a subscription has not
   made it itself (`NotYetMine`), and whoever has come to its subscription has a
   topic (`TopicFirst`), so an `AlreadyExists` is always another replica's doing.

9. `TaskDelivery_proofs` (for any jobs, tasks, options in the range the code
   accepts, and faults): `TypeCorrect`, `ArchivedCorrect`, `AttemptsCorrect`,
   `TakenOnceCorrect`, `UniqueCorrect`, `ContractImplemented`, `NoLossCorrect`. The
   invariant has four parts besides types: `CountsAgree` (attempts are exactly the
   counted failures, the times a stopping server put the task back, and the one under
   way), `CutOffsExplain` (a task that was taken, and whose handlers asynq waited
   for, is done, about to be, or overdue), `UnfinishedHoldsLock`, and `Recorded`, which
   ties a task to the history of its job. The refinement rests on the last: that a
   job given up has failed before follows from `retried[t] > 0`, and so from
   `EffectiveRetry` being at least 1. `AttemptsCorrect` needs `MaxRetries > 0`; with
   0 the property is false, which run `task_zero_retries` shows.

10. `NoWorkCorrect` (`PubSubDelivery_proofs`). Stronger than the property and
   inductive is `SingleCopy`: a job has one copy at most, either available or in
   the hands of a callback that has not decided yet, and none once it has an
   outcome. It holds as long as there were no faults (`Undisturbed`), which also
   means that what is stored was accepted, so no publisher tries again. A publish
   keeps it because a message or a callback belongs to a stored job (`ShapeInv`,
   `GhostInv`), a forwarded message because the callback then only acknowledges.

11. `InsightsStore_proofs` (for any recorders, subjects, lengths of days and of
   months, numbers of metrics and faults; a month has three days at least,
   `BoundAssumption`, and no task is `Idle`, `IdleAssumption`): `TypeCorrect`,
   `ShownCorrect`, `OnceCorrect`, `TodayCorrect`.
   Keys and groups are named by the day of the month, so everything rests on when
   they go. `KeyInv` says that a sorted set has the metrics of its key, each once;
   `KeyExpiryInv` that a key gets its TTL on its day and is gone by the end of the
   next one, unless it was left without; `GroupInv` the same of groups, and which keys
   a group may have; `TaskInv` what a recorder under way has already written;
   `TodayInv` that today's completed metrics are in their sorted set and their key in
   today's group. `ReaderInv` carries this over to a reader between two
   keys, where things go on changing. The calendar enters through a few lemmas: days
   less than a month apart differ in their day of the month (`SameDayOfMonth`), and
   what gets its TTL within a minute of a day is gone before the second day after
   (`Deadline`). With months of two days `TodayCorrect` fails: the key of the day
   before yesterday is that of today.

12. `EventListing_proofs` (for any finite number of events, queries, default limit
   and number of writes, `QueryAssumption`): `TypeCorrect`, `WalkCorrect`. A write
   brings a row forward by one place at most (`PositionFalls`), so that a row
   which matches, was not written and was not seen yet is at least as far behind as
   the page just read ends, less the writes since (`WalkInv`); the next page begins
   one row before that.

13. `Metrics_proofs` (for any metrics with a duration, and any number of them,
   `MetricAssumption`): `TypeCorrect`,
   `AddsUpCorrect`. `Tallied` says of the consumed and of the published metrics, after
   any number of iterations, what the accumulators hold, for each name the way its
   metrics are dealt out to the entries of its series; one more metric extends it
   (`TalliedGrows`, `ExtendedInOrder`) or leaves it alone (`TalliedStays`). A sum over
   the entries would need induction over the series, a function from the metrics to
   the entries does not.

Only model-checked: liveness (`EventuallySettled`, `EventuallyCurrent`,
`RetriesGetThrough`, `SignalledExits`, `SomebodyListens`), which is outside the prover's
reach, as is ENABLED, and what the four runs with `violation` show. A percentile of more
than one duration is never asked for, and nothing is proved of it.

## Not modelled

* Telemetry, logging and configuration: output, or constants read once.
* `TaskManager`, `cache_store.go`, `msg_data.go`, `mongo_store.go`, `pkg/auth`,
  `UpdateEvent`, `GetEventByID`, `RefreshRetryTopics`: nothing in `cmd/api`
  reaches them.
* A Pub/Sub message without `max_retries` (the callback panics): this program
  publishes none.
* The contents of payloads and headers; no property depends on them.
* `pkg/topicutils`, `pkg/intertime` and the text of keys: names and durations are
  model values. Redis keys are records in `InsightsStore`, which takes the names in
  them to be free of the separators `.` and `:`.
* Signed, float and Boolean query parameters: no filter has such a field.
* The scopes `task` and `backoffice` in run `lifecycle` (they do less of the same;
  the proofs cover every scope), middleware, and the workers' callbacks at the end
  of a process, which `PubSubDelivery` and `TaskDelivery` have as `Restart` and
  `Requeue`.

## Plan

In this order:

1. Composition of `EventCatalog` with `EventPublisher`: what a publisher may still
   publish after a change, and until when.
