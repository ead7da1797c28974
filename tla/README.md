# IoTFlow: a TLA+ verification project

IoTFlow takes events from devices over MQTT, streams them through Kafka and
stores them in PostgreSQL. These modules model the two services that do it, the
ingestion service (`apps/ingestion`) and the worker (`apps/worker`), with the
stores they share. TLC checks them on small instances, and TLAPS proves the most
important properties for every instance.

`PROJECT.json` lists the components, the runs, the theorems, the hazards the
properties are for, and for every definition the lines of source it stands for.

## The system

```
devices --MQTT--> broker --> subscriber loop --> _MSG_QUEUE --> dispatcher --> iot.events.raw
                             (one per pod)                      |  log, validate,
                                                                |  limit (Redis), produce
iot.events.raw --> consume loop --> tasks --> idempotency (Redis) --> validation
                   (one per worker)  |         --> INSERT with retry --> device_state
                                     |         \--> dead letters (Kafka topic and table)
                                     \--> commit offset + 1
```

| Part | State | Operations | What is hard | What makes it correct |
|---|---|---|---|---|
| Consume loop (`consumer.py`) | fetch position, record in hand, semaphore, tasks | poll, acquire and spawn, commit, release | tasks of a partition run and commit in any order; rebalances; a record that cannot be deserialised | permits conserved; committed records accounted for; the loop drains |
| Worker process (`worker/main.py`) | clients and loop, and which of them are closed | start, signal, leave, stop, close, end | the tasks outlive the loop and meet closed clients | what a refused task gives up is accounted for |
| Pipeline (`handlers.py`, `processor.py`) | the event a task carries | claim, validate, insert, upsert, dead-letter | three stores, no transaction across them | duplicates and losses happen only for known reasons |
| Retry and DLQ (`retry.py`) | attempt, delay and retry count | with_retry, send | lost answers; two sinks that fail independently; how long an outage the delays outlast | retry counts exact; no event dropped unseen; short outages harmless |
| Idempotency guard (`idempotency.py`) | Redis keys with a TTL | is_new, are_new_batch, release | fail-open, eviction, a crash after the claim, pipelines that mix | one claim, one verdict, one INSERT |
| Database (`db.py`, `001_initial.sql`) | events, devices, device_state, dlq_events | insert, upsert, record | `ON CONFLICT` on a key that never conflicts; overwriting upserts; partitions that end | device_state follows the stored rows |
| Subscriber (`ingestion/main.py`) | connection, reconnect delay, queue | connect, subscribe, receive, reconnect | one MQTT identifier for all pods; a bounded queue | every message in one place; subscribed for good in the end |
| Dispatcher and handlers (`ingestion/handlers.py`) | the message in the handlers | log, validate, limit, produce | one coroutine serves all; exceptions | every message comes to an end; order per device |
| Rate limiter (`rate_limiter.py`) | a Redis counter per device with an expiry | the Lua script | window boundaries, fail-open, eviction | nobody shut out for ever or refused early |

The services meet at the topic `iot.events.raw`: the sequence `topic` of
`Ingestion` is what the constant `Log` of `Worker` stands for, one partition per
device group, duplicates included (a device may publish an event twice).

## The modules

| Module | What it is | Uses |
|---|---|---|
| `Worker` | consume loop, pipeline, retry, dead letters, stores | |
| `WorkerProcess` | the process around them: start, shutdown, end | extends `Worker` |
| `DeliveryLedger` | what the worker promises, abstractly | implemented by `Worker`, `WorkerProcess` |
| `IdempotencyBatch` | `are_new_batch` | |
| `RetryWindow` | `with_retry` and `_compute_delay` in time | |
| `Ingestion` | subscribers, broker, queue, dispatcher, handlers | |
| `Relay` | what a pod promises, abstractly | implemented by `Ingestion` |
| `RateLimiter` | the Lua script over a clock | |
| `MCWorker`, `MCWorkerProcess`, `MCIngestion`, `MCIdempotencyBatch` | instances for TLC | |
| `WorkerProofs`, `WorkerLedgerProofs`, `WorkerProcessProofs`, `DeliveryLedgerProofs` | theorems about the worker | each extends its module; `WorkerProcessProofs` builds on `WorkerLedgerProofs`, which builds on `WorkerProofs` and takes `DeliveryLedgerProofs` as `Book` |
| `IngestionProofs`, `RateLimiterProofs`, `IdempotencyBatchProofs`, `RetryWindowProofs` | theorems about the other modules | each extends its module |

Operators commented as a variant (`FinishKeepingPermit`, `IsNewWithoutNX`, ...)
are plausible bugs: put in place of the definition that follows them they break a
property, which shows that the property depends on that code.

### Worker

The consume loop, the pipeline, the retry loop and the dead letter publisher, for
any number of workers in one consumer group. A record is its position in a
partition; an event id, spelled as it arrived, stands for the event. The spelling
matters: `is_new` claims the id of the raw event (`handlers.py:46`, `:53`), while
`release` deletes the key of the id that the event model has put in upper case
(`models.py:53`, `handlers.py:113`). `Upper` maps each spelling to that id, so
`ReleaseKey` (through `DropKey`) may leave the key that was claimed, or take the key of another
event. `Kind` says what the code makes of an event: it is valid; its INSERT raises a
non-retryable error; its INSERT is refused with an error that is retried
(`"unpartitioned"`: the partitions of `001_initial.sql` end with 2026, or the payload
has a NUL character, which JSONB does not take); it fails validation, with an
`event_id`, without one, with a null one or with one that is not a string; it is JSON
but no object; it is not JSON. `Unrecordable` are the events whose dead letter
`dlq_events` refuses, which `retry.py:126` passes on unvalidated: a null id, a
`device_id` that is no string, a NUL character in the payload.

| In the code | In the module |
|---|---|
| the group's assignment, committed offsets, fetch positions | `owner`, `committed`, `position` |
| `msg` in `_consume`, `_semaphore` | `held`, `permits` |
| the await a task is suspended at, its arguments | `pc`, `job` |
| the loop variable of `with_retry`; `retry_count`, which `_insert` counts | `attempt`; `retries` |
| `iotflow:idempotency:*` | `keys` |
| tables | `rows`, `devices`, `deviceState`, `dlqTable` |
| `iot.events.dlq` | `dlqTopic` |
| `async for msg in consumer` | `Poll`, `PollPoison` (the deserializer raises), `FetchFails` (a `KafkaError`, `consumer.py:94`) |
| `_semaphore.acquire()`, `create_task` | `SpawnTask` |
| `IdempotencyHandler`, `is_new` | `SkipCheck`, `Claim`, `SkipDuplicate`, `CheckFailsOpen`, `ProcessRaises` |
| `ValidationHandler` | `AfterValidation` (no await: part of the step before) |
| `with_retry(_insert)` | `InsertSucceeds`, `InsertFails`, `InsertRejected` |
| `upsert_device_state` | `EnsureDevice`, `UpsertState` (two statements) |
| `release` (of the upper-case id), `DLQPublisher.send` | `ReleaseKey`, `PublishDeadLetter`, `RecordDeadLetter` |
| `consumer.commit`, `_task_wrapper`'s `finally` | `CommitOffset`, `CommitFails`, `Finish` |
| the group, process death, Redis expiry | `JoinGroup`, `Rebalance`, `Crash`, `EvictKey` |

Every await is a boundary between two steps. Each kind of fault has a budget, so a
behaviour has finitely many: a Redis call raises (with or without effect), a key
goes, a statement fails (without effect, or with effect and no answer), a dead
letter produce or a commit raises, the consumer raises a `KafkaError` out of its loop,
the group rebalances, a process dies. History variables record what hit which event:
`orphans` (in flight in a process when it ended, for whatever reason), `abandoned` (no
dead letter sink took it, or `process()` raised), `refusals` (which sinks' calls raised
for its own dead letters), `misses` (how often its deduplication was defeated); and
`strays` counts the releases that took the key of another spelling.

### WorkerProcess

`main()` around the pipeline. In `Worker` a process ends in one step; here it ends
the way the code does it, and `phase` says how far it is.

| In the code | In the module |
|---|---|
| `init_pool`, the ping, `run_consumer_loop` | `Start` |
| `stop_event` set, `consumer_task.cancel()` | `Signal`, `CancelLoop` |
| the deserializer raises, `finally` of `run_consumer_loop` | `LoopFails` |
| `start()` or the iterator raises a `KafkaError` (`consumer.py:94`), the same `finally` | `ConsumerFails` |
| `consumer.stop()`, `dlq_producer.stop()` | `LeaveGroup`, `StopProducer` |
| `db.close_pool()` begins, and has waited | `ClosePool`, `PoolIdle` |
| `main()` returns, `asyncio.run` cancels what is left | `End` |
| a task whose clients are open | `ServedStep` (a step of `Worker`) |
| a task at a closed client | `RefusedStep`: `InsertRefused`, `DeviceRefused`, `PublishRefused`, `RecordRefused` |

No one waits for the tasks that the loop spawned, or cancels them. They run on
while the process leaves the group, stops the dead letter producer and closes the
pool. The pool refuses new statements and waits for those under way (`busy`); a
refused INSERT counts as a failed attempt, a refused dead letter is only logged,
and the record is committed if the consumer is still there.

Only processes that are in the group get partitions (`MembersJoin`,
`MembersRebalance`). A process that has left the group can no longer commit: the
condition of `CommitOffset` on the partition's owner says so.

### DeliveryLedger

The worker service without processes, tasks, keys and tables. An event is open
while some worker holds it and closes only with an outcome: a row, a dead letter,
or an excuse. A further row needs a charge, and an offset passes only events that
are open or have an outcome. `Worker!Ledger` is the refinement mapping:

| Ledger | Worker |
|---|---|
| `open` | events a loop holds or a task has not decided about (`Pending`) |
| `copies` | `rows` |
| `dead` | events with an envelope in the topic or the table |
| `excused` | `orphans \cup abandoned` |
| `charges` | `misses` |
| `Storable` | events of kind `"valid"` |

`ImplementsLedger` is stronger than the invariants `NoSilentLoss` and
`DuplicatesCharged`: an outcome has to be there at the very step at which the last
task or loop lets go of the event.

### IdempotencyBatch

`are_new_batch` pipelines a SET NX per id with `transaction=False`: Redis runs the
commands one by one, with those of other callers in between (`Execute`), and can
answer one with an error (`CommandFails`). `execute()` raises the first error only
when all the replies are in (`FailsOpen`); a lost connection raises at once, and
Redis may still run what it has read (`ConnectionLost`, `LateCommand`). redis-py
as pinned retries neither by itself. Both end in `[True] * len(event_ids)`. Nothing in
the repository calls `are_new_batch` yet, so the callers are any coroutines with
any lists, an id twice in a list included. Tallies count, per id, claims,
verdicts, verdicts without a claim, keys that went, and claims whose caller died.

### RetryWindow

The loop of `with_retry` with a clock: attempts, a delay after each but the last, and
one outage of the database that is under way when the call begins, or none. An attempt
that meets the outage takes any time from none to the bound `LongestTry`: the statement
has `DB_COMMAND_TIMEOUT`, but `pool.execute` (`db.py:56`) first waits for one of 20
connections that up to 50 tasks share, for which `db.py:18-24` sets no timeout, and a
connection that was lost is made anew under a timeout of asyncpg's own. When its time is
over it raises (`Sleep`, `GiveUp`), or it succeeds because the database came back
meanwhile (`SucceedLate`). Ticks are chosen so that
a quarter of every delay is whole, and every value of the jitter is explored. `Raw` is
the delay before its cap and jitter, as a recursive function: the prover knows no
powers. `Worker` has the same loop without time.

### RateLimiter

The Lua script over a clock. A key past its expiry does not exist; the script
increments and, at 1, sets the expiry; a call may raise before or after the script
ran and is then let through; Redis may evict a key. `admits` keeps, per device, the
ticks at which its events got through, in order.

### Ingestion

Any number of pods, the MQTT broker, the topic and the limiter's counters. `link`
is where a subscriber loop is, `inbox` what the broker sent it and it has not
read, `queue` is `_MSG_QUEUE`, `stage` and `current` are the dispatcher's. The
broker keeps one connection per client identifier, and all pods use the same
(`main.py:189`), so `Connect` ends the session of whoever had one. Between
`queue.get()` and the limiter's call the code never awaits, so logging and
validation belong to `Take`. What the limiter does in time is in `RateLimiter`;
here a counter may return to zero at any moment (`WindowEnds`).

`RawPayloadBound` is about `handlers.py:47`, which uses a name no code assigns.
FALSE is the code as it stands: every message raises in the first handler. With
TRUE the name is taken to be bound to the decoded payload, and the code behind it
runs. `unbound_name` shows the first; the other runs of `Ingestion` study the code
that the name keeps from running.

### Relay

The ingestion service without connections, queues, handlers and limits: a message
goes into a line or nowhere; a line may lose messages next to each other at any time
(`Lose`) or be cut (`Cut`), but repeats and reorders none. `Ingestion!Line` maps a pod to a line, whose content is
`OnTheWay(p)`: the message in the handlers, then the queue, then what the broker
has sent. A loss may be reported of a message that arrived (a produce whose answer
was lost).

## What the runs check

| Run | Instance | Properties |
|---|---|---|
| `worker_group` | 2 workers, 2 tasks, 2 partitions, 3 records: two copies of an event, and a rejected one with the same id in lower case; 1 attempt; a rebalance, a crash, a failed commit | `TypeOK`, `PermitsConserved`, `NoSilentLoss`, `KeptUndisturbed`, `ExtraRowsPaid` |
| `worker_stores` | 1 worker, 2 tasks, two copies of an event, 2 attempts; one fault of every kind but a crash, two of the database | `DuplicatesCharged`, `ExtraRowsPaid`, `StateBehindRows`, `ReplayUnblocked`, `ImplementsLedger` |
| `worker_kinds` | 8 events: rejected and in lower case, its id again in upper case and without a partition, invalid, a `device_id` that is no string, an id that is no string, a null id, no object, no JSON; 2 attempts; a database and a Kafka fault, endless restarts at the last | `RetryCountExact`, `AbandonedByBoth`, `ReplayUnblocked`, `ImplementsLedger` |
| `worker_process` | 2 processes, 2 permits each, a valid event and one that is no JSON; a SIGTERM, a lost consumer, a crash, an eviction, a rebalance | `ProcessTypeOK`, `PermitsConserved`, `ImplementsLedger` |
| `worker_live` | 2 processes, 1 permit each, a valid and a rejected event; a SIGTERM, a crash, a database fault | `LoopDrains`, `EveryRecordSettles` |
| `claims_batch` | 2 callers, 3 calls, lists `ab`, `ba`, `aba`; one fault of every kind | `TypeOK`, `GrantedOnce`, `EveryClaimGranted` |
| `retry_window` | 5 attempts, base 4 and cap 12 ticks, attempts of 0 to 5 and outages of 0 to 100 ticks | `TypeOK`, `ShortOutageHarmless`, `SoonAfterOutage` |
| `limiter` | 1 device, limit 2, window 3 of 8 ticks, 2 failing calls or evictions | `TypeOK`, `KeyAlwaysExpires`, `AtMostTwiceLimit`, `RefusedOnlyAtLimit` |
| `ingestion_pods` | 2 pods, 3 messages of 2 devices, queue of 1, limit 1, name bound; one fault of every kind | `TypeOK`, `OnePlace`, `DoubtsPaid`, `LimitedAfterLimit` |
| `ingestion_pod` | 1 pod, 3 messages of 2 devices, one that raises, queue of 2, limit 1, name bound; one fault of every kind | `DeviceOrder`, `ImplementsRelay`, `EveryMessageSettles`, `SubscriptionSettles` |

What they show:

- **Losses have known causes and no other.** `NoSilentLoss`: an event whose
  offset the group committed past is stored, dead-lettered or still in flight,
  unless a process died with it in flight, no dead letter sink took it, or
  `process()` raised. Out-of-order commits, rebalances, retries, lost claims and
  redeliveries lose nothing by themselves.
- **Duplicates are charged.** `DuplicatesCharged`: every row beyond the first is
  paid for by what defeated the claim on the key (Redis failed open, the key went, an
  INSERT's answer was lost, or a dead letter of another spelling of the id released
  it). `ExtraRowsPaid` adds them up: over all events there are no more extra rows than
  such faults and releases. Rows are counted per spelling: two spellings of one id are
  two events to `is_new`, and each may have its row.
- **One dead letter sink that works is enough.** `AbandonedByBoth`: an event is given
  up only if both the produce and the INSERT into `dlq_events` raised for a dead letter
  of this very event, whatever else failed in between; or if `process()` raised on it.
- **What disturbs the promises, and what does not.** `KeptUndisturbed`: as long as no
  Redis call fails, no key goes, no answer of the database is lost, no dead letter
  produce fails, no consumer is lost, no process crashes and no release takes another
  spelling's key, and the topic has nothing on which the worker raises, every event has
  one row at most, and what the group committed past is stored, dead-lettered or in
  flight. Rebalances, failed commits and statements that fail without effect are not on
  that list.
- **Each step keeps the promise** (`ImplementsLedger`), also the steps of a
  shutdown and of tasks that meet closed clients.
- **What failed at its INSERT can be replayed, if its id came in upper case.**
  `ReplayUnblocked`: once no task has such an event any more, no claim on its key stays
  behind, whichever of the tasks of its copies ended last and whatever another spelling
  of the id did meanwhile, unless Redis failed or the end of a process cut one short. For
  another spelling it is false (`ReleaseSpelling`, below).
- **`device_state` lags, never leads**: its count never exceeds the rows of the
  device, and it names a stored event of that device as the last.
- **Retry counts tell the cause**, although two counters in two source files make them,
  one in the loop and one in the function it calls.
- **Short outages are harmless**: one shorter than the delays at their shortest
  dead-letters nothing, and once the database is back a call keeps its permit for one
  attempt and one delay at most (`SoonAfterOutage`). No bound holds before that: an
  attempt has none. The "full jitter" that `failover_analysis.md:31` proposes would
  break `ShortOutageHarmless`, because all delays could be zero.
- **Batches split claims cleanly**: no id is let through twice without a charge
  however pipelines mix, and a pipeline that breaks off half-way gives up none of
  the ids it had claimed.
- **The limiter** never shuts a device out for longer than a window, never refuses
  early, and lets at most two limits through in any stretch as long as a window.
- **Ingestion** neither duplicates nor silently loses a message, across takeovers
  and restarts; one pod is a lossy line that keeps order (`ImplementsRelay`), so
  the topic has the order of each device, and it ends up subscribed.
- **Drop counters err by a known amount.** `DoubtsPaid`: a message that counts as
  dropped and is in the topic all the same is the one of a produce that failed after
  Kafka stored it, or the one in hand of a process that ended; nothing else a process
  takes with it, and no other drop, is in doubt.

### Where documents and code part

Two runs check one promise of a comment or document each and find the
counterexample; `findings` in `PROJECT.json` quotes the lines.

| Run | Promise | What the code does |
|---|---|---|
| `unbound_name` | valid events are produced to Kafka (`ingestion/main.py:235`) | `NameError` in the first handler |
| `clean_shutdown` | graceful shutdown, and offsets committed only after success (`worker/main.py:5`, `consumer.py:5`) | SIGTERM, without any fault, ends a task between its claim and its INSERT; the redelivery is skipped as a duplicate and committed |

Further counterexamples, each with a configuration to replay it
(`tlc -config X.cfg` on `MCWorker`, `RetryWindow`, `RateLimiter` or
`MCIngestion`); they are kept for the reader and are not among the project's runs:

| Configuration | Property | Promise | What the code does |
|---|---|---|---|
| `ReleaseSpelling` | `ReleasedIsReplayable` | release allows the replay of a dead letter (`idempotency.py:120`) | without any fault, the key claimed under a lower-case id stays: `release` deletes that of the upper-case id |
| `PoisonBlocks` | `EveryRecordSettles` | bad payloads do not block the queue (`README.md:69`, `failover_analysis.md:18`) | the deserializer ends the process at every delivery |
| `TwoPodsDuel` | `SubscriptionSettles` | pods scale horizontally (`system_design.md:80`) | they disconnect each other for ever |
| `ClaimThenCrash` | `CommittedIsHandled` | redelivery after a crash is handled (`consumer.py:5`, `retry_dlq_design.md:118`) | the claim survives the crash and the redelivery is skipped |
| `FailOpenDuplicate` | `UniqueRows` | the database removes duplicates (`idempotency.py:44`, `retry_dlq_design.md:113`) | the conflict target includes the insertion time |
| `RetryDocWindow` | `DocumentedWindow` | five delays, about 31 s (`retry_dlq_design.md:14-22`) | four delays, about 15 s: none follows the last attempt |
| `CommitOutOfOrder` | `CommittedIsHandled` | an offset is committed only after success (`consumer.py:5`) | a later task's commit covers records in flight |
| `DeadLetterLost` | `CommittedIsHandled` | commit only after the DLQ publish (`consumer.py:135`) | both sinks fail, the offset is committed |
| `RaisesPastHandlers` | `ProcessNeverRaises` | `process()` never raises (`processor.py:51`) | a non-string `event_id` raises in `send()` |
| `StateBackwards` | `StampNeverBack` | `device_state` is the latest state (`001_initial.sql:140`) | the last writer wins |
| `ReplayBlocked` | `DeadLetteredIsReplayable` | a dead letter can be replayed (`idempotency.py:120`) | the key of an invalid event is not released |
| `SlidingClaim` | `SlidingWindow` | a sliding window (`rate_limiter.py:2`) | a fixed window |
| `QueueFullDrops` | `FullQueuePushesBack` | a full queue pushes back (`retry_dlq_design.md:163`) | the message is dropped |
| `OfflineLoss` | `OfflineMissesNothing` | at least once from MQTT (`retry_dlq_design.md:88`) | a clean session misses what is published meanwhile |
| `TwoPodsReorder` | `DeviceOrder` | order per device (`data_model.md:112`) | after a takeover a later message overtakes |

### Bounds

The instances are the smallest in which the cases meet: two tasks, so that commits
cross and claims race; two workers and two partitions for takeovers; a duplicate
record in the log; a second spelling of an id, whose release meets the key of the
first; two attempts, so that a retry can succeed, fail, or fail after
an effect; a queue of one, so that it fills; a limit of one; a fault of every kind
the run is about, so that a fault can hit between any two steps. Tasks and workers
are interchangeable, and the invariant runs of `Worker` and `WorkerProcess` use that
symmetry, as `claims_batch` does for its callers; the liveness runs use none.
`MaxSignals` bounds the signals; one is enough to meet a crash and a rebalance in
the other process; `LoopFails` ends processes without one as often as the record is
delivered, and `ConsumerFails` as often as the budget lets the consumer be lost.
`MaxCalls` bounds the batches: two race, and the third runs into what they left
behind. `LongestTry` bounds an attempt, where the code has no bound; the theorems hold
for each value of it. `MaxOutage` is longer than the longest call of the instance, and
the cap of 12 ticks, three base delays, is reached at the third delay; with the default settings and five
attempts the cap is never reached. `MaxTime`, `MaxCount` and `MaxFaults` bound
`RateLimiter`, at several windows. The models check no deadlock: a finite log or
set of messages is worked off and the system rightly stops.

`Tasks` are handles. The code creates a coroutine per record, and at most
`MAX_CONCURRENT_TASKS` per worker; handles are enough when there is one for each
permit in use. The model with fewer handles than permits only delays spawns.

### Fairness

`WorkerProcess!FairProcessSpec` (run `worker_live`): the group assigns partitions
that no process in it owns; a container that ended is started again (`restart:
unless-stopped`, or the next roll of a deployment); and the event loop resumes a
coroutine that is ready, so the shutdown sequence, the consume loop and each task
are weakly fair. A task is one coroutine whether its client serves or refuses it,
so both steps are under one condition. `Ingestion!FairSpec`: each pod's two coroutines and the
broker's answer to a connect are weakly fair. No fault, no signal and no publish is
fair, and they are finite: the liveness properties say what happens once they
stop. `Worker!FairSpec`, in which an exit and a restart are one step, serves only
`PoisonBlocks`, which is violated under it without any fault, as `TwoPodsDuel` is under
`Ingestion!FairSpec`.

## What is proved

For all values of the constants that satisfy the modules' named assumptions:

| Assumption | What it says, and why the code justifies it |
|---|---|
| `ConstantsAssumption` | types of the log, kinds and budgets; putting an id in upper case twice is the same as once; an event with a null id is among those `dlq_events` refuses; null values that are no member of their type; finitely many task handles; `MAX_CONCURRENT_TASKS` and the attempts positive |
| `SignalsAssumption` | the number of signals is a natural number |
| `BatchAssumption` | lists of ids that are not empty (an empty one returns before it calls Redis); a finite budget |
| `LimiterAssumption` | a limit that is a natural number, a window of at least a tick, and the model's bounds |
| `RetryAssumption` | delays, cap and the two bounds are natural numbers; attempts, multiplier and jitter's divisor are positive. The cap may be less than the base |
| `IngestionAssumption` | types; a queue of at least one; a reconnect delay between its bounds, the lower one positive |

Every property of the passing runs is proved, except for the four liveness
properties.

`WorkerProofs`:

- `TypeCorrect`. `TypeOK` is inductive; it includes that a task runs exactly when
  it has a record, and that a task about to INSERT has attempts left.
- `NothingSilentlyLost`. `NoSilentLoss` is not inductive: a duplicate is skipped
  because of its key, and a commit covers records in flight. The strengthening
  `LossInv` says that a key stands only for an event that is settled or past its
  check in some task (`KeysBacked`), that a task past its decision has such an
  event (`DecidedBacked`), and that every record anyone has moved past, by commit,
  fetch position, hand or task, is accounted for (`PassedAccounted`). The last
  part is what makes out-of-order commits harmless: they only pass records that
  were passed already.
- `PermitsAlwaysConserved`. Every step adds and removes as many running tasks as
  it takes and returns permits, by cardinality.
- `ClaimsAlwaysCharged`, `DuplicatesAlwaysCharged`. The rows of an event and the
  tasks on their way to an INSERT of it are together at most the claim on its key
  (one or none) plus the faults charged to it; each step keeps the balance.
- `RetryCountAlwaysExact`. `_insert` counts what an envelope says, and `range()` counts
  what decides when the loop ends, so the strengthening `RetryCountInv` says that the two
  agree in every task; that one on its dead letter path already has the count its
  envelopes will carry; and that only an event that parsed is ever at its INSERT.
- `ReplayAlwaysUnblocked`, of events that arrived under their upper-case id.
  `ClaimsHeld`: as long as no Redis call failed, a claim on such an event that parses and
  has no row is in the hands of a task that will store the row or release the key, or of a
  process that ended. Whichever of the tasks with copies of the event ends last leaves
  none, and a task with another spelling only ever takes one away.
- `StateAlwaysBehindRows`. Rows are counted as a finite set (`RowsOf`), not as a sum:
  the count in `device_state` plus the tasks that still owe it an upsert is at most
  the number of rows (`CountInv`), and the last event it names is stored (`StateInv`).

- `ExtraRowsAlwaysPaid`. `ChargesPaid`: the charges of all events are a finite set of
  pairs, and each is a fault or a stray release of its own (`ChargeStep`, `ChargesStep`);
  the extra rows are among the charges (`ExtraRowsAreCharged`).
- `AbandonedOnlyByBoth`. `PublishedInv`: a task that is past its produce has its
  envelope in the topic, or the produce of its own event has raised; so one whose event
  is in neither sink after its INSERT into `dlq_events` has had both calls raise.
- `AlwaysKeptUndisturbed`. From `NoSilentLoss` and `DuplicatesCharged`: where nothing
  that charges has happened there is no charge, and where no produce raised, no consumer
  was lost, no process crashed and every record can be read, no event is orphaned or
  abandoned (`ExcusesInv`, `NothingToExcuse`).

`WorkerLedgerProofs`: `WorkerImplementsLedger`, that is `Spec => Ledger!Spec`. The
invariants above are carried along. For each action of `Worker` a lemma names the
step of the ledger it is: `Poll` takes, an INSERT stores, the two dead letter steps
bury, the end of a duplicate closes, an exit gives up, a commit commits; the rest
change nothing of it. The commit needs `PassedAccounted`, a skipped duplicate
needs `KeysBacked`, and the second row needs `ClaimsCharged`.

`WorkerProcessProofs`: the same promises for processes that shut down, end and start
again. `ProcessCases` sorts the steps of `ProcessNext` into six kinds: a step of
`Worker`, or none; the end of a process; a loop that is cancelled; a consumer that is
lost; a process that leaves the group; a task that meets a closed client. Each invariant
of `Worker` is carried over by a lemma that treats the five new kinds (`ProcessKeepsTypes`,
`ProcessKeepsLoss`, `ProcessKeepsClaims`, ...) and takes the first from
`WorkerProofs`, so none of those proofs is repeated. What a refused task does is
said once (`RefusedEffect`). The results are `ProcessTypeCorrect`, which adds that
no process outside the group owns a partition or holds a record;
`ProcessPermitsConserved`; `ProcessImplementsLedger`, where a loop that is cancelled with a
record in hand gives it up, and so does a task whose last dead letter is refused; and
`ProcessLosesNothingSilently`, `ProcessDuplicatesCharged`, `ProcessRetryCountExact`,
`ProcessReplayUnblocked`, `ProcessStateBehindRows`, `ProcessExtraRowsPaid`,
`ProcessAbandonedByBoth`. The last counts the refusals of a stopped producer and of a
closed pool like those of a broker and of a database: without any fault an event may be
given up, but never because of one sink alone.
`ProcessKeptUndisturbed` says `KeptUndisturbed` of processes that have received no
SIGTERM, have not lost their consumer and have records that can be read: until one of
these happens no process leaves its phases "down" and "running" (`UntilStopped`), so every
step is one of `Worker`. After a SIGTERM it fails, as `clean_shutdown` shows.

`DeliveryLedgerProofs`: `LedgerHonest`, that the ledger keeps its own promise
(`Honest`): what is committed past is open or resolved, rows are charged, and what
cannot be stored has no row. `ImplementationHonest` (in `WorkerLedgerProofs`)
carries it over to whatever implements the ledger, and `WorkerHonest` and
`ProcessHonest` are its two uses. That what cannot be stored has no row is in no
property of a run.

`IdempotencyBatchProofs`: `BatchTypeCorrect`; `NoClaimAstray`, the balance of
claims and verdicts, per id, over the finite set of claims of the calls under way,
which a reply extends by one pair and the end of a call reduces by exactly the
caller's; and `BatchGrantsOnce`, from that balance and the bound that a key was set
at most once more often than it was taken away.

`IngestionProofs`, for any number of pods, devices and messages:

- `IngestionTypeCorrect`, with the bounds of the queue and of the reconnect delay.
- `OnePlaceAlways`. `OnePlace` counts places; the invariant `PlaceInv` that implies it
  says what they are: what a pod has was published, no pod has a message twice, no two
  pods have the same one, what is stored or has ended is in no pod and ended for one
  reason, and no published message is nowhere.
- `DoubtsAlwaysPaid`. `DoubtInv`: the messages in doubt are at most the failures of Kafka
  and of processes so far. A drop outside the producer brings none, because what is
  in a pod is not in the topic (`NoNewDoubt`, `OtherDrops`, from `PlaceInv`), nor does a
  produce that succeeds (`ProduceDoubt`); one that fails and a process that ends bring
  at most the message in hand, and use up a fault of the budget each (`FaultDoubt`).
- `LimitedAfterLimitAlways`. A counter is at most the number of the device's events
  that got past the limiter, or that number has reached the limit (`LimitInv`); a
  window that ends sets a counter back, and never what got past.
- `IngestionImplementsRelay`, `Spec => Line!Spec`. A pod's line is a concatenation of
  what is in its handlers, its queue and its inbox. Each action is shown to add at
  its end, take from its front, take a stretch out of it, or leave it, by lemmas about
  sequences put one after the other. That a takeover or an ended process hits only one
  line needs `OneSession`.
- `DeviceOrderOfOnePod`, under the hypothesis that there is one pod; with two
  `TwoPodsReorder` shows it fails. The refinement does most of the work: `OrderInv`
  (what is in the topic, then what is on its way, are in the order of publication)
  is kept by every step of `Relay` with one line.

`RateLimiterProofs`: `LimiterTypeCorrect` and `NoImmortalKey`, the latter because
an expiry is only ever written as the clock plus a window, or as the clock.
`LimitHolds` and `NobodyRefusedEarly` need `WindowInv`: the admissions a key counted
fell into its window; and in a stretch that is not over yet, a device got no more
through than its key has counted since, one more window if the stretch is older than
the key, and what evictions and failed calls let through. A stretch that is over
receives nothing more (`FinishedStretch`). Each action of the script is shown to add
at most one admission to `admits` and what pays for it (`ScriptEffect`).

`RetryWindowProofs`: `RetryTypeCorrect`; `ShortOutageSurvived`, because no attempt
begins before the least delays that precede it are over (`EarliestInv`) and a failed
one began before the outage ended (`ClockInv`); and `OverSoonAfterOutage`, because what a
call waits for when the outage ends is an attempt or a delay that began before, and at
most one more of either follows (`LatestInv`). The delays are recursive
functions, `Raw` and `LeastWait`. The library's induction over the naturals is out of
the provers' reach, but not the principle: a set of numbers that is not empty has a
least member (`LeastNumber`, from the library's `WFMin`), which gives induction over a
set, and from it that the functions exist and are natural numbers everywhere.

Only model-checked:

- the liveness properties `LoopDrains`, `EveryRecordSettles`, `EveryMessageSettles` and
  `SubscriptionSettles`: they rest on fairness, and the proof system does not reason
  about ENABLED;
- the counterexamples of the two violated runs, and of the configurations that are
  kept beside them.

## What is not modelled

- Lag sampling (`_maybe_sample_lag`): the gauge it sets is read by a dashboard only.
- `produce_batch`, which nothing calls, and whose promise depends on how aiokafka's
  `flush()` reports errors.
- Metrics, logs, health endpoints, settings: nothing the services do depends on what
  these write; settings are CONSTANTS.
- The text of keys, payloads and envelopes; validation is a classification, and an id
  has as many spellings as the log has events that `Upper` maps to one. Tables and
  envelopes name an event by its spelling, where the code writes the upper-case id: rows
  are counted by the record they come from.
- The connections of the pool one by one: that tasks wait for each other at it is in the
  length of an attempt in `RetryWindow`, and without time in `Worker`.
- Kafka, MQTT, Redis and PostgreSQL inside: they are what the code's use of them
  relies on, with the failures a client can see.
- The simulator and the deployment files, which are read for replicas, restart
  policy and eviction.

## Plan

1. Proofs: what `Relay` promises by itself (nothing repeated, order per line), as
   theorems of its own that `Ingestion` inherits.
2. A composition in which the topic `Ingestion` writes is the log `Worker` reads.
