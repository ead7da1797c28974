------------------------------- MODULE Worker -------------------------------
(***************************************************************************)
(* The worker service: the Kafka consumer loop (apps/worker/consumer.py),  *)
(* the four-handler pipeline it runs for every record                      *)
(* (apps/worker/handlers.py), the retry loop and the dead letter publisher *)
(* (apps/worker/retry.py), against the three shared stores it talks to:    *)
(* the consumer group's committed offsets, the Redis idempotency keys      *)
(* (apps/worker/idempotency.py) and the PostgreSQL tables                  *)
(* (apps/worker/db.py, infra/db/migrations/001_initial.sql).               *)
(*                                                                         *)
(* A record is its position in a partition; an event id, spelled as it     *)
(* arrived, stands for the whole event.  Every await of the code is a      *)
(* boundary between two steps.  Faults draw on a budget, so a behaviour    *)
(* has finitely many of them.                                              *)
(***************************************************************************)
EXTENDS Integers, Sequences, FiniteSets

CONSTANTS
  Workers,             \* worker processes of the consumer group
  Tasks,               \* asyncio task handles, shared by all workers
  Partitions,          \* partitions of iot.events.raw
  Events,              \* event ids, each spelling of an id an event of its own
  Devices,             \* device ids
  Log,                 \* the records of each partition, in offset order
  Kind,                \* what the worker makes of the event (see Kinds)
  Upper,               \* the id as the event model has it: in upper case
  Unrecordable,        \* events whose dead letter dlq_events refuses
  DeviceOf,            \* the device an event comes from
  StampOf,             \* the timestamp the device gave the event
  MaxConcurrentTasks,  \* settings.MAX_CONCURRENT_TASKS
  RetryMaxAttempts,    \* settings.RETRY_MAX_ATTEMPTS
  Budget,              \* how many faults of each kind may happen
  NoWorker, NoMsg, NoEvent

(***************************************************************************)
(* "valid" parses as an IoTEvent.  "unstorable" parses, but its INSERT     *)
(* raises one of NON_RETRYABLE_ERRORS; "unpartitioned" parses, but its     *)
(* INSERT is refused with an error that is retried: no partition of the    *)
(* events table covers its time, or its payload has a NUL character.  The  *)
(* others never parse: "invalid" has an event_id, "noid" has none,         *)
(* "nullid" has a null one, "badid" has one that is not a string (which    *)
(* DLQPublisher.send cannot encode), "notdict" is JSON but not an object,  *)
(* and "poison" has a key or a value that cannot be decoded.               *)
(***************************************************************************)
Parsing == {"valid", "unstorable", "unpartitioned"}
Kinds == Parsing \cup {"invalid", "noid", "nullid", "badid", "notdict", "poison"}

(***************************************************************************)
(* "redis": a Redis call raises.  "evict": a key expires or is evicted.    *)
(* "db": a statement fails without effect.  "dbAck": it takes effect but   *)
(* the client sees a timeout or a lost connection.  "kafka": the dead      *)
(* letter produce raises.  "commit": an offset commit raises.  "fetch":    *)
(* the consumer raises a KafkaError out of the loop.  "rebalance": the     *)
(* group reassigns partitions that all had an owner.  "crash": a worker    *)
(* process dies and is restarted.                                          *)
(***************************************************************************)
Faults == {"redis", "evict", "db", "dbAck", "kafka", "commit", "fetch", "rebalance", "crash"}

Labels == {"idle", "check", "insert", "device", "state",
           "release", "publish", "record", "commit"}

ASSUME ConstantsAssumption ==
  /\ Log \in [Partitions -> Seq(Events)]
  /\ Kind \in [Events -> Kinds]
  /\ Upper \in [Events -> Events] /\ \A e \in Events : Upper[Upper[e]] = Upper[e]
  /\ Unrecordable \subseteq Events
  /\ \A e \in Events : Kind[e] = "nullid" => e \in Unrecordable
  /\ DeviceOf \in [Events -> Devices]
  /\ StampOf \in [Events -> Nat]
  /\ MaxConcurrentTasks \in Nat \ {0}
  /\ RetryMaxAttempts \in Nat \ {0}
  /\ Budget \in [Faults -> Nat]
  /\ IsFiniteSet(Tasks)
  /\ NoWorker \notin Workers
  /\ NoEvent \notin Events
  /\ NoMsg \notin [part : Partitions, off : Nat \ {0}]
  /\ NoMsg \notin [by : Workers, part : Partitions, off : Nat \ {0}]

VARIABLES
  owner,        \* the worker a partition is assigned to
  committed,    \* the group's committed offset: the next one to deliver
  position,     \* the owner's fetch position
  held,         \* the record the loop of a worker holds until it has a permit
  permits,      \* the value of a worker's _semaphore
  pc,           \* the await a task is at
  job,          \* the record a task processes, and the worker running it
  attempt,      \* how many attempts range() has made in the task's with_retry
  retries,      \* retry_count of the task's PersistenceHandler call
  keys,         \* event ids whose iotflow:idempotency key exists
  rows,         \* rows of the events table, by the event they come from
  devices,      \* rows of the devices table
  deviceState,  \* the device_state row of a device
  dlqTopic,     \* envelopes in iot.events.dlq
  dlqTable,     \* rows of dlq_events
  budget,       \* faults that may still happen
  orphans,      \* history: events in flight in a process when it ended
  abandoned,    \* history: events that no dead letter sink took
  refusals,     \* history: sinks whose call raised for a dead letter of an event
  misses,       \* history: how often an event's deduplication was defeated
  strays        \* history: how often a release took the key of another spelling

groupVars   == <<owner, committed, position>>
loopVars    == <<held, permits>>
taskVars    == <<pc, job, attempt, retries>>
sinkVars    == <<rows, devices, deviceState>>
dlqVars     == <<dlqTopic, dlqTable>>
historyVars == <<orphans, abandoned, refusals, misses, strays>>
vars == <<groupVars, loopVars, taskVars, sinkVars, dlqVars, historyVars,
          keys, budget>>

Msgs == [part : Partitions, off : Nat \ {0}]
Jobs == [by : Workers, part : Partitions, off : Nat \ {0}]
Envelopes == [event : Events, retries : Nat]
DeviceRows == [last : Events \cup {NoEvent}, count : Nat]

EventAt(m) == Log[m.part][m.off]
EventOf(t) == EventAt(job[t])

Running(t) == pc[t] # "idle"
RunningOn(w) == {t \in Tasks : Running(t) /\ job[t].by = w}

Init ==
  /\ owner = [p \in Partitions |-> NoWorker]
  /\ committed = [p \in Partitions |-> 1]
  /\ position = [p \in Partitions |-> 1]
  /\ held = [w \in Workers |-> NoMsg]
  /\ permits = [w \in Workers |-> MaxConcurrentTasks]
  /\ pc = [t \in Tasks |-> "idle"]
  /\ job = [t \in Tasks |-> NoMsg]
  /\ attempt = [t \in Tasks |-> 0]
  /\ retries = [t \in Tasks |-> 0]
  /\ keys = {}
  /\ rows = [e \in Events |-> 0]
  /\ devices = {}
  /\ deviceState = [d \in Devices |-> [last |-> NoEvent, count |-> 0]]
  /\ dlqTopic = {}
  /\ dlqTable = {}
  /\ budget = Budget
  /\ orphans = {}
  /\ abandoned = {}
  /\ refusals = {}
  /\ misses = [e \in Events |-> 0]
  /\ strays = 0

Spend(fault) ==
  /\ budget[fault] > 0
  /\ budget' = [budget EXCEPT ![fault] = @ - 1]

Goto(t, label) == pc' = [pc EXCEPT ![t] = label]

-----------------------------------------------------------------------------
(***************************************************************************)
(* The consumer group, and the processes in it.                            *)
(***************************************************************************)

(***************************************************************************)
(* The group coordinator hands out all the partitions at once.  A member   *)
(* resumes each of its partitions at the committed offset, also one it had *)
(* before; _RebalanceListener only logs, so tasks and the held record stay.*)
(***************************************************************************)
Assign ==
  /\ owner' \in [Partitions -> Workers]
  /\ position' = committed
  /\ UNCHANGED <<committed, loopVars, taskVars, sinkVars, dlqVars, historyVars, keys>>

JoinGroup ==
  /\ \E p \in Partitions : owner[p] = NoWorker
  /\ Assign
  /\ UNCHANGED budget

Rebalance ==
  /\ \A p \in Partitions : owner[p] # NoWorker
  /\ Spend("rebalance")
  /\ Assign

\* The labels at which a task has not yet decided what becomes of its event.
Undecided == {"check", "insert", "release", "publish", "record"}

AtWork(e, labels) == \E t \in Tasks : pc[t] \in labels /\ EventOf(t) = e
HeldEvents == {EventAt(held[w]) : w \in {v \in Workers : held[v] # NoMsg}}

InFlightAt(w) ==
  {EventOf(t) : t \in {u \in RunningOn(w) : pc[u] \in Undecided}}
    \cup {EventAt(m) : m \in {held[w]} \ {NoMsg}}

\* The process ends, its tasks with it, and is restarted with a new semaphore.
Exit(w) ==
  /\ owner' = [p \in Partitions |-> IF owner[p] = w THEN NoWorker ELSE owner[p]]
  /\ held' = [held EXCEPT ![w] = NoMsg]
  /\ permits' = [permits EXCEPT ![w] = MaxConcurrentTasks]
  /\ pc' = [t \in Tasks |-> IF t \in RunningOn(w) THEN "idle" ELSE pc[t]]
  /\ job' = [t \in Tasks |-> IF t \in RunningOn(w) THEN NoMsg ELSE job[t]]
  /\ attempt' = [t \in Tasks |-> IF t \in RunningOn(w) THEN 0 ELSE attempt[t]]
  /\ retries' = [t \in Tasks |-> IF t \in RunningOn(w) THEN 0 ELSE retries[t]]
  /\ orphans' = orphans \cup InFlightAt(w)
  /\ UNCHANGED <<committed, position, sinkVars, dlqVars, keys, abandoned, refusals, misses,
                 strays>>

Crash(w) ==
  /\ Spend("crash")
  /\ Exit(w)

\* start() or the iterator raises a KafkaError: the loop is logged as failed, and
\* main() comes to its end.
FetchFails(w) ==
  /\ held[w] = NoMsg
  /\ Spend("fetch")
  /\ Exit(w)

-----------------------------------------------------------------------------
(***************************************************************************)
(* The consume loop.                                                       *)
(***************************************************************************)

NextMsg(p) == [part |-> p, off |-> position[p]]

CanPoll(w, p) ==
  /\ held[w] = NoMsg
  /\ owner[p] = w
  /\ position[p] \in 1..Len(Log[p])

\* "async for msg in consumer": the fetch position moves past the record.
Poll(w, p) ==
  /\ CanPoll(w, p)
  /\ Kind[EventAt(NextMsg(p))] # "poison"
  /\ held' = [held EXCEPT ![w] = NextMsg(p)]
  /\ position' = [position EXCEPT ![p] = @ + 1]
  /\ UNCHANGED <<owner, committed, permits, taskVars, sinkVars, dlqVars, historyVars,
                 keys, budget>>

\* A deserializer raises out of the loop, and main() comes to its end.
PollPoison(w, p) ==
  /\ CanPoll(w, p)
  /\ Kind[EventAt(NextMsg(p))] = "poison"
  /\ Exit(w)
  /\ UNCHANGED budget

PermitFree(w) == permits[w] > 0

\* _semaphore.acquire() and create_task, with no await between them.
SpawnTask(w, t) ==
  /\ held[w] # NoMsg
  /\ PermitFree(w)
  /\ ~Running(t)
  /\ held' = [held EXCEPT ![w] = NoMsg]
  /\ permits' = [permits EXCEPT ![w] = @ - 1]
  /\ pc' = [pc EXCEPT ![t] = "check"]
  /\ job' = [job EXCEPT ![t] = [by |-> w, part |-> held[w].part, off |-> held[w].off]]
  /\ UNCHANGED <<groupVars, attempt, retries, sinkVars, dlqVars, historyVars, keys, budget>>

\* A variant: release() is not in the finally clause, and process() raised.
FinishKeepingPermit(t) ==
  /\ pc' = [pc EXCEPT ![t] = "idle"]
  /\ job' = [job EXCEPT ![t] = NoMsg]
  /\ attempt' = [attempt EXCEPT ![t] = 0]
  /\ retries' = [retries EXCEPT ![t] = 0]
  /\ UNCHANGED permits

\* A variant: the count of attempts outlives the task that made them.
FinishKeepingAttempt(t) ==
  /\ pc' = [pc EXCEPT ![t] = "idle"]
  /\ job' = [job EXCEPT ![t] = NoMsg]
  /\ retries' = [retries EXCEPT ![t] = 0]
  /\ permits' = [permits EXCEPT ![job[t].by] = @ + 1]
  /\ UNCHANGED attempt

\* The end of _task_wrapper: its finally clause gives the permit back.
Finish(t) ==
  /\ pc' = [pc EXCEPT ![t] = "idle"]
  /\ job' = [job EXCEPT ![t] = NoMsg]
  /\ attempt' = [attempt EXCEPT ![t] = 0]
  /\ retries' = [retries EXCEPT ![t] = 0]
  /\ permits' = [permits EXCEPT ![job[t].by] = @ + 1]

-----------------------------------------------------------------------------
(***************************************************************************)
(* IdempotencyHandler and ValidationHandler.                               *)
(***************************************************************************)

\* ValidationHandler goes on to the INSERT, or straight to DLQPublisher.send.
AfterValidation(e) == IF Kind[e] \in Parsing THEN "insert" ELSE "publish"

\* Variants: SET without NX, and the test of its result inverted.
IsNewWithoutNX(e) == TRUE
IsNewInverted(e) == e \in keys

\* SET NX, which Redis executes atomically.
IsNew(e) == e \notin keys

\* A variant: no event_id, and the handler returns without next_call().
SkipCheckDropping(t) ==
  /\ pc[t] = "check"
  /\ Kind[EventOf(t)] \in {"noid", "nullid"}
  /\ Goto(t, "commit")
  /\ UNCHANGED <<groupVars, loopVars, job, attempt, retries, sinkVars, dlqVars, historyVars,
                 keys, budget>>

\* No event_id: the check is skipped.
SkipCheck(t) ==
  /\ pc[t] = "check"
  /\ Kind[EventOf(t)] \in {"noid", "nullid"}
  /\ Goto(t, AfterValidation(EventOf(t)))
  /\ UNCHANGED <<groupVars, loopVars, job, attempt, retries, sinkVars, dlqVars, historyVars,
                 keys, budget>>

HasId(e) == Kind[e] \notin {"noid", "nullid", "notdict"}

Claim(t) ==
  /\ pc[t] = "check"
  /\ HasId(EventOf(t))
  /\ IsNew(EventOf(t))
  /\ keys' = keys \cup {EventOf(t)}
  /\ Goto(t, AfterValidation(EventOf(t)))
  /\ UNCHANGED <<groupVars, loopVars, job, attempt, retries, sinkVars, dlqVars, historyVars,
                 budget>>

\* A duplicate: process() returns, and the record is committed.
SkipDuplicate(t) ==
  /\ pc[t] = "check"
  /\ HasId(EventOf(t))
  /\ ~IsNew(EventOf(t))
  /\ Goto(t, "commit")
  /\ UNCHANGED <<groupVars, loopVars, job, attempt, retries, sinkVars, dlqVars, historyVars,
                 keys, budget>>

\* Redis fails, whether or not it set the key: is_new returns True.
CheckFailsOpen(t) ==
  /\ pc[t] = "check"
  /\ HasId(EventOf(t))
  /\ Spend("redis")
  /\ keys' \in {keys, keys \cup {EventOf(t)}}
  /\ misses' = [misses EXCEPT ![EventOf(t)] = @ + 1]
  /\ Goto(t, AfterValidation(EventOf(t)))
  /\ UNCHANGED <<groupVars, loopVars, job, attempt, retries, sinkVars, dlqVars, orphans,
                 abandoned, refusals, strays>>

\* IDEMPOTENCY_TTL_SECONDS pass, or Redis evicts the key (allkeys-lru).
EvictKey(e) ==
  /\ e \in keys
  /\ Spend("evict")
  /\ keys' = keys \ {e}
  /\ misses' = [misses EXCEPT ![e] = @ + 1]
  /\ UNCHANGED <<groupVars, loopVars, taskVars, sinkVars, dlqVars, orphans, abandoned,
                 refusals, strays>>

\* process() raises: raw_event has no get, or send() cannot encode the event_id.
\* The task ends without committing.
ProcessRaises(t) ==
  /\ \/ pc[t] = "check" /\ Kind[EventOf(t)] = "notdict"
     \/ pc[t] = "publish" /\ Kind[EventOf(t)] = "badid"
  /\ abandoned' = abandoned \cup {EventOf(t)}
  /\ Finish(t)
  /\ UNCHANGED <<groupVars, held, sinkVars, dlqVars, keys, budget, orphans, refusals, misses,
                 strays>>

-----------------------------------------------------------------------------
(***************************************************************************)
(* PersistenceHandler: with_retry(_insert).                                *)
(***************************************************************************)

StoreRow(e) == rows' = [rows EXCEPT ![e] = @ + 1]

\* range() counts an attempt of with_retry.
CountAttempt(t) == attempt' = [attempt EXCEPT ![t] = @ + 1]

\* A variant: retry_count goes up only when the attempt will be followed by another.
CountRetryIfRetried(t) ==
  retries' = [retries EXCEPT ![t] = IF attempt[t] + 1 < RetryMaxAttempts THEN @ + 1 ELSE @]

\* _insert counts itself in retry_count, before its statement.
CountRetry(t) == retries' = [retries EXCEPT ![t] = @ + 1]

\* Variants: exhausted retries do not raise: process() returns, or next_call() runs.
AfterFailedAttemptSwallowed(n) == IF n < RetryMaxAttempts THEN "insert" ELSE "commit"
AfterFailedAttemptIgnored(n) == IF n < RetryMaxAttempts THEN "insert" ELSE "device"

\* with_retry sleeps and tries again, or raises the last exception.
AfterFailedAttempt(n) == IF n < RetryMaxAttempts THEN "insert" ELSE "release"

\* ingested_at is the time of the INSERT: ON CONFLICT finds no conflict.
InsertSucceeds(t) ==
  /\ pc[t] = "insert"
  /\ Kind[EventOf(t)] = "valid"
  /\ CountAttempt(t)
  /\ CountRetry(t)
  /\ StoreRow(EventOf(t))
  /\ Goto(t, "device")
  /\ UNCHANGED <<groupVars, loopVars, job, devices, deviceState, dlqVars, historyVars,
                 keys, budget>>

InsertFails(t) ==
  /\ pc[t] = "insert"
  /\ CountAttempt(t)
  /\ CountRetry(t)
  /\ \/ /\ Spend("db")
        /\ UNCHANGED <<rows, misses>>
     \/ /\ Kind[EventOf(t)] = "unpartitioned"
        /\ UNCHANGED <<rows, misses, budget>>
     \/ /\ Kind[EventOf(t)] = "valid"
        /\ Spend("dbAck")
        /\ StoreRow(EventOf(t))
        /\ misses' = [misses EXCEPT ![EventOf(t)] = @ + 1]
  /\ Goto(t, AfterFailedAttempt(attempt[t] + 1))
  /\ UNCHANGED <<groupVars, loopVars, job, devices, deviceState, dlqVars, orphans,
                 abandoned, refusals, strays, keys>>

\* One of NON_RETRYABLE_ERRORS is raised again at once.
InsertRejected(t) ==
  /\ pc[t] = "insert"
  /\ Kind[EventOf(t)] = "unstorable"
  /\ CountAttempt(t)
  /\ CountRetry(t)
  /\ Goto(t, "release")
  /\ UNCHANGED <<groupVars, loopVars, job, sinkVars, dlqVars, historyVars, keys, budget>>

-----------------------------------------------------------------------------
(***************************************************************************)
(* DeviceStateHandler: upsert_device_state is two statements, and an error *)
(* in either ends it; the handler swallows the error.                      *)
(***************************************************************************)

EnsureDevice(t) ==
  /\ pc[t] = "device"
  /\ \/ /\ devices' = devices \cup {DeviceOf[EventOf(t)]}
        /\ Goto(t, "state")
        /\ UNCHANGED budget
     \/ /\ Spend("db")
        /\ Goto(t, "commit")
        /\ UNCHANGED devices
     \/ /\ Spend("dbAck")
        /\ devices' = devices \cup {DeviceOf[EventOf(t)]}
        /\ Goto(t, "commit")
  /\ UNCHANGED <<groupVars, loopVars, job, attempt, retries, rows, deviceState, dlqVars,
                 historyVars, keys>>

\* ON CONFLICT DO UPDATE: whatever last_seen_at the row has.
StoreState(e) ==
  deviceState' = [deviceState EXCEPT ![DeviceOf[e]] = [last |-> e, count |-> @.count + 1]]

UpsertState(t) ==
  /\ pc[t] = "state"
  /\ \/ StoreState(EventOf(t)) /\ UNCHANGED budget
     \/ StoreState(EventOf(t)) /\ Spend("dbAck")
     \/ Spend("db") /\ UNCHANGED deviceState
  /\ Goto(t, "commit")
  /\ UNCHANGED <<groupVars, loopVars, job, attempt, retries, rows, devices, dlqVars,
                 historyVars, keys>>

-----------------------------------------------------------------------------
(***************************************************************************)
(* The dead letter path: IdempotencyGuard.release (after the INSERT gave   *)
(* up, not after a failed validation), then DLQPublisher.send.             *)
(***************************************************************************)

\* A variant: the claim is kept, as it is after a failed validation.
ReleaseKeyForgotten(t) ==
  /\ pc[t] = "release"
  /\ Goto(t, "publish")
  /\ UNCHANGED <<groupVars, loopVars, job, attempt, retries, sinkVars, dlqVars, historyVars,
                 keys, budget>>

\* DEL of the key of the id that the event model has, which the check did not
\* claim when the id arrived in another spelling.
DropKey(e) ==
  /\ keys' = keys \ {Upper[e]}
  /\ IF Upper[e] # e /\ Upper[e] \in keys
     THEN misses' = [misses EXCEPT ![Upper[e]] = @ + 1] /\ strays' = strays + 1
     ELSE UNCHANGED <<misses, strays>>

\* release() swallows what Redis raises, whether or not the key is gone.
ReleaseKey(t) ==
  /\ pc[t] = "release"
  /\ \/ DropKey(EventOf(t)) /\ UNCHANGED budget
     \/ DropKey(EventOf(t)) /\ Spend("redis")
     \/ UNCHANGED <<keys, misses, strays>> /\ Spend("redis")
  /\ Goto(t, "publish")
  /\ UNCHANGED <<groupVars, loopVars, job, attempt, retries, sinkVars, dlqVars, orphans,
                 abandoned, refusals>>

Envelope(t) == [event |-> EventOf(t), retries |-> retries[t]]

In(sink, e) == \E r \in sink : r.event = e

\* The call of a sink raises for the dead letter of the task.
Refuse(sink, t) == refusals' = refusals \cup {<<sink, EventOf(t)>>}

\* A variant: send() instead of send_and_wait(), whose failure nobody sees.
PublishDeadLetterUnawaited(t) ==
  /\ pc[t] = "publish"
  /\ Kind[EventOf(t)] # "badid"
  /\ dlqTopic' \in {dlqTopic, dlqTopic \cup {Envelope(t)}}
  /\ Goto(t, "record")
  /\ UNCHANGED <<groupVars, loopVars, job, attempt, retries, sinkVars, dlqTable, historyVars,
                 keys, budget>>

\* A KafkaError is logged, and send() goes on to the table.
PublishDeadLetter(t) ==
  /\ pc[t] = "publish"
  /\ Kind[EventOf(t)] # "badid"
  /\ \/ dlqTopic' = dlqTopic \cup {Envelope(t)} /\ UNCHANGED <<budget, refusals>>
     \/ /\ dlqTopic' \in {dlqTopic, dlqTopic \cup {Envelope(t)}}
        /\ Spend("kafka")
        /\ Refuse("topic", t)
  /\ Goto(t, "record")
  /\ UNCHANGED <<groupVars, loopVars, job, attempt, retries, sinkVars, dlqTable, orphans,
                 abandoned, misses, strays, keys>>

\* No dead letter sink has the event of the task, now that send() is done.
Abandon(t) ==
  abandoned' = IF In(dlqTopic, EventOf(t)) \/ In(dlqTable', EventOf(t)) THEN abandoned
               ELSE abandoned \cup {EventOf(t)}

\* The row is written, or dlq_events does not take it: an event_id that is null,
\* a device_id that is not a string, a payload with a NUL character.  Any
\* exception is logged, and process() returns as if all were well.
RecordDeadLetter(t) ==
  /\ pc[t] = "record"
  /\ \/ /\ EventOf(t) \notin Unrecordable
        /\ dlqTable' = dlqTable \cup {Envelope(t)}
        /\ UNCHANGED <<budget, refusals>>
     \/ /\ EventOf(t) \notin Unrecordable
        /\ dlqTable' = dlqTable \cup {Envelope(t)}
        /\ Spend("dbAck")
        /\ Refuse("table", t)
     \/ /\ \/ EventOf(t) \in Unrecordable /\ UNCHANGED budget
           \/ Spend("db")
        /\ Refuse("table", t)
        /\ UNCHANGED dlqTable
  /\ Abandon(t)
  /\ Goto(t, "commit")
  /\ UNCHANGED <<groupVars, loopVars, job, attempt, retries, sinkVars, dlqTopic, keys, orphans,
                 misses, strays>>

-----------------------------------------------------------------------------
(***************************************************************************)
(* consumer.commit({tp: offset + 1}): the group keeps whatever the owner   *)
(* of the partition commits last.  Anyone else's commit raises.            *)
(***************************************************************************)

SetCommitted(t) == committed' = [committed EXCEPT ![job[t].part] = job[t].off + 1]

CommitOffset(t) ==
  /\ pc[t] = "commit"
  /\ owner[job[t].part] = job[t].by
  /\ SetCommitted(t)
  /\ Finish(t)
  /\ UNCHANGED <<owner, position, held, sinkVars, dlqVars, historyVars, keys, budget>>

CommitFails(t) ==
  /\ pc[t] = "commit"
  /\ \/ /\ owner[job[t].part] # job[t].by
        /\ UNCHANGED <<committed, budget>>
     \/ /\ owner[job[t].part] = job[t].by
        /\ Spend("commit")
        /\ SetCommitted(t) \/ UNCHANGED committed
  /\ Finish(t)
  /\ UNCHANGED <<owner, position, held, sinkVars, dlqVars, historyVars, keys>>

-----------------------------------------------------------------------------
TaskStep(t) ==
  \/ SkipCheck(t) \/ Claim(t) \/ SkipDuplicate(t) \/ CheckFailsOpen(t) \/ ProcessRaises(t)
  \/ InsertSucceeds(t) \/ InsertFails(t) \/ InsertRejected(t)
  \/ EnsureDevice(t) \/ UpsertState(t)
  \/ ReleaseKey(t) \/ PublishDeadLetter(t) \/ RecordDeadLetter(t)
  \/ CommitOffset(t) \/ CommitFails(t)

LoopStep(w) ==
  \/ \E p \in Partitions : Poll(w, p) \/ PollPoison(w, p)
  \/ \E t \in Tasks : SpawnTask(w, t)

Next ==
  \/ JoinGroup
  \/ Rebalance
  \/ \E w \in Workers : Crash(w) \/ FetchFails(w) \/ LoopStep(w)
  \/ \E e \in Events : EvictKey(e)
  \/ \E t \in Tasks : TaskStep(t)

(***************************************************************************)
(* The event loop resumes whatever coroutine is ready, and the group       *)
(* coordinator assigns partitions that have no owner.  No fault is fair.   *)
(***************************************************************************)
Fairness ==
  /\ WF_vars(JoinGroup)
  /\ \A w \in Workers : WF_vars(LoopStep(w))
  /\ \A t \in Tasks : WF_vars(TaskStep(t))

Spec == Init /\ [][Next]_vars
FairSpec == Spec /\ Fairness

-----------------------------------------------------------------------------
(***************************************************************************)
(* Properties.                                                             *)
(***************************************************************************)

\* Records that exist.
LoggedMsgs == {m \in Msgs : m.off \in 1..Len(Log[m.part])}
LoggedJobs == {j \in Jobs : j.off \in 1..Len(Log[j.part])}

\* Every variable has its type, a task runs exactly when it has a record, and
\* offsets and retry counts are within their ranges.
TypeOK ==
  /\ owner \in [Partitions -> Workers \cup {NoWorker}]
  /\ committed \in [Partitions -> Nat \ {0}]
  /\ position \in [Partitions -> Nat \ {0}]
  /\ held \in [Workers -> LoggedMsgs \cup {NoMsg}]
  /\ permits \in [Workers -> Nat]
  /\ pc \in [Tasks -> Labels]
  /\ job \in [Tasks -> LoggedJobs \cup {NoMsg}]
  /\ \A t \in Tasks : Running(t) <=> job[t] # NoMsg
  /\ attempt \in [Tasks -> 0..RetryMaxAttempts]
  /\ \A t \in Tasks : pc[t] \in {"idle", "check"} => attempt[t] = 0
  /\ \A t \in Tasks : pc[t] = "insert" => attempt[t] < RetryMaxAttempts
  /\ retries \in [Tasks -> Nat]
  /\ keys \subseteq Events
  /\ rows \in [Events -> Nat]
  /\ devices \subseteq Devices
  /\ deviceState \in [Devices -> DeviceRows]
  /\ dlqTopic \subseteq Envelopes
  /\ dlqTable \subseteq Envelopes
  /\ budget \in [Faults -> Nat]
  /\ orphans \subseteq Events
  /\ abandoned \subseteq Events
  /\ refusals \subseteq {"topic", "table"} \X Events
  /\ misses \in [Events -> Nat]
  /\ strays \in Nat

\* A worker never loses or invents a permit: those its semaphore has left and
\* the tasks it runs always add up to MAX_CONCURRENT_TASKS, whichever way a
\* task ends (consumer.py:121 and the finally clause of _task_wrapper).
PermitsConserved ==
  \A w \in Workers : permits[w] + Cardinality(RunningOn(w)) = MaxConcurrentTasks

DeadLettered(e) == In(dlqTopic, e) \/ In(dlqTable, e)
Handled(e) == rows[e] > 0 \/ DeadLettered(e)

\* What excuses an event from being stored or dead-lettered by now: it is
\* still worked on, its process ended, or no dead letter sink took it.
Pending(e) == AtWork(e, Undecided) \/ e \in HeldEvents
Settled(e) == Handled(e) \/ e \in orphans \cup abandoned
Accounted(e) == Settled(e) \/ Pending(e)

\* The group committed past a record only if its event is stored, dead-lettered
\* or still in flight; otherwise a process ended while it had the event in
\* flight, or the dead letter path failed (consumer.py:5, "offset only
\* committed AFTER successful processing").  Commits out of order, rebalances,
\* retries and lost claims lose nothing by themselves.
NoSilentLoss ==
  \A p \in Partitions : \A o \in 1..Len(Log[p]) :
    o < committed[p] => Accounted(Log[p][o])

(***************************************************************************)
(* Why NoSilentLoss holds: a key is in Redis, and a task has put the check *)
(* of its key behind it, only for an event whose end is settled or being   *)
(* decided past the check; and every record that the group or a worker has *)
(* moved past is accounted for.                                            *)
(***************************************************************************)
Backed(e) == Settled(e) \/ AtWork(e, Undecided \ {"check"})

Passed(p, o) ==
  \/ o < committed[p]
  \/ o < position[p]
  \/ \E w \in Workers : held[w] # NoMsg /\ held[w].part = p /\ o <= held[w].off
  \/ \E t \in Tasks : Running(t) /\ job[t].part = p /\ o <= job[t].off

KeysBacked == \A e \in keys : Backed(e)
DecidedBacked ==
  \A t \in Tasks : pc[t] \in {"device", "state", "commit"} => Backed(EventOf(t))
PassedAccounted ==
  \A p \in Partitions : \A o \in 1..Len(Log[p]) : Passed(p, o) => Accounted(Log[p][o])

LossInv == KeysBacked /\ DecidedBacked /\ PassedAccounted

\* Every extra row of an event is due to what defeated the claim on its key: Redis
\* failed open, the key expired or was evicted, an INSERT took effect without an
\* answer, or the dead letter of another spelling of its id released the key
\* (handlers.py:113).  Redelivery, rebalances, crashes and the release of an
\* event's own key never duplicate a row by themselves.
DuplicatesCharged == \A e \in Events : rows[e] <= 1 + misses[e]

(***************************************************************************)
(* Why DuplicatesCharged holds: a task on its way to an INSERT, or about   *)
(* to release the key it inserted under, holds the claim on the key, or    *)
(* what let it through is charged to its event.                            *)
(***************************************************************************)
Inserting(e) == {t \in Tasks : pc[t] \in {"insert", "release"} /\ EventOf(t) = e}

ClaimsCharged ==
  \A e \in Events :
    rows[e] + Cardinality(Inserting(e)) <= (IF e \in keys THEN 1 ELSE 0) + misses[e]

\* All the events together have no more extra rows than keys have been defeated:
\* one Redis error, one key lost, one answer of the database lost, or one release
\* that took the key of another spelling pays for one row, and pays only once
\* (idempotency.py:44 and :60, retry.py:67, handlers.py:113).
Failures(fault) == Budget[fault] - budget[fault]
ExtraRows == UNION {{e} \X (1..rows[e] - 1) : e \in Events}
Payments == Failures("redis") + Failures("evict") + Failures("dbAck") + strays
ExtraRowsPaid == Cardinality(ExtraRows) <= Payments

(***************************************************************************)
(* Why ExtraRowsPaid holds: each charge to an event has a payment of its   *)
(* own.                                                                    *)
(***************************************************************************)
Charges == UNION {{e} \X (1..misses[e]) : e \in Events}

ChargesPaid ==
  /\ IsFiniteSet(Charges)
  /\ Cardinality(Charges) <= Payments
  /\ \A fault \in Faults : budget[fault] <= Budget[fault]

\* The retry_count of a dead letter, which _insert counts, tells how the event fared
\* in the loop of with_retry, which range() counts: validation failures say 0, a
\* non-retryable error comes last in at most RETRY_MAX_ATTEMPTS attempts, and
\* exhausted retries say RETRY_MAX_ATTEMPTS (handlers.py:95, retry.py:65).
RetriesOf(e, n) ==
  CASE Kind[e] \in {"valid", "unpartitioned"} -> n = RetryMaxAttempts
    [] Kind[e] = "unstorable" -> n \in 1..RetryMaxAttempts
    [] OTHER -> n = 0

RetryCountExact == \A r \in dlqTopic \cup dlqTable : RetriesOf(r.event, r.retries)

(***************************************************************************)
(* Why RetryCountExact holds: both counts agree in every task, one on its  *)
(* dead letter path already has the count its envelopes will carry, and    *)
(* only an event that parsed is ever at its INSERT or has its key released. *)
(***************************************************************************)
RetryCountInv ==
  /\ RetryCountExact
  /\ \A t \in Tasks :
       /\ retries[t] = attempt[t]
       /\ pc[t] \in {"release", "publish", "record"} => RetriesOf(EventOf(t), attempt[t])
       /\ pc[t] \in {"insert", "release"} => Kind[EventOf(t)] \in Parsing

\* A dead letter is given up only if both of its own sinks refused it: a produce
\* and an INSERT into dlq_events for this very event raised.  Only what makes
\* process() raise has no dead letter at all (retry.py:141-178).
AbandonedByBoth ==
  \A e \in abandoned :
    Kind[e] \in {"notdict", "badid"} \/ {"topic", "table"} \X {e} \subseteq refusals

\* Why it holds: a task that is past its produce has its envelope in the topic, or
\* its produce raised.
PublishedInv ==
  /\ AbandonedByBoth
  /\ \A t \in Tasks :
       pc[t] = "record" => In(dlqTopic, EventOf(t)) \/ <<"topic", EventOf(t)>> \in refusals

LastStored ==
  \A d \in Devices :
    deviceState[d].last # NoEvent =>
      rows[deviceState[d].last] > 0 /\ DeviceOf[deviceState[d].last] = d /\ d \in devices

\* The rows of the events table that are of a device, each with its number
\* among those of its event.
RowsOf(d) == UNION {{e} \X (1..rows[e]) : e \in {f \in Events : DeviceOf[f] = d}}

CountBehindRows == \A d \in Devices : deviceState[d].count <= Cardinality(RowsOf(d))

\* device_state names as the last event of a device one that is stored, and
\* never counts an event of it that the events table does not hold as well.
StateBehindRows == LastStored /\ CountBehindRows

(***************************************************************************)
(* Why StateBehindRows holds: the device state comes after the INSERT and  *)
(* after the row of the device it refers to, and each task on its way to   *)
(* it still owes the count of a row that it stored.                        *)
(***************************************************************************)
StateInv ==
  /\ LastStored
  /\ \A t \in Tasks :
       /\ pc[t] \in {"device", "state"} => rows[EventOf(t)] > 0
       /\ pc[t] = "state" => DeviceOf[EventOf(t)] \in devices

Owing(d) == {t \in Tasks : pc[t] \in {"device", "state"} /\ DeviceOf[EventOf(t)] = d}

CountInv ==
  \A d \in Devices :
    /\ IsFiniteSet(RowsOf(d))
    /\ deviceState[d].count + Cardinality(Owing(d)) <= Cardinality(RowsOf(d))

\* What arrived under the id that the event model has, and was dead-lettered after
\* its INSERT failed, can be replayed: no claim on its key is left behind by
\* whichever of its tasks ended last, unless the process of one ended under it or a
\* Redis call failed (handlers.py:113, idempotency.py:120).
ReplayUnblocked ==
  budget["redis"] = Budget["redis"] =>
    \A e \in Events :
      Kind[e] \in Parsing /\ Upper[e] = e /\ DeadLettered(e) /\ rows[e] = 0 /\ ~Pending(e)
        => e \notin keys \/ e \in orphans

(***************************************************************************)
(* Why ReplayUnblocked holds: as long as no Redis call failed, the claim   *)
(* on such an event that has no row is in the hands of a task that will    *)
(* store the row or release the key, or of a process that ended.           *)
(***************************************************************************)
ClaimsHeld ==
  /\ budget["redis"] <= Budget["redis"]
  /\ budget["redis"] = Budget["redis"] =>
       \A e \in keys :
         Kind[e] \in Parsing /\ Upper[e] = e /\ rows[e] = 0
           => e \in orphans \/ AtWork(e, {"insert", "release"})

\* An event has one row at most, and what the group committed past is stored,
\* dead-lettered or in flight (consumer.py:5, 001_initial.sql:80), as long as none
\* of the faults happens that defeat this, no release takes the key of another
\* spelling, and nothing in the topic makes a deserializer or process() raise:
\* rebalances, failed commits and statements that fail without effect, in whatever
\* order, break neither.
Undisturbed ==
  /\ \A fault \in {"redis", "evict", "dbAck", "kafka", "fetch", "crash"} : Failures(fault) = 0
  /\ strays = 0
  /\ \A p \in Partitions : \A o \in 1..Len(Log[p]) :
       Kind[Log[p][o]] \notin {"poison", "notdict", "badid"}

KeptUndisturbed ==
  Undisturbed =>
    /\ \A e \in Events : rows[e] <= 1
    /\ \A p \in Partitions : \A o \in 1..Len(Log[p]) :
         o < committed[p] => Handled(Log[p][o]) \/ Pending(Log[p][o])

Drained ==
  /\ \A p \in Partitions : owner[p] # NoWorker /\ position[p] > Len(Log[p])
  /\ \A w \in Workers : held[w] = NoMsg /\ permits[w] = MaxConcurrentTasks
  /\ \A t \in Tasks : ~Running(t)

\* Once the faults stop, every worker delivers what it has left and every task
\* ends and returns its permit: no task or permit is stuck, and no partition
\* is left behind.
LoopDrains == <>[]Drained

\* Every record of the topic comes to an end: its event is stored or
\* dead-lettered, or the end of a process or of every dead letter sink took it.
EveryRecordSettles ==
  \A p \in Partitions : \A o \in 1..Len(Log[p]) : <>Settled(Log[p][o])

-----------------------------------------------------------------------------
(***************************************************************************)
(* The worker service implements the delivery ledger: an event is open     *)
(* while a loop holds it or a task has not decided about it.               *)
(***************************************************************************)
Ledger == INSTANCE DeliveryLedger WITH
  Storable <- {e \in Events : Kind[e] = "valid"},
  open <- {e \in Events : Pending(e)},
  copies <- rows,
  dead <- {e \in Events : DeadLettered(e)},
  excused <- orphans \cup abandoned,
  charges <- misses

\* Every step of the workers is a step the ledger allows: an event leaves the
\* hands of the last task or loop only with a row, a dead letter or an excuse,
\* at the very step that ends it; an INSERT adds a second row only if the claim on
\* its key was defeated; and a commit passes only such events (consumer.py:5,
\* idempotency.py:44, retry.py:131).
ImplementsLedger == Ledger!Spec

-----------------------------------------------------------------------------
(***************************************************************************)
(* What comments and documents of the repository promise, and the code     *)
(* does not keep: a configuration of each shows its violation.             *)
(***************************************************************************)

\* consumer.py:5 and :135: an offset is committed only after the event was
\* stored or published to the DLQ.
CommittedIsHandled ==
  \A p \in Partitions : \A o \in 1..Len(Log[p]) :
    o < committed[p] => Handled(Log[p][o])

\* processor.py:51: process() never raises, so a task ends at its commit.
ProcessNeverRaises ==
  [][\A t \in Tasks : Running(t) /\ ~Running(t)' => pc[t] = "commit"]_vars

\* idempotency.py:44 and 001_initial.sql:80: where Redis does not find the
\* duplicate, the database does.
UniqueRows == \A e \in Events : rows[e] <= 1

\* 001_initial.sql:140: device_state is the latest state of each device.
StampNeverBack ==
  [][\A d \in Devices : deviceState[d].last # NoEvent =>
       StampOf[deviceState[d].last] <= StampOf[deviceState'[d].last]]_vars

\* idempotency.py:120 and retry_dlq_design.md:79: a dead letter that was never
\* stored can be replayed, so no key stands in the way of its event_id.
DeadLetteredIsReplayable ==
  \A e \in Events : DeadLettered(e) /\ rows[e] = 0 /\ ~Pending(e) => e \notin keys

\* idempotency.py:120: release, on the dead letter path of an event that parsed, is
\* what allows its replay, however its id is spelled.
ReleasedIsReplayable ==
  budget["redis"] = Budget["redis"] =>
    \A e \in Events :
      Kind[e] \in Parsing /\ DeadLettered(e) /\ rows[e] = 0 /\ ~Pending(e)
        => e \notin keys \/ e \in orphans
=============================================================================
