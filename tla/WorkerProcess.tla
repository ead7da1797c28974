--------------------------- MODULE WorkerProcess ----------------------------
(***************************************************************************)
(* The life of a worker process around the pipeline of module Worker:      *)
(* main() (apps/worker/main.py) starts the clients and the consumer loop,  *)
(* and after SIGTERM, or when the loop has failed, ends it.  The loop is   *)
(* cancelled, but the tasks it has spawned are not: they go on while, one  *)
(* after the other, the consumer leaves the group, the dead letter         *)
(* producer stops and the database pool closes, and each of them meets     *)
(* what has been closed by then.  They end with the process.               *)
(***************************************************************************)
EXTENDS Worker

CONSTANT MaxSignals  \* how many SIGTERMs are sent

ASSUME SignalsAssumption == MaxSignals \in Nat

VARIABLES
  phase,    \* how far the process of a worker is
  busy,     \* tasks whose statement is under way when the pool closes
  signals   \* signals that may still be sent

processVars == <<phase, busy, signals>>

(***************************************************************************)
(* "down": no process.  "running": the loop consumes.  "stopping": the     *)
(* loop has ended, consumer.stop() is next.  "left": the consumer has left *)
(* the group.  "flushed": the dead letter producer has stopped.            *)
(* "closing": the pool refuses new statements and waits for those it has.  *)
(***************************************************************************)
Phases == {"down", "running", "stopping", "left", "flushed", "closing"}

Members == {w \in Workers : phase[w] \in {"running", "stopping"}}

ProcessInit ==
  /\ Init
  /\ phase = [w \in Workers |-> "down"]
  /\ busy = {}
  /\ signals = MaxSignals

Advance(w, from, to) ==
  /\ phase[w] = from
  /\ phase' = [phase EXCEPT ![w] = to]

-----------------------------------------------------------------------------
(***************************************************************************)
(* The group hands out partitions to the processes that are in it.         *)
(***************************************************************************)

MembersJoin ==
  /\ Members # {}
  /\ JoinGroup
  /\ \A p \in Partitions : owner'[p] \in Members
  /\ UNCHANGED processVars

MembersRebalance ==
  /\ Rebalance
  /\ \A p \in Partitions : owner'[p] \in Members
  /\ UNCHANGED processVars

-----------------------------------------------------------------------------
(***************************************************************************)
(* main().                                                                 *)
(***************************************************************************)

\* The process is started (again): init_pool, the ping of Redis, whose failure is
\* only logged, and the consumer loop.  A start that fails leaves it down.
Start(w) ==
  /\ Advance(w, "down", "running")
  /\ UNCHANGED <<vars, busy, signals>>

\* consumer_task is cancelled at its await; the record it holds is dropped.
CancelLoop(w) ==
  /\ held' = [held EXCEPT ![w] = NoMsg]
  /\ orphans' = orphans \cup {EventAt(m) : m \in {held[w]} \ {NoMsg}}

\* SIGTERM or SIGINT sets stop_event, and main() stops waiting.
Signal(w) ==
  /\ signals > 0
  /\ signals' = signals - 1
  /\ Advance(w, "running", "stopping")
  /\ CancelLoop(w)
  /\ UNCHANGED <<groupVars, permits, taskVars, sinkVars, dlqVars, keys, budget,
                 abandoned, refusals, misses, strays, busy>>

\* A deserializer raises out of the loop, whose finally clause runs.
LoopFails(w, p) ==
  /\ CanPoll(w, p)
  /\ Kind[EventAt(NextMsg(p))] = "poison"
  /\ Advance(w, "running", "stopping")
  /\ UNCHANGED <<vars, busy, signals>>

\* consumer.start() or the iterator raises a KafkaError, which is logged and raised
\* again: the finally clause runs.
ConsumerFails(w) ==
  /\ held[w] = NoMsg
  /\ Spend("fetch")
  /\ Advance(w, "running", "stopping")
  /\ UNCHANGED <<groupVars, loopVars, taskVars, sinkVars, dlqVars, historyVars, keys, busy,
                 signals>>

\* await consumer.stop()
LeaveGroup(w) ==
  /\ Advance(w, "stopping", "left")
  /\ owner' = [p \in Partitions |-> IF owner[p] = w THEN NoWorker ELSE owner[p]]
  /\ UNCHANGED <<committed, position, loopVars, taskVars, sinkVars, dlqVars, historyVars,
                 keys, budget, busy, signals>>

\* await dlq_producer.stop()
StopProducer(w) ==
  /\ Advance(w, "left", "flushed")
  /\ UNCHANGED <<vars, busy, signals>>

DbLabels == {"insert", "device", "state", "record"}

\* await db.close_pool() begins: any of the tasks at a statement may have it
\* under way on a connection; the others are before it, or in a backoff.
ClosePool(w) ==
  /\ Advance(w, "flushed", "closing")
  /\ \E S \in SUBSET {t \in RunningOn(w) : pc[t] \in DbLabels} : busy' = busy \cup S
  /\ UNCHANGED <<vars, signals>>

\* A variant: Pool.terminate(), which waits for nothing.
PoolTerminated(w) == TRUE

\* Pool.close() has waited for the statements that were under way.
PoolIdle(w) == busy \cap RunningOn(w) = {}

\* main() returns, and asyncio.run cancels the tasks that are left.
End(w) ==
  /\ PoolIdle(w)
  /\ Advance(w, "closing", "down")
  /\ Exit(w)
  /\ UNCHANGED <<budget, busy, signals>>

ProcessCrash(w) ==
  /\ phase[w] # "down"
  /\ phase' = [phase EXCEPT ![w] = "down"]
  /\ busy' = busy \ RunningOn(w)
  /\ Crash(w)
  /\ UNCHANGED signals

-----------------------------------------------------------------------------
(***************************************************************************)
(* The loop and the tasks, while their process is in some phase.           *)
(***************************************************************************)

RunningLoopStep(w) ==
  /\ phase[w] = "running"
  /\ \/ \E p \in Partitions :
          \/ Poll(w, p) /\ UNCHANGED processVars
          \/ LoopFails(w, p)
     \/ \E t \in Tasks : SpawnTask(w, t) /\ UNCHANGED processVars

PoolRefuses(t) == phase[job[t].by] = "closing" /\ t \notin busy
ProducerStopped(t) == phase[job[t].by] \in {"flushed", "closing"}

Refused(t) ==
  \/ pc[t] \in DbLabels /\ PoolRefuses(t)
  \/ pc[t] = "publish" /\ Kind[EventOf(t)] # "badid" /\ ProducerStopped(t)

\* A task whose clients still serve it does what Worker says.
ServedStep(t) ==
  /\ Running(t)
  /\ ~Refused(t)
  /\ TaskStep(t)
  /\ busy' = busy \ {t}
  /\ UNCHANGED <<phase, signals>>

\* A variant: an insert into a pool that is closing is given up in silence.
InsertRefusedSwallowed(t) ==
  /\ pc[t] = "insert"
  /\ CountAttempt(t)
  /\ CountRetry(t)
  /\ Goto(t, "commit")
  /\ UNCHANGED <<abandoned, refusals>>

\* InterfaceError, "pool is closing": with_retry counts it as an attempt.
InsertRefused(t) ==
  /\ pc[t] = "insert"
  /\ CountAttempt(t)
  /\ CountRetry(t)
  /\ Goto(t, AfterFailedAttempt(attempt[t] + 1))
  /\ UNCHANGED <<abandoned, refusals>>

\* DeviceStateHandler swallows it.
DeviceRefused(t) ==
  /\ pc[t] \in {"device", "state"}
  /\ Goto(t, "commit")
  /\ UNCHANGED <<attempt, retries, abandoned, refusals>>

\* DLQPublisher.send logs ProducerClosed, and goes on to the table.
PublishRefused(t) ==
  /\ pc[t] = "publish"
  /\ Refuse("topic", t)
  /\ Goto(t, "record")
  /\ UNCHANGED <<attempt, retries, abandoned>>

\* DLQPublisher.send logs the InterfaceError too, and the record is committed.
RecordRefused(t) ==
  /\ pc[t] = "record"
  /\ UNCHANGED <<attempt, retries, dlqTable>>
  /\ Refuse("table", t)
  /\ Abandon(t)
  /\ Goto(t, "commit")

RefusedStep(t) ==
  /\ Refused(t)
  /\ InsertRefused(t) \/ DeviceRefused(t) \/ PublishRefused(t) \/ RecordRefused(t)
  /\ UNCHANGED <<groupVars, loopVars, job, sinkVars, dlqVars, keys, budget, orphans, misses,
                 strays, processVars>>

-----------------------------------------------------------------------------
ShutdownStep(w) == LeaveGroup(w) \/ StopProducer(w) \/ ClosePool(w) \/ End(w)

ProcessNext ==
  \/ MembersJoin
  \/ MembersRebalance
  \/ \E w \in Workers :
       \/ Start(w) \/ Signal(w) \/ ConsumerFails(w)
       \/ ShutdownStep(w) \/ ProcessCrash(w) \/ RunningLoopStep(w)
  \/ \E e \in Events : EvictKey(e) /\ UNCHANGED processVars
  \/ \E t \in Tasks : ServedStep(t) \/ RefusedStep(t)

\* A container that has ended is started again (the restart policy of the
\* deployments), and a coroutine that is ready is resumed.
ProcessFairness ==
  /\ WF_<<vars, processVars>>(MembersJoin)
  /\ \A w \in Workers :
       /\ WF_<<vars, processVars>>(Start(w))
       /\ WF_<<vars, processVars>>(ShutdownStep(w))
       /\ WF_<<vars, processVars>>(RunningLoopStep(w))
  /\ \A t \in Tasks : WF_<<vars, processVars>>(ServedStep(t) \/ RefusedStep(t))

ProcessSpec == ProcessInit /\ [][ProcessNext]_<<vars, processVars>>
FairProcessSpec == ProcessSpec /\ ProcessFairness

-----------------------------------------------------------------------------
\* Types; and the pool of a process that is ending waits for exactly those of
\* its statements that are under way: no process ends in the middle of one.
ProcessTypeOK ==
  /\ TypeOK
  /\ phase \in [Workers -> Phases]
  /\ signals \in 0..MaxSignals
  /\ busy \subseteq Tasks
  /\ \A t \in busy : pc[t] \in DbLabels /\ phase[job[t].by] = "closing"
  /\ \A p \in Partitions : owner[p] \in Members \cup {NoWorker}
  /\ \A w \in Workers : phase[w] # "running" => held[w] = NoMsg
=============================================================================
