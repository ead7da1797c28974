---------------------------- MODULE WorkerProofs ----------------------------
(***************************************************************************)
(* Proofs about Worker, for any workers, tasks, partitions, logs and       *)
(* budgets of faults.                                                      *)
(***************************************************************************)
EXTENDS Worker, FiniteSetTheorems, TLAPS

-----------------------------------------------------------------------------
(***************************************************************************)
(* Type correctness.                                                       *)
(***************************************************************************)

\* The record of a running task exists, and it is worked on for a worker.
LEMMA RunningJob ==
  ASSUME TypeOK, NEW t \in Tasks, Running(t)
  PROVE  /\ job[t] \in LoggedJobs
         /\ job[t].by \in Workers
         /\ job[t].part \in Partitions
         /\ job[t].off \in 1..Len(Log[job[t].part])
         /\ EventOf(t) \in Events
<1>1. job[t] \in LoggedJobs
  BY DEF TypeOK
<1>2. /\ job[t].by \in Workers
      /\ job[t].part \in Partitions
      /\ job[t].off \in 1..Len(Log[job[t].part])
  BY <1>1 DEF LoggedJobs, Jobs
<1>3. Log[job[t].part] \in Seq(Events)
  BY <1>2, ConstantsAssumption
<1>4. EventOf(t) \in Events
  BY <1>2, <1>3 DEF EventOf, EventAt
<1> QED
  BY <1>1, <1>2, <1>4

\* The record a loop holds exists.
LEMMA HeldMsg ==
  ASSUME TypeOK, NEW w \in Workers, held[w] # NoMsg
  PROVE  /\ held[w] \in LoggedMsgs
         /\ held[w].part \in Partitions
         /\ held[w].off \in 1..Len(Log[held[w].part])
         /\ EventAt(held[w]) \in Events
<1>1. held[w] \in LoggedMsgs
  BY DEF TypeOK
<1>2. held[w].part \in Partitions /\ held[w].off \in 1..Len(Log[held[w].part])
  BY <1>1 DEF LoggedMsgs, Msgs
<1>3. Log[held[w].part] \in Seq(Events)
  BY <1>2, ConstantsAssumption
<1> QED
  BY <1>1, <1>2, <1>3 DEF EventAt

\* A fault that is spent leaves a budget.
LEMMA SpendType ==
  ASSUME TypeOK, NEW fault, Spend(fault)
  PROVE  budget' \in [Faults -> Nat]
<1>1. CASE fault \in Faults
  BY <1>1 DEF TypeOK, Spend
<1>2. CASE fault \notin Faults
  <2>1. budget' = budget
    BY <1>2 DEF TypeOK, Spend
  <2> QED
    BY <2>1 DEF TypeOK
<1> QED
  BY <1>1, <1>2

\* The next label of a task is a label.
LEMMA NextLabel ==
  /\ \A e \in Events : AfterValidation(e) \in {"insert", "publish"}
  /\ \A n \in Nat : AfterFailedAttempt(n) \in {"insert", "release"}
BY DEF AfterValidation, AfterFailedAttempt

\* The initial state has its type.
LEMMA InitType == Init => TypeOK
<1> SUFFICES ASSUME Init PROVE TypeOK
  OBVIOUS
<1>1. [last |-> NoEvent, count |-> 0] \in DeviceRows
  BY DEF DeviceRows
<1> QED
  BY <1>1, ConstantsAssumption DEF Init, TypeOK, Labels, Running

\* Exit keeps TypeOK, and so do Crash, FetchFails and PollPoison.
LEMMA ExitType ==
  ASSUME TypeOK, NEW w \in Workers, Exit(w), budget' \in [Faults -> Nat]
  PROVE  TypeOK'
<1> USE DEF TypeOK, Exit
<1>1. InFlightAt(w) \subseteq Events
  <2>1. \A t \in RunningOn(w) : EventOf(t) \in Events
    BY RunningJob DEF RunningOn
  <2>2. \A m \in {held[w]} \ {NoMsg} : EventAt(m) \in Events
    BY HeldMsg
  <2> QED
    BY <2>1, <2>2 DEF InFlightAt
<1>2. /\ owner' \in [Partitions -> Workers \cup {NoWorker}]
      /\ held' \in [Workers -> LoggedMsgs \cup {NoMsg}]
      /\ permits' \in [Workers -> Nat]
  BY ConstantsAssumption
<1>3. /\ pc' \in [Tasks -> Labels]
      /\ job' \in [Tasks -> LoggedJobs \cup {NoMsg}]
      /\ attempt' \in [Tasks -> 0..RetryMaxAttempts]
  BY ConstantsAssumption DEF Labels
<1>4. \A t \in Tasks : Running(t)' <=> job'[t] # NoMsg
  BY DEF Running
<1>5. \A t \in Tasks : pc'[t] \in {"idle", "check"} => attempt'[t] = 0
  OBVIOUS
<1>6. \A t \in Tasks : pc'[t] = "insert" => attempt'[t] < RetryMaxAttempts
  OBVIOUS
<1>7. retries' \in [Tasks -> Nat]
  OBVIOUS
<1> QED
  BY <1>1, <1>2, <1>3, <1>4, <1>5, <1>6, <1>7 DEF sinkVars, dlqVars

\* The end of a task keeps the types of the variables it changes.
LEMMA FinishType ==
  ASSUME TypeOK, NEW t \in Tasks, Running(t), Finish(t)
  PROVE  /\ permits' \in [Workers -> Nat]
         /\ pc' \in [Tasks -> Labels]
         /\ job' \in [Tasks -> LoggedJobs \cup {NoMsg}]
         /\ \A u \in Tasks : Running(u)' <=> job'[u] # NoMsg
         /\ attempt' \in [Tasks -> 0..RetryMaxAttempts]
         /\ \A u \in Tasks : pc'[u] \in {"idle", "check"} => attempt'[u] = 0
         /\ \A u \in Tasks : pc'[u] = "insert" => attempt'[u] < RetryMaxAttempts
<1>1. job[t].by \in Workers
  BY RunningJob
<1> QED
  BY <1>1, ConstantsAssumption DEF TypeOK, Finish, Running, Labels

\* What TypeOK says of the tasks.
TaskTypes ==
  /\ pc \in [Tasks -> Labels]
  /\ job \in [Tasks -> LoggedJobs \cup {NoMsg}]
  /\ \A u \in Tasks : Running(u) <=> job[u] # NoMsg
  /\ attempt \in [Tasks -> 0..RetryMaxAttempts]
  /\ \A u \in Tasks : pc[u] \in {"idle", "check"} => attempt[u] = 0
  /\ \A u \in Tasks : pc[u] = "insert" => attempt[u] < RetryMaxAttempts

\* A step that leaves the tasks alone.
LEMMA SameTasks == TypeOK /\ UNCHANGED <<pc, job, attempt>> => TaskTypes'
BY DEF TypeOK, TaskTypes, Running

\* A task that goes on keeps its record, and has attempts left if it inserts.
LEMMA GotoType ==
  ASSUME TypeOK, NEW t \in Tasks, Running(t), UNCHANGED job,
         NEW l \in Labels \ {"idle", "check"}, Goto(t, l),
         NEW n \in 0..RetryMaxAttempts, attempt' = [attempt EXCEPT ![t] = n],
         l = "insert" => n < RetryMaxAttempts
  PROVE  TaskTypes'
<1>1. /\ pc'[t] = l /\ attempt'[t] = n
      /\ \A u \in Tasks \ {t} : pc'[u] = pc[u] /\ attempt'[u] = attempt[u]
  BY DEF Goto, TypeOK
<1>2. pc' \in [Tasks -> Labels] /\ attempt' \in [Tasks -> 0..RetryMaxAttempts]
  BY DEF Goto, TypeOK
<1>3. job' \in [Tasks -> LoggedJobs \cup {NoMsg}]
  BY DEF TypeOK
<1>4. \A u \in Tasks : /\ Running(u) <=> job[u] # NoMsg
                       /\ pc[u] \in {"idle", "check"} => attempt[u] = 0
                       /\ pc[u] = "insert" => attempt[u] < RetryMaxAttempts
  BY DEF TypeOK
<1> QED
  BY <1>1, <1>2, <1>3, <1>4 DEF Running, TaskTypes

\* An attempt more or less of an event leaves the counters numbers.
LEMMA CountType ==
  ASSUME TypeOK, NEW e \in Events
  PROVE  /\ StoreRow(e) => rows' \in [Events -> Nat]
         /\ misses' = [misses EXCEPT ![e] = @ + 1] => misses' \in [Events -> Nat]
         /\ StoreState(e) => deviceState' \in [Devices -> DeviceRows]
<1>1. StoreRow(e) => rows' \in [Events -> Nat]
  BY DEF TypeOK, StoreRow
<1>2. misses' = [misses EXCEPT ![e] = @ + 1] => misses' \in [Events -> Nat]
  BY DEF TypeOK
<1>3. StoreState(e) => deviceState' \in [Devices -> DeviceRows]
  <2>1. DeviceOf[e] \in Devices
    BY ConstantsAssumption
  <2>2. [last |-> e, count |-> deviceState[DeviceOf[e]].count + 1] \in DeviceRows
    BY <2>1 DEF TypeOK, DeviceRows
  <2> QED
    BY <2>1, <2>2 DEF TypeOK, StoreState
<1> QED
  BY <1>1, <1>2, <1>3

\* An INSERT is counted before its outcome is known.
LEMMA AttemptType ==
  ASSUME TypeOK, NEW t \in Tasks, pc[t] = "insert", CountAttempt(t)
  PROVE  /\ attempt' = [attempt EXCEPT ![t] = attempt[t] + 1]
         /\ attempt[t] + 1 \in 1..RetryMaxAttempts
         /\ attempt' \in [Tasks -> 0..RetryMaxAttempts]
BY ConstantsAssumption DEF TypeOK, CountAttempt

\* A task after an attempt, and a task after any other await.
LEMMA InsertedType ==
  ASSUME TypeOK, NEW t \in Tasks, pc[t] = "insert", CountAttempt(t), UNCHANGED job,
         NEW l \in Labels \ {"idle", "check"}, Goto(t, l),
         l = "insert" => attempt[t] + 1 < RetryMaxAttempts
  PROVE  TaskTypes'
<1>1. Running(t)
  BY DEF Running
<1>2. PICK n \in 0..RetryMaxAttempts : n = attempt[t] + 1 /\ attempt' = [attempt EXCEPT ![t] = n]
  BY AttemptType, ConstantsAssumption
<1> QED
  BY <1>1, <1>2, GotoType

LEMMA MovedType ==
  ASSUME TypeOK, NEW t \in Tasks, Running(t), UNCHANGED <<job, attempt>>,
         NEW l \in Labels \ {"idle", "check"}, Goto(t, l),
         l = "insert" => attempt[t] < RetryMaxAttempts
  PROVE  TaskTypes'
<1>1. PICK n \in 0..RetryMaxAttempts : n = attempt[t]
  BY DEF TypeOK
<1>2. attempt' = [attempt EXCEPT ![t] = n]
  BY <1>1 DEF TypeOK
<1> QED
  BY <1>1, <1>2, GotoType

\* A committed offset is the offset of a record that comes next.
LEMMA CommitType ==
  ASSUME TypeOK, NEW t \in Tasks, Running(t), SetCommitted(t)
  PROVE  committed' \in [Partitions -> Nat \ {0}]
<1>1. job[t].off + 1 \in Nat \ {0}
  BY RunningJob
<1> QED
  BY <1>1 DEF TypeOK, SetCommitted

\* A dead letter is an envelope.
LEMMA EnvelopeType ==
  ASSUME TypeOK, NEW t \in Tasks, Running(t)
  PROVE  Envelope(t) \in Envelopes
BY RunningJob DEF TypeOK, Envelope, Envelopes

\* A task that is past the check and its validation.
LEMMA CheckedType ==
  ASSUME TypeOK, NEW t \in Tasks, pc[t] = "check", EventOf(t) \in Events,
         UNCHANGED <<job, attempt>>, Goto(t, AfterValidation(EventOf(t)))
  PROVE  TaskTypes'
<1>1. PICK l \in {"insert", "publish"} : l = AfterValidation(EventOf(t))
  BY NextLabel
<1>2. attempt[t] = 0 /\ Running(t) /\ 0 < RetryMaxAttempts
  BY ConstantsAssumption DEF TypeOK, Running
<1>3. l \in Labels \ {"idle", "check"} /\ Goto(t, l)
  BY <1>1 DEF Labels
<1> QED
  BY <1>2, <1>3, MovedType

\* The counters that no guard reads, and the sinks that refused a dead letter.
CounterTypes ==
  /\ retries \in [Tasks -> Nat]
  /\ refusals \subseteq {"topic", "table"} \X Events
  /\ strays \in Nat

\* What counts a retry, ends a task or notes a refusal keeps them so.
LEMMA CounterSteps ==
  ASSUME TypeOK, NEW t \in Tasks
  PROVE  /\ CountRetry(t) => retries' \in [Tasks -> Nat]
         /\ Finish(t) => retries' \in [Tasks -> Nat]
         /\ \A sink \in {"topic", "table"} :
              Running(t) /\ Refuse(sink, t) => refusals' \subseteq {"topic", "table"} \X Events
<1>1. retries \in [Tasks -> Nat] /\ refusals \subseteq {"topic", "table"} \X Events
  BY DEF TypeOK
<1>2. CountRetry(t) => retries' \in [Tasks -> Nat]
  BY <1>1 DEF CountRetry
<1>3. Finish(t) => retries' \in [Tasks -> Nat]
  BY <1>1 DEF Finish
<1>4. ASSUME NEW sink \in {"topic", "table"}, Running(t), Refuse(sink, t)
      PROVE  refusals' \subseteq {"topic", "table"} \X Events
  <2>1. <<sink, EventOf(t)>> \in {"topic", "table"} \X Events
    BY <1>4, RunningJob
  <2> QED
    BY <1>1, <1>4, <2>1 DEF Refuse
<1> QED
  BY <1>2, <1>3, <1>4

LEMMA TaskCounterTypes ==
  ASSUME TypeOK, NEW t \in Tasks, TaskStep(t)
  PROVE  CounterTypes'
<1> USE DEF historyVars, taskVars
<1>1. retries \in [Tasks -> Nat] /\ strays \in Nat
      /\ refusals \subseteq {"topic", "table"} \X Events
  BY DEF TypeOK
<1>2. CASE SkipCheck(t) \/ Claim(t) \/ SkipDuplicate(t)
  BY <1>1, <1>2 DEF SkipCheck, Claim, SkipDuplicate, CounterTypes
<1>3. CASE CheckFailsOpen(t) \/ EnsureDevice(t) \/ UpsertState(t)
  BY <1>1, <1>3 DEF CheckFailsOpen, EnsureDevice, UpsertState, CounterTypes
<1>4. CASE ProcessRaises(t) \/ CommitOffset(t) \/ CommitFails(t)
  <2>1. Finish(t) /\ UNCHANGED <<refusals, strays>>
    BY <1>4 DEF ProcessRaises, CommitOffset, CommitFails
  <2> QED
    BY <1>1, <2>1, CounterSteps DEF CounterTypes
<1>5. CASE InsertSucceeds(t) \/ InsertFails(t) \/ InsertRejected(t)
  <2>1. CountRetry(t) /\ UNCHANGED <<refusals, strays>>
    BY <1>5 DEF InsertSucceeds, InsertFails, InsertRejected
  <2> QED
    BY <1>1, <2>1, CounterSteps DEF CounterTypes
<1>6. CASE ReleaseKey(t)
  <2>1. UNCHANGED <<retries, refusals>> /\ (strays' = strays + 1 \/ strays' = strays)
    BY <1>6 DEF ReleaseKey, DropKey
  <2> QED
    BY <1>1, <2>1 DEF CounterTypes
<1>7. CASE PublishDeadLetter(t)
  <2>1. Running(t) /\ UNCHANGED <<retries, strays>> /\ (UNCHANGED refusals \/ Refuse("topic", t))
    BY <1>7 DEF PublishDeadLetter, Running
  <2> QED
    BY <1>1, <2>1, CounterSteps DEF CounterTypes
<1>8. CASE RecordDeadLetter(t)
  <2>1. Running(t) /\ UNCHANGED <<retries, strays>> /\ (UNCHANGED refusals \/ Refuse("table", t))
    BY <1>8 DEF RecordDeadLetter, Running
  <2> QED
    BY <1>1, <2>1, CounterSteps DEF CounterTypes
<1> QED
  BY <1>2, <1>3, <1>4, <1>5, <1>6, <1>7, <1>8 DEF TaskStep

\* Every step keeps TypeOK.
LEMMA NextType == TypeOK /\ [Next]_vars => TypeOK'
<1> SUFFICES ASSUME TypeOK, [Next]_vars PROVE TypeOK'
  OBVIOUS
<1> USE ConstantsAssumption DEF groupVars, loopVars, taskVars, sinkVars, dlqVars, historyVars
<1>1. CASE JoinGroup
  BY <1>1 DEF JoinGroup, Assign, TypeOK, Running
<1>2. CASE Rebalance
  BY <1>2, SpendType DEF Rebalance, Assign, TypeOK, Running, Faults
<1>3. ASSUME NEW w \in Workers, Crash(w) \/ FetchFails(w) PROVE TypeOK'
  BY <1>3, SpendType, ExitType DEF Crash, FetchFails, Faults
<1>4. ASSUME NEW w \in Workers, NEW p \in Partitions, Poll(w, p) PROVE TypeOK'
  <2>1. NextMsg(p) \in LoggedMsgs
    BY <1>4 DEF Poll, CanPoll, NextMsg, LoggedMsgs, Msgs, TypeOK
  <2>2. held' \in [Workers -> LoggedMsgs \cup {NoMsg}]
    BY <1>4, <2>1 DEF Poll, TypeOK
  <2>3. position' \in [Partitions -> Nat \ {0}]
    BY <1>4 DEF Poll, TypeOK
  <2>4. TaskTypes'
    BY <1>4, SameTasks DEF Poll
  <2>5. UNCHANGED <<owner, committed, permits, retries, sinkVars, dlqVars, historyVars,
                    keys, budget>>
    BY <1>4 DEF Poll
  <2> QED
    BY <2>2, <2>3, <2>4, <2>5 DEF TypeOK, TaskTypes
<1>5. ASSUME NEW w \in Workers, NEW p \in Partitions, PollPoison(w, p) PROVE TypeOK'
  BY <1>5, ExitType DEF PollPoison, TypeOK
<1>6. ASSUME NEW w \in Workers, NEW t \in Tasks, SpawnTask(w, t) PROVE TypeOK'
  <2> DEFINE j == [by |-> w, part |-> held[w].part, off |-> held[w].off]
  <2>1. j \in LoggedJobs /\ j # NoMsg
    BY <1>6, HeldMsg DEF SpawnTask, LoggedJobs, Jobs
  <2>2. attempt[t] = 0
    BY <1>6 DEF SpawnTask, TypeOK, Running, Labels
  <2> HIDE DEF j
  <2>3. job' = [job EXCEPT ![t] = j]
    BY <1>6 DEF SpawnTask, j
  <2>4. held' \in [Workers -> LoggedMsgs \cup {NoMsg}]
    BY <1>6 DEF SpawnTask, TypeOK
  <2>5. permits' \in [Workers -> Nat]
    BY <1>6 DEF SpawnTask, PermitFree, TypeOK
  <2>6. TaskTypes'
    BY <1>6, <2>1, <2>2, <2>3 DEF SpawnTask, TypeOK, TaskTypes, Running, Labels
  <2>7. UNCHANGED <<owner, committed, position, retries, sinkVars, dlqVars, historyVars,
                    keys, budget>>
    BY <1>6 DEF SpawnTask
  <2> QED
    BY <2>4, <2>5, <2>6, <2>7 DEF TypeOK, TaskTypes
<1>7. ASSUME NEW e \in Events, EvictKey(e) PROVE TypeOK'
  <2>1. budget' \in [Faults -> Nat] /\ misses' \in [Events -> Nat]
    BY <1>7, SpendType, CountType DEF EvictKey
  <2>2. TaskTypes'
    BY <1>7, SameTasks DEF EvictKey
  <2> QED
    BY <1>7, <2>1, <2>2 DEF EvictKey, TypeOK, TaskTypes
<1>8. ASSUME NEW t \in Tasks, TaskStep(t) PROVE TypeOK'
  <2>16. /\ retries' \in [Tasks -> Nat] /\ strays' \in Nat
         /\ refusals' \subseteq {"topic", "table"} \X Events
    BY <1>8, TaskCounterTypes DEF CounterTypes
  <2>1. CASE SkipCheck(t)
    <3>1. pc[t] = "check" /\ EventOf(t) \in Events
      BY <2>1, RunningJob DEF SkipCheck, Running
    <3>2. TaskTypes'
      BY <2>1, <3>1, CheckedType DEF SkipCheck
    <3> QED
      BY <2>16, <2>1, <3>2 DEF SkipCheck, TypeOK, TaskTypes
  <2>2. CASE Claim(t)
    <3>1. pc[t] = "check" /\ EventOf(t) \in Events
      BY <2>2, RunningJob DEF Claim, Running
    <3>2. TaskTypes'
      BY <2>2, <3>1, CheckedType DEF Claim
    <3> QED
      BY <2>16, <2>2, <3>1, <3>2 DEF Claim, TypeOK, TaskTypes
  <2>3. CASE SkipDuplicate(t)
    BY <2>16, <2>3, RunningJob DEF SkipDuplicate, Goto, Running, TypeOK, Labels
  <2>4. CASE CheckFailsOpen(t)
    <3>1. EventOf(t) \in Events
      BY <2>4, RunningJob DEF CheckFailsOpen, Running
    <3>2. budget' \in [Faults -> Nat] /\ misses' \in [Events -> Nat]
      BY <2>4, <3>1, SpendType, CountType DEF CheckFailsOpen
    <3>3. keys' \subseteq Events
      BY <2>4, <3>1 DEF CheckFailsOpen, TypeOK
    <3>4. TaskTypes'
      BY <2>4, <3>1, CheckedType DEF CheckFailsOpen
    <3>5. UNCHANGED <<groupVars, loopVars, sinkVars, dlqVars, orphans, abandoned>>
      BY <2>4 DEF CheckFailsOpen
    <3> QED
      BY <2>16, <3>2, <3>3, <3>4, <3>5 DEF TypeOK, TaskTypes
  <2>5. CASE ProcessRaises(t)
    BY <2>16, <2>5, RunningJob, FinishType DEF ProcessRaises, Running, TypeOK
  <2>6. CASE InsertSucceeds(t)
    <3>1. EventOf(t) \in Events
      BY <2>6, RunningJob DEF InsertSucceeds, Running
    <3>2. rows' \in [Events -> Nat]
      BY <2>6, <3>1, CountType DEF InsertSucceeds
    <3>3. Running(t) /\ "device" \in Labels \ {"idle", "check"}
      BY <2>6 DEF InsertSucceeds, Running, Labels
    <3>4. pc[t] = "insert" /\ CountAttempt(t) /\ Goto(t, "device") /\ UNCHANGED job
      BY <2>6 DEF InsertSucceeds
    <3>5. TaskTypes'
      BY <3>3, <3>4, InsertedType
    <3> QED
      BY <2>16, <2>6, <3>2, <3>5 DEF InsertSucceeds, TypeOK, TaskTypes
  <2>7. CASE InsertFails(t)
    <3>1. EventOf(t) \in Events
      BY <2>7, RunningJob DEF InsertFails, Running
    <3>2. /\ rows' \in [Events -> Nat]
          /\ misses' \in [Events -> Nat]
          /\ budget' \in [Faults -> Nat]
      BY <2>7, <3>1, CountType, SpendType DEF InsertFails, TypeOK
    <3>3. AfterFailedAttempt(attempt[t] + 1) = "insert" => attempt[t] + 1 < RetryMaxAttempts
      BY DEF AfterFailedAttempt
    <3>4. AfterFailedAttempt(attempt[t] + 1) \in {"insert", "release"}
      BY DEF AfterFailedAttempt
    <3>5. Running(t) /\ AfterFailedAttempt(attempt[t] + 1) \in Labels \ {"idle", "check"}
      BY <2>7, <3>4 DEF InsertFails, Running, Labels
    <3> HIDE DEF AfterFailedAttempt
    <3>6. CountAttempt(t) /\ Goto(t, AfterFailedAttempt(attempt[t] + 1)) /\ pc[t] = "insert"
      BY <2>7 DEF InsertFails
    <3>7. /\ UNCHANGED <<owner, committed, position, held, permits, job, keys>>
          /\ UNCHANGED <<devices, deviceState, dlqTopic, dlqTable, orphans, abandoned>>
      BY <2>7 DEF InsertFails
    <3>8. TaskTypes'
      BY <3>3, <3>5, <3>6, <3>7, InsertedType
    <3> QED
      BY <2>16, <3>2, <3>7, <3>8 DEF TypeOK, TaskTypes
  <2>8. CASE InsertRejected(t)
    <3>1. pc[t] = "insert" /\ CountAttempt(t) /\ Goto(t, "release") /\ UNCHANGED job
      BY <2>8 DEF InsertRejected
    <3>2. TaskTypes'
      BY <3>1, InsertedType DEF Labels
    <3> QED
      BY <2>16, <2>8, <3>2 DEF InsertRejected, TypeOK, TaskTypes
  <2>9. CASE EnsureDevice(t)
    <3>1. DeviceOf[EventOf(t)] \in Devices
      BY <2>9, RunningJob DEF EnsureDevice, Running
    <3>2. budget' \in [Faults -> Nat]
      BY <2>9, SpendType DEF EnsureDevice, TypeOK
    <3>3. devices' \subseteq Devices
      BY <2>9, <3>1 DEF EnsureDevice, TypeOK
    <3>4. PICK l \in {"state", "commit"} : Goto(t, l)
      BY <2>9 DEF EnsureDevice
    <3>5. /\ pc[t] = "device" /\ UNCHANGED <<owner, committed, position, held, permits, job, attempt>>
          /\ UNCHANGED <<keys, rows, deviceState, dlqTopic, dlqTable, orphans, abandoned, misses>>
      BY <2>9 DEF EnsureDevice
    <3>6. Running(t) /\ l \in Labels \ {"idle", "check"} /\ l # "insert"
      BY <3>5 DEF Running, Labels
    <3>7. TaskTypes'
      BY <3>4, <3>5, <3>6, MovedType
    <3> QED
      BY <2>16, <3>2, <3>3, <3>5, <3>7 DEF TypeOK, TaskTypes
  <2>10. CASE UpsertState(t)
    <3>1. EventOf(t) \in Events
      BY <2>10, RunningJob DEF UpsertState, Running
    <3>2. budget' \in [Faults -> Nat] /\ deviceState' \in [Devices -> DeviceRows]
      BY <2>10, <3>1, SpendType, CountType DEF UpsertState, TypeOK
    <3> QED
      BY <2>16, <2>10, <3>2 DEF UpsertState, Goto, Running, TypeOK, Labels
  <2>11. CASE ReleaseKey(t)
    <3>1. budget' \in [Faults -> Nat]
      BY <2>11, SpendType DEF ReleaseKey, TypeOK
    <3>3. keys' \subseteq Events
      BY <2>11 DEF ReleaseKey, DropKey, TypeOK
    <3>4. misses' \in [Events -> Nat]
      <4>1. EventOf(t) \in Events /\ Upper[EventOf(t)] \in Events
        BY <2>11, RunningJob DEF ReleaseKey, Running
      <4>2. \/ misses' = misses
            \/ misses' = [misses EXCEPT ![Upper[EventOf(t)]] = @ + 1]
        BY <2>11 DEF ReleaseKey, DropKey
      <4> QED
        BY <4>1, <4>2, CountType DEF TypeOK
    <3>5. UNCHANGED <<orphans, abandoned>>
      BY <2>11 DEF ReleaseKey
    <3> QED
      BY <2>16, <2>11, <3>1, <3>3, <3>4, <3>5 DEF ReleaseKey, Goto, Running, TypeOK, Labels
  <2>12. CASE PublishDeadLetter(t)
    <3>1. Envelope(t) \in Envelopes
      BY <2>12, EnvelopeType DEF PublishDeadLetter, Running
    <3>2. budget' \in [Faults -> Nat] /\ dlqTopic' \subseteq Envelopes
      BY <2>12, <3>1, SpendType DEF PublishDeadLetter, TypeOK
    <3> QED
      BY <2>16, <2>12, <3>2 DEF PublishDeadLetter, Goto, Running, TypeOK, Labels
  <2>13. CASE RecordDeadLetter(t)
    <3>1. Envelope(t) \in Envelopes /\ EventOf(t) \in Events
      BY <2>13, EnvelopeType, RunningJob DEF RecordDeadLetter, Running
    <3>2. /\ budget' \in [Faults -> Nat]
          /\ dlqTable' \subseteq Envelopes
          /\ abandoned' \subseteq Events
      BY <2>13, <3>1, SpendType DEF RecordDeadLetter, Abandon, TypeOK
    <3> QED
      BY <2>16, <2>13, <3>2 DEF RecordDeadLetter, Goto, Running, TypeOK, Labels
  <2>14. CASE CommitOffset(t)
    <3>1. Running(t) /\ committed' \in [Partitions -> Nat \ {0}]
      BY <2>14, CommitType DEF CommitOffset, Running
    <3> QED
      BY <2>16, <2>14, <3>1, FinishType DEF CommitOffset, Running, TypeOK
  <2>15. CASE CommitFails(t)
    <3>1. Running(t)
      BY <2>15 DEF CommitFails, Running
    <3>2. committed' \in [Partitions -> Nat \ {0}] /\ budget' \in [Faults -> Nat]
      BY <2>15, <3>1, CommitType, SpendType DEF CommitFails, TypeOK
    <3> QED
      BY <2>16, <2>15, <3>1, <3>2, FinishType DEF CommitFails, Running, TypeOK
  <2> QED
    BY <1>8, <2>1, <2>2, <2>3, <2>4, <2>5, <2>6, <2>7, <2>8, <2>9, <2>10, <2>11, <2>12,
       <2>13, <2>14, <2>15 DEF TaskStep
<1>9. CASE UNCHANGED vars
  BY <1>9 DEF vars, TypeOK, Running
<1> QED
  BY <1>1, <1>2, <1>3, <1>4, <1>5, <1>6, <1>7, <1>8, <1>9 DEF Next, LoopStep

\* Every variable of the worker service has its type in every reachable state,
\* whatever the log, the number of workers and the faults.
THEOREM TypeCorrect == Spec => []TypeOK
BY InitType, NextType, PTL DEF Spec

-----------------------------------------------------------------------------
(***************************************************************************)
(* What a step can do to one task and to one loop.                         *)
(***************************************************************************)

SameTask(u) ==
  /\ pc'[u] = pc[u]
  /\ job'[u] = job[u]
  /\ attempt'[u] = attempt[u]
  /\ retries'[u] = retries[u]

\* A step of the specification leaves a task where it is, moves it itself, ends
\* its process, or starts it.
LEMMA TaskFrame ==
  ASSUME TypeOK, Next, NEW u \in Tasks
  PROVE  \/ SameTask(u)
         \/ TaskStep(u)
         \/ \E w \in Workers : u \in RunningOn(w) /\ Exit(w)
         \/ \E w \in Workers : SpawnTask(w, u)
<1> USE DEF taskVars, SameTask
<1>1. CASE JoinGroup \/ Rebalance
  BY <1>1 DEF JoinGroup, Rebalance, Assign
<1>2. ASSUME NEW w \in Workers, Exit(w)
      PROVE  \/ SameTask(u)
             \/ u \in RunningOn(w)
  BY <1>2 DEF Exit
<1>3. ASSUME NEW w \in Workers, NEW p \in Partitions, Poll(w, p)
      PROVE  SameTask(u)
  BY <1>3 DEF Poll
<1>4. ASSUME NEW w \in Workers, NEW t \in Tasks, SpawnTask(w, t), t # u
      PROVE  SameTask(u)
  BY <1>4 DEF SpawnTask, TypeOK
<1>5. ASSUME NEW e \in Events, EvictKey(e)
      PROVE  SameTask(u)
  BY <1>5 DEF EvictKey
<1>6. ASSUME NEW t \in Tasks, TaskStep(t), t # u
      PROVE  SameTask(u)
  BY <1>6 DEF TaskStep, SkipCheck, Claim, SkipDuplicate, CheckFailsOpen, ProcessRaises,
       InsertSucceeds, InsertFails, InsertRejected, EnsureDevice, UpsertState, ReleaseKey,
       PublishDeadLetter, RecordDeadLetter, CommitOffset, CommitFails, Finish, Goto, CountAttempt,
       CountRetry, TypeOK
<1> QED
  BY <1>1, <1>2, <1>3, <1>4, <1>5, <1>6 DEF Next, LoopStep, Crash, FetchFails, PollPoison

\* What is settled stays settled: rows and dead letters are never taken back.
LEMMA SettledStays ==
  ASSUME TypeOK, Next, NEW e \in Events, Settled(e)
  PROVE  Settled(e)'
<1>1. /\ orphans \subseteq orphans' /\ abandoned \subseteq abandoned'
      /\ dlqTopic \subseteq dlqTopic' /\ dlqTable \subseteq dlqTable'
  BY DEF Next, LoopStep, TaskStep, SkipCheck, Claim, SkipDuplicate, CheckFailsOpen,
       ProcessRaises, InsertSucceeds, InsertFails, InsertRejected, EnsureDevice,
       UpsertState, ReleaseKey, PublishDeadLetter, RecordDeadLetter, Abandon, CommitOffset,
       CommitFails, JoinGroup, Rebalance, Assign, Crash, FetchFails, Poll, PollPoison, Exit,
       SpawnTask, EvictKey, dlqVars, historyVars
<1>2. rows' = rows \/ \E f \in Events : StoreRow(f)
  BY RunningJob DEF Next, LoopStep, TaskStep, SkipCheck, Claim, SkipDuplicate, CheckFailsOpen,
       ProcessRaises, InsertSucceeds, InsertFails, InsertRejected, EnsureDevice,
       UpsertState, ReleaseKey, PublishDeadLetter, RecordDeadLetter, CommitOffset,
       CommitFails, JoinGroup, Rebalance, Assign, Crash, FetchFails, Poll, PollPoison, Exit,
       SpawnTask, EvictKey, sinkVars, Running
<1>3. rows[e] > 0 => rows'[e] > 0
  BY <1>2 DEF StoreRow, TypeOK
<1> QED
  BY <1>1, <1>3 DEF Settled, Handled, DeadLettered, In

\* A task that is past the check, or that leaves it, has its event backed.
LEMMA TaskBacked ==
  ASSUME TypeOK, KeysBacked, NEW t \in Tasks, TaskStep(t), pc[t] \in Undecided,
         NEW e \in Events, e = EventOf(t)
  PROVE  Backed(e)'
<1> USE DEF Backed, Settled
<1>1. ASSUME NEW l \in Undecided \ {"check"}, pc' = [pc EXCEPT ![t] = l], job' = job
      PROVE  Backed(e)'
  BY <1>1 DEF AtWork, EventOf, TypeOK
<1>2. CASE SkipCheck(t) \/ Claim(t) \/ CheckFailsOpen(t)
  BY <1>1, <1>2, NextLabel
     DEF SkipCheck, Claim, CheckFailsOpen, Goto, Undecided
<1>3. CASE SkipDuplicate(t)
  <2>1. e \in keys
    BY <1>3 DEF SkipDuplicate, IsNew
  <2>2. Backed(e)
    BY <2>1 DEF KeysBacked
  <2>3. CASE Settled(e)
    BY <2>3, <1>3 DEF SkipDuplicate, sinkVars, dlqVars, historyVars, Handled, DeadLettered, In
  <2>4. ASSUME NEW u \in Tasks, pc[u] \in Undecided \ {"check"}, EventOf(u) = e
        PROVE  Backed(e)'
    <3>1. u # t /\ pc'[u] = pc[u] /\ job' = job
      BY <2>4, <1>3 DEF SkipDuplicate, Goto, TypeOK
    <3> QED
      BY <2>4, <3>1 DEF AtWork, EventOf
  <2> QED
    BY <2>2, <2>3, <2>4 DEF AtWork
<1>4. CASE ProcessRaises(t)
  BY <1>4 DEF ProcessRaises
<1>5. CASE InsertSucceeds(t)
  BY <1>5 DEF InsertSucceeds, StoreRow, Handled, TypeOK
<1>6. CASE InsertFails(t)
  <2>1. AfterFailedAttempt(attempt[t] + 1) \in Undecided \ {"check"}
    BY DEF AfterFailedAttempt, Undecided
  <2> QED
    BY <1>1, <1>6, <2>1 DEF InsertFails, Goto
<1>7. CASE InsertRejected(t) \/ ReleaseKey(t) \/ PublishDeadLetter(t)
  BY <1>1, <1>7 DEF InsertRejected, ReleaseKey, PublishDeadLetter, Goto, Undecided
<1>8. CASE RecordDeadLetter(t)
  BY <1>8 DEF RecordDeadLetter, Abandon, Handled, DeadLettered, In
<1>9. ~(EnsureDevice(t) \/ UpsertState(t) \/ CommitOffset(t) \/ CommitFails(t))
  BY DEF EnsureDevice, UpsertState, CommitOffset, CommitFails, Undecided
<1> QED
  BY <1>2, <1>3, <1>4, <1>5, <1>6, <1>7, <1>8, <1>9 DEF TaskStep

\* A process that ends leaves the events it had in flight as orphans.
LEMMA ExitOrphans ==
  ASSUME NEW w \in Workers, Exit(w)
  PROVE  /\ \A u \in RunningOn(w) : pc[u] \in Undecided => EventOf(u) \in orphans'
         /\ held[w] # NoMsg => EventAt(held[w]) \in orphans'
BY DEF Exit, InFlightAt

\* The event of a task that has not decided yet stays accounted for, and
\* backed if the task is past the check.
LEMMA UndecidedStays ==
  ASSUME TypeOK, KeysBacked, Next, NEW u \in Tasks, pc[u] \in Undecided,
         NEW e \in Events, e = EventOf(u)
  PROVE  /\ Accounted(e)'
         /\ pc[u] # "check" => Backed(e)'
<1>1. CASE pc'[u] = pc[u] /\ job'[u] = job[u]
  BY <1>1 DEF Accounted, Backed, Pending, AtWork, EventOf
<1>2. CASE TaskStep(u)
  BY <1>2, TaskBacked DEF Accounted, Backed, Pending, AtWork
<1>3. ASSUME NEW w \in Workers, u \in RunningOn(w), Exit(w)
      PROVE  Settled(e)'
  BY <1>3, ExitOrphans DEF Settled
<1>4. ASSUME NEW w \in Workers, SpawnTask(w, u)
      PROVE  FALSE
  BY <1>4 DEF SpawnTask, Running, Undecided
<1> QED
  BY <1>1, <1>2, <1>3, <1>4, TaskFrame DEF SameTask, Accounted, Backed

\* The event of the record a loop holds stays accounted for.
LEMMA HeldStays ==
  ASSUME TypeOK, Next, NEW w \in Workers, held[w] # NoMsg,
         NEW e \in Events, e = EventAt(held[w])
  PROVE  Accounted(e)'
<1>1. CASE held'[w] = held[w]
  BY <1>1 DEF Accounted, Pending, HeldEvents
<1>2. CASE Exit(w)
  BY <1>2, ExitOrphans DEF Accounted, Settled
<1>3. ASSUME NEW t \in Tasks, SpawnTask(w, t)
      PROVE  Accounted(e)'
  <2>1. /\ pc'[t] = "check"
        /\ job'[t] = [by |-> w, part |-> held[w].part, off |-> held[w].off]
    BY <1>3 DEF SpawnTask, TypeOK
  <2> QED
    BY <2>1 DEF Accounted, Pending, AtWork, EventOf, EventAt, Undecided
<1>4. held'[w] = held[w] \/ Exit(w) \/ \E t \in Tasks : SpawnTask(w, t)
  <2>1. ASSUME NEW t \in Tasks, TaskStep(t) PROVE held' = held
    BY <2>1 DEF TaskStep, SkipCheck, Claim, SkipDuplicate, CheckFailsOpen, ProcessRaises,
       InsertSucceeds, InsertFails, InsertRejected, EnsureDevice, UpsertState, ReleaseKey,
       PublishDeadLetter, RecordDeadLetter, CommitOffset, CommitFails, loopVars
  <2>2. CASE JoinGroup \/ Rebalance \/ \E e2 \in Events : EvictKey(e2)
    BY <2>2 DEF JoinGroup, Rebalance, Assign, EvictKey, loopVars
  <2>3. ASSUME NEW v \in Workers, Crash(v) \/ FetchFails(v) \/ LoopStep(v)
        PROVE  held'[w] = held[w] \/ Exit(w) \/ \E t \in Tasks : SpawnTask(w, t)
    <3>1. Exit(v) => held'[w] = held[w] \/ v = w
      BY DEF Exit, TypeOK
    <3>2. ASSUME NEW p \in Partitions, Poll(v, p) PROVE held'[w] = held[w]
      BY <3>2 DEF Poll, CanPoll, TypeOK
    <3>3. ASSUME NEW t \in Tasks, SpawnTask(v, t) PROVE held'[w] = held[w] \/ v = w
      BY <3>3 DEF SpawnTask, TypeOK
    <3> QED
      BY <2>3, <3>1, <3>2, <3>3 DEF Crash, FetchFails, LoopStep, PollPoison
  <2> QED
    BY <2>1, <2>2, <2>3 DEF Next
<1> QED
  BY <1>1, <1>2, <1>3, <1>4

\* No step makes an event unaccounted for, or takes its backing away.
LEMMA AccountedStays ==
  ASSUME TypeOK, KeysBacked, Next, NEW e \in Events
  PROVE  /\ Accounted(e) => Accounted(e)'
         /\ Backed(e) => Backed(e)'
<1>1. Settled(e) => Settled(e)'
  BY SettledStays
<1>2. AtWork(e, Undecided) => Accounted(e)'
  BY UndecidedStays DEF AtWork
<1>3. AtWork(e, Undecided \ {"check"}) => Backed(e)'
  BY UndecidedStays DEF AtWork
<1>4. e \in HeldEvents => Accounted(e)'
  BY HeldStays DEF HeldEvents
<1> QED
  BY <1>1, <1>2, <1>3, <1>4 DEF Accounted, Backed, Pending

\* A key that a step sets is the key of a task that goes past the check.
LEMMA KeysBackedStays ==
  ASSUME TypeOK, KeysBacked, Next
  PROVE  KeysBacked'
<1>1. ASSUME NEW e \in keys' \ keys
      PROVE  \E t \in Tasks : TaskStep(t) /\ pc[t] \in Undecided /\ e = EventOf(t)
  <2>1. CASE \E t \in Tasks : TaskStep(t)
    <3>1. PICK t \in Tasks : TaskStep(t)
      BY <2>1
    <3>2. pc[t] = "check" /\ e = EventOf(t)
      BY <1>1, <3>1 DEF TaskStep, SkipCheck, Claim, SkipDuplicate, CheckFailsOpen,
         ProcessRaises, InsertSucceeds, InsertFails, InsertRejected, EnsureDevice,
         UpsertState, ReleaseKey, DropKey, PublishDeadLetter, RecordDeadLetter, CommitOffset,
         CommitFails
    <3> QED
      BY <3>1, <3>2 DEF Undecided
  <2>2. CASE ~ \E t \in Tasks : TaskStep(t)
    <3>1. keys' \subseteq keys
      BY <2>2 DEF Next, LoopStep, JoinGroup, Rebalance, Assign, Crash, FetchFails, Poll,
         PollPoison, Exit,
         SpawnTask, EvictKey
    <3> QED
      BY <1>1, <3>1
  <2> QED
    BY <2>1, <2>2
<1>2. keys' \subseteq Events
  BY NextType DEF TypeOK
<1>3. ASSUME NEW e \in keys' PROVE Backed(e)'
  <2>1. CASE e \in keys
    BY <1>2, <2>1, AccountedStays DEF KeysBacked
  <2>2. CASE e \notin keys
    BY <1>1, <1>2, <2>2, TaskBacked
  <2> QED
    BY <2>1, <2>2
<1> QED
  BY <1>3 DEF KeysBacked

\* A task comes to its commit, or to the device state, with its event backed.
LEMMA DecidedBackedStays ==
  ASSUME TypeOK, KeysBacked, DecidedBacked, Next
  PROVE  DecidedBacked'
<1> SUFFICES ASSUME NEW u \in Tasks, pc'[u] \in {"device", "state", "commit"}
             PROVE  Backed(EventOf(u))'
  BY DEF DecidedBacked
<1> DEFINE e == EventOf(u)
<1>1. CASE pc'[u] = pc[u] /\ job'[u] = job[u]
  <2>1. Running(u) /\ Backed(e) /\ EventOf(u)' = e
    BY <1>1 DEF DecidedBacked, Running, EventOf
  <2>2. e \in Events
    BY <2>1, RunningJob
  <2> QED
    BY <2>1, <2>2, AccountedStays DEF EventOf, Backed, AtWork
<1>2. CASE TaskStep(u)
  <2>1. Running(u) /\ job' = job
    BY <1>2 DEF TaskStep, SkipCheck, Claim, SkipDuplicate, CheckFailsOpen, ProcessRaises,
       InsertSucceeds, InsertFails, InsertRejected, EnsureDevice, UpsertState, ReleaseKey,
       PublishDeadLetter, RecordDeadLetter, CommitOffset, CommitFails, Finish, Running, TypeOK
  <2>2. e \in Events
    BY <2>1, RunningJob
  <2>3. CASE pc[u] \in Undecided
    BY <1>2, <2>1, <2>2, <2>3, TaskBacked DEF EventOf, Backed, AtWork
  <2>4. CASE pc[u] \notin Undecided
    <3>1. Backed(e)
      BY <2>1, <2>4 DEF DecidedBacked, Running, TypeOK, Labels, Undecided
    <3> QED
      BY <2>1, <2>2, <3>1, AccountedStays DEF EventOf, Backed, AtWork
  <2> QED
    BY <2>3, <2>4
<1>3. ASSUME NEW w \in Workers, u \in RunningOn(w), Exit(w)
      PROVE  FALSE
  BY <1>3 DEF Exit, TypeOK
<1>4. ASSUME NEW w \in Workers, SpawnTask(w, u)
      PROVE  FALSE
  BY <1>4 DEF SpawnTask, TypeOK
<1> QED
  BY <1>1, <1>2, <1>3, <1>4, TaskFrame DEF SameTask

\* A step moves past a record only by polling it: any other offset that a
\* committed offset, a position, a loop or a task is past was passed before.
LEMMA PassedBefore ==
  ASSUME TypeOK, Next, NEW p \in Partitions, NEW o \in 1..Len(Log[p]), Passed(p, o)'
  PROVE  \/ Passed(p, o)
         \/ \E w \in Workers : Poll(w, p) /\ o = position[p]
<1> USE DEF Passed
<1>1. CASE JoinGroup \/ Rebalance
  BY <1>1 DEF JoinGroup, Rebalance, Assign, loopVars, taskVars, Running
<1>2. ASSUME NEW w \in Workers, Exit(w) PROVE Passed(p, o)
  BY <1>2 DEF Exit, TypeOK, Running
<1>3. ASSUME NEW w \in Workers, NEW q \in Partitions, Poll(w, q)
      PROVE  \/ Passed(p, o)
             \/ Poll(w, p) /\ o = position[p]
  <2>1. held' = [held EXCEPT ![w] = NextMsg(q)] /\ position' = [position EXCEPT ![q] = @ + 1]
    BY <1>3 DEF Poll
  <2>2. committed' = committed /\ pc' = pc /\ job' = job
    BY <1>3 DEF Poll, taskVars
  <2>3. CASE o < position'[p]
    BY <2>1, <2>3, <1>3 DEF TypeOK
  <2>4. CASE held'[w].part = p /\ o <= held'[w].off
    <3>1. q = p /\ o <= position[p]
      BY <2>1, <2>4 DEF NextMsg, TypeOK
    <3> QED
      BY <3>1, <1>3 DEF TypeOK
  <2>5. \A v \in Workers \ {w} : held'[v] = held[v]
    BY <2>1 DEF TypeOK
  <2> QED
    BY <2>2, <2>3, <2>4, <2>5 DEF Running
<1>4. ASSUME NEW w \in Workers, NEW t \in Tasks, SpawnTask(w, t) PROVE Passed(p, o)
  <2>1. /\ held' = [held EXCEPT ![w] = NoMsg]
        /\ pc' = [pc EXCEPT ![t] = "check"]
        /\ job' = [job EXCEPT ![t] = [by |-> w, part |-> held[w].part, off |-> held[w].off]]
        /\ held[w] # NoMsg
        /\ committed' = committed /\ position' = position
    BY <1>4 DEF SpawnTask, groupVars
  <2>2. CASE job'[t].part = p /\ o <= job'[t].off
    BY <2>1, <2>2 DEF TypeOK
  <2>3. \A u \in Tasks \ {t} : job'[u] = job[u] /\ pc'[u] = pc[u]
    BY <2>1 DEF TypeOK
  <2>4. \A v \in Workers : held'[v] = NoMsg \/ held'[v] = held[v]
    BY <2>1 DEF TypeOK
  <2> QED
    BY <2>1, <2>2, <2>3, <2>4 DEF Running
<1>5. ASSUME NEW e \in Events, EvictKey(e) PROVE Passed(p, o)
  BY <1>5 DEF EvictKey, groupVars, loopVars, taskVars, Running
<1>6. ASSUME NEW t \in Tasks, TaskStep(t) PROVE Passed(p, o)
  <2>1. position' = position /\ held' = held
    BY <1>6 DEF TaskStep, SkipCheck, Claim, SkipDuplicate, CheckFailsOpen, ProcessRaises,
       InsertSucceeds, InsertFails, InsertRejected, EnsureDevice, UpsertState, ReleaseKey,
       PublishDeadLetter, RecordDeadLetter, CommitOffset, CommitFails, groupVars, loopVars
  <2>2. committed' = committed \/ SetCommitted(t)
    BY <1>6 DEF TaskStep, SkipCheck, Claim, SkipDuplicate, CheckFailsOpen, ProcessRaises,
       InsertSucceeds, InsertFails, InsertRejected, EnsureDevice, UpsertState, ReleaseKey,
       PublishDeadLetter, RecordDeadLetter, CommitOffset, CommitFails, groupVars
  <2>3. Running(t) /\ job[t].off \in Nat
    <3>1. Running(t)
      BY <1>6 DEF TaskStep, SkipCheck, Claim, SkipDuplicate, CheckFailsOpen, ProcessRaises,
       InsertSucceeds, InsertFails, InsertRejected, EnsureDevice, UpsertState, ReleaseKey,
       PublishDeadLetter, RecordDeadLetter, CommitOffset, CommitFails, Running
    <3> QED
      BY <3>1, RunningJob
  <2>4. o < committed'[p] => o < committed[p] \/ (job[t].part = p /\ o <= job[t].off)
    <3>1. \/ committed'[p] = committed[p]
          \/ job[t].part = p /\ committed'[p] = job[t].off + 1
      BY <2>2 DEF SetCommitted, TypeOK
    <3>2. o \in Int
      BY ConstantsAssumption
    <3> QED
      BY <2>3, <3>1, <3>2
  <2>5. \A u \in Tasks : Running(u)' => Running(u) /\ job'[u] = job[u]
    BY <1>6, <2>3 DEF TaskStep, SkipCheck, Claim, SkipDuplicate, CheckFailsOpen, ProcessRaises,
       InsertSucceeds, InsertFails, InsertRejected, EnsureDevice, UpsertState, ReleaseKey,
       PublishDeadLetter, RecordDeadLetter, CommitOffset, CommitFails, Running, Goto, Finish,
       TypeOK
  <2> QED
    BY <2>1, <2>3, <2>4, <2>5
<1> QED
  BY <1>1, <1>2, <1>3, <1>4, <1>5, <1>6 DEF Next, LoopStep, Crash, FetchFails, PollPoison

\* A record that is passed stays accounted for, and one that is polled is held.
LEMMA PassedAccountedStays ==
  ASSUME TypeOK, KeysBacked, PassedAccounted, Next
  PROVE  PassedAccounted'
<1> SUFFICES ASSUME NEW p \in Partitions, NEW o \in 1..Len(Log[p]), Passed(p, o)'
             PROVE  Accounted(Log[p][o])'
  BY DEF PassedAccounted
<1>1. Log[p][o] \in Events
  BY ConstantsAssumption
<1>2. CASE Passed(p, o)
  BY <1>1, <1>2, AccountedStays DEF PassedAccounted
<1>3. ASSUME NEW w \in Workers, Poll(w, p), o = position[p]
      PROVE  Accounted(Log[p][o])'
  <2>1. held'[w] = [part |-> p, off |-> o] /\ held'[w] # NoMsg
    BY <1>3, ConstantsAssumption DEF Poll, NextMsg, TypeOK
  <2> QED
    BY <2>1 DEF Accounted, Pending, HeldEvents, EventAt
<1> QED
  BY <1>2, <1>3, PassedBefore

\* A step that changes none of the variables LossInv is about.
LEMMA SameLoss ==
  ASSUME LossInv, UNCHANGED <<keys, committed, position, held, pc, job>>,
         UNCHANGED <<rows, dlqTopic, dlqTable, orphans, abandoned>>
  PROVE  LossInv'
<1>1. \A t : EventOf(t)' = EventOf(t) /\ (Running(t)' <=> Running(t))
  BY DEF EventOf, EventAt, Running
<1>2. \A e, L : (AtWork(e, L)' <=> AtWork(e, L)) /\ (Settled(e)' <=> Settled(e))
  BY <1>1 DEF AtWork, Settled, Handled, DeadLettered, In
<1>3. HeldEvents' = HeldEvents
  BY DEF HeldEvents, EventAt
<1>4. \A e : (Accounted(e)' <=> Accounted(e)) /\ (Backed(e)' <=> Backed(e))
  BY <1>2, <1>3 DEF Accounted, Backed, Pending
<1>5. \A p, o : Passed(p, o)' <=> Passed(p, o)
  BY <1>1 DEF Passed
<1> QED
  BY <1>1, <1>4, <1>5 DEF LossInv, KeysBacked, DecidedBacked, PassedAccounted

\* LossInv is inductive.
LEMMA LossInvStays == TypeOK /\ LossInv /\ [Next]_vars => LossInv'
<1>1. ASSUME TypeOK, LossInv, Next PROVE LossInv'
  BY <1>1, KeysBackedStays, DecidedBackedStays, PassedAccountedStays DEF LossInv
<1>2. ASSUME LossInv, UNCHANGED vars PROVE LossInv'
  BY <1>2, SameLoss DEF vars, groupVars, loopVars, taskVars, sinkVars, dlqVars, historyVars
<1> QED
  BY <1>1, <1>2

\* Initially no key is set, no task runs, and no record is passed.
LEMMA LossInvInit == Init => LossInv
<1> SUFFICES ASSUME Init PROVE LossInv
  OBVIOUS
<1>1. \A p \in Partitions : \A o \in 1..Len(Log[p]) : ~Passed(p, o)
  BY DEF Init, Passed, Running
<1> QED
  BY <1>1 DEF Init, LossInv, KeysBacked, DecidedBacked, PassedAccounted

\* It says that what the group committed past is accounted for.
LEMMA LossInvSuffices == LossInv => NoSilentLoss
BY DEF LossInv, PassedAccounted, Passed, NoSilentLoss

\* The group never commits past a record whose event is neither stored nor
\* dead-lettered nor in flight, unless a process crashed with the event in
\* flight or the dead letter path failed.
THEOREM NothingSilentlyLost == Spec => []NoSilentLoss
<1> QED
  BY LossInvSuffices, TypeCorrect, LossInvInit, LossInvStays, PTL DEF Spec

-----------------------------------------------------------------------------
(***************************************************************************)
(* Counting tasks: permits, and claims on keys.                            *)
(***************************************************************************)

\* A set of tasks is finite, and one task more or less counts as one.
LEMMA CountTasks ==
  ASSUME NEW S, S \subseteq Tasks, NEW t \in Tasks
  PROVE  /\ Cardinality(S) \in Nat
         /\ Cardinality(S \cup {t}) = Cardinality(S) + (IF t \in S THEN 0 ELSE 1)
         /\ Cardinality(S \ {t}) = Cardinality(S) - (IF t \in S THEN 1 ELSE 0)
<1>1. IsFiniteSet(S)
  BY FS_Subset, ConstantsAssumption
<1>2. Cardinality(S) \in Nat
  BY <1>1, FS_CardinalityType
<1>3. Cardinality(S \cup {t}) = Cardinality(S) + (IF t \in S THEN 0 ELSE 1)
  BY <1>1, <1>2, FS_AddElement
<1>4. Cardinality(S \ {t}) = Cardinality(S) - (IF t \in S THEN 1 ELSE 0)
  <2>1. CASE t \in S
    BY <1>1, <1>2, <2>1, FS_RemoveElement
  <2>2. CASE t \notin S
    <3>1. S \ {t} = S
      BY <2>2
    <3> QED
      BY <1>2, <2>2, <3>1
  <2> QED
    BY <2>1, <2>2
<1> QED
  BY <1>2, <1>3, <1>4

\* The tasks a worker runs change by the task that starts or ends, and a
\* process that ends leaves none.
LEMMA RunningStep ==
  ASSUME TypeOK, Next, NEW w \in Workers
  PROVE  \/ RunningOn(w)' = RunningOn(w) /\ permits'[w] = permits[w]
         \/ RunningOn(w)' = {} /\ permits'[w] = MaxConcurrentTasks
         \/ \E t \in Tasks \ RunningOn(w) :
              RunningOn(w)' = RunningOn(w) \cup {t} /\ permits'[w] = permits[w] - 1
         \/ \E t \in RunningOn(w) :
              RunningOn(w)' = RunningOn(w) \ {t} /\ permits'[w] = permits[w] + 1
<1> DEFINE Same(v) == RunningOn(v)' = RunningOn(v) /\ permits'[v] = permits[v]
<1>1. CASE JoinGroup \/ Rebalance
  BY <1>1 DEF JoinGroup, Rebalance, Assign, RunningOn, Running, taskVars, loopVars
<1>2. ASSUME NEW v \in Workers, Exit(v)
      PROVE  \/ v = w /\ RunningOn(w)' = {} /\ permits'[w] = MaxConcurrentTasks
             \/ Same(w)
  <2>1. CASE v = w
    BY <1>2, <2>1 DEF Exit, RunningOn, Running, TypeOK
  <2>2. CASE v # w
    <3>1. permits'[w] = permits[w]
      BY <1>2, <2>2 DEF Exit, TypeOK
    <3>2. \A t \in Tasks : t \in RunningOn(w)' <=> t \in RunningOn(w)
      BY <1>2, <2>2 DEF Exit, RunningOn, Running, TypeOK
    <3> QED
      BY <3>1, <3>2 DEF RunningOn
  <2> QED
    BY <2>1, <2>2
<1>3. ASSUME NEW v \in Workers, NEW p \in Partitions, Poll(v, p)
      PROVE  Same(w)
  BY <1>3 DEF Poll, RunningOn, Running, taskVars
<1>4. ASSUME NEW v \in Workers, NEW t \in Tasks, SpawnTask(v, t)
      PROVE  \/ /\ t \in Tasks \ RunningOn(w)
                /\ RunningOn(w)' = RunningOn(w) \cup {t} /\ permits'[w] = permits[w] - 1
             \/ Same(w)
  <2>1. /\ ~Running(t) /\ Running(t)' /\ job'[t].by = v
        /\ permits' = [permits EXCEPT ![v] = @ - 1]
        /\ \A u \in Tasks \ {t} : pc'[u] = pc[u] /\ job'[u] = job[u]
    BY <1>4 DEF SpawnTask, Running, TypeOK
  <2>2. \A u \in Tasks \ {t} : u \in RunningOn(w)' <=> u \in RunningOn(w)
    BY <2>1 DEF RunningOn, Running
  <2>3. t \notin RunningOn(w)
    BY <2>1 DEF RunningOn
  <2>4. t \in RunningOn(w)' <=> v = w
    BY <2>1 DEF RunningOn
  <2> QED
    BY <2>1, <2>2, <2>3, <2>4 DEF RunningOn, TypeOK
<1>5. ASSUME NEW e \in Events, EvictKey(e)
      PROVE  Same(w)
  BY <1>5 DEF EvictKey, RunningOn, Running, taskVars, loopVars
<1>6. ASSUME NEW t \in Tasks, TaskStep(t), ~Finish(t)
      PROVE  Same(w)
  <2>1. permits' = permits /\ job' = job
    BY <1>6 DEF TaskStep, SkipCheck, Claim, SkipDuplicate, CheckFailsOpen, ProcessRaises,
       InsertSucceeds, InsertFails, InsertRejected, EnsureDevice, UpsertState, ReleaseKey,
       PublishDeadLetter, RecordDeadLetter, CommitOffset, CommitFails, loopVars
  <2>2. \A u \in Tasks : Running(u)' <=> Running(u)
    BY <1>6, NextLabel DEF TaskStep, SkipCheck, Claim, SkipDuplicate, CheckFailsOpen,
       ProcessRaises, InsertSucceeds, InsertFails, InsertRejected, EnsureDevice, UpsertState,
       ReleaseKey, PublishDeadLetter, RecordDeadLetter, CommitOffset, CommitFails, Goto,
       AfterValidation, AfterFailedAttempt, Running, TypeOK
  <2> QED
    BY <2>1, <2>2 DEF RunningOn
<1>7. ASSUME NEW t \in Tasks, TaskStep(t), Finish(t)
      PROVE  \/ /\ t \in RunningOn(w)
                /\ RunningOn(w)' = RunningOn(w) \ {t} /\ permits'[w] = permits[w] + 1
             \/ Same(w)
  <2>1. Running(t)
    BY <1>7 DEF TaskStep, SkipCheck, Claim, SkipDuplicate, CheckFailsOpen, ProcessRaises,
       InsertSucceeds, InsertFails, InsertRejected, EnsureDevice, UpsertState, ReleaseKey,
       PublishDeadLetter, RecordDeadLetter, CommitOffset, CommitFails, Running
  <2>2. job[t].by \in Workers
    BY <2>1, RunningJob
  <2>3. /\ ~Running(t)'
        /\ permits' = [permits EXCEPT ![job[t].by] = @ + 1]
        /\ \A u \in Tasks \ {t} : pc'[u] = pc[u] /\ job'[u] = job[u]
    BY <1>7 DEF Finish, Running, TypeOK
  <2>4. \A u \in Tasks \ {t} : u \in RunningOn(w)' <=> u \in RunningOn(w)
    BY <2>3 DEF RunningOn, Running
  <2>5. t \notin RunningOn(w)'
    BY <2>3 DEF RunningOn
  <2>6. t \in RunningOn(w) <=> job[t].by = w
    BY <2>1 DEF RunningOn
  <2> QED
    BY <2>2, <2>3, <2>4, <2>5, <2>6 DEF RunningOn, TypeOK
<1> QED
  BY <1>1, <1>2, <1>3, <1>4, <1>5, <1>6, <1>7 DEF Next, LoopStep, Crash, FetchFails, PollPoison

\* Initially every permit is free.
LEMMA PermitsInit == Init => PermitsConserved
<1> SUFFICES ASSUME Init, NEW w \in Workers
             PROVE  permits[w] + Cardinality(RunningOn(w)) = MaxConcurrentTasks
  BY DEF PermitsConserved
<1>1. RunningOn(w) = {}
  BY DEF Init, RunningOn, Running
<1>2. Cardinality(RunningOn(w)) = 0
  BY <1>1, FS_EmptySet
<1> QED
  BY <1>2, ConstantsAssumption DEF Init

\* Every step keeps the sum of permits and running tasks.
LEMMA PermitsStay == TypeOK /\ PermitsConserved /\ [Next]_vars => PermitsConserved'
<1>1. ASSUME TypeOK, PermitsConserved, Next PROVE PermitsConserved'
  <2> SUFFICES ASSUME NEW w \in Workers
               PROVE  permits'[w] + Cardinality(RunningOn(w)') = MaxConcurrentTasks
    BY DEF PermitsConserved
  <2>1. RunningOn(w) \subseteq Tasks /\ permits[w] \in Nat
    BY <1>1 DEF RunningOn, TypeOK
  <2>2. permits[w] + Cardinality(RunningOn(w)) = MaxConcurrentTasks
    BY <1>1 DEF PermitsConserved
  <2>3. CASE RunningOn(w)' = RunningOn(w) /\ permits'[w] = permits[w]
    BY <2>2, <2>3
  <2>4. CASE RunningOn(w)' = {} /\ permits'[w] = MaxConcurrentTasks
    BY <2>4, FS_EmptySet, ConstantsAssumption
  <2>5. ASSUME NEW t \in Tasks \ RunningOn(w),
               RunningOn(w)' = RunningOn(w) \cup {t}, permits'[w] = permits[w] - 1
        PROVE  permits'[w] + Cardinality(RunningOn(w)') = MaxConcurrentTasks
    <3>1. /\ Cardinality(RunningOn(w)) \in Nat
          /\ Cardinality(RunningOn(w) \cup {t}) = Cardinality(RunningOn(w)) + 1
      BY <2>1, CountTasks
    <3> QED
      BY <2>1, <2>2, <2>5, <3>1
  <2>6. ASSUME NEW t \in RunningOn(w),
               RunningOn(w)' = RunningOn(w) \ {t}, permits'[w] = permits[w] + 1
        PROVE  permits'[w] + Cardinality(RunningOn(w)') = MaxConcurrentTasks
    <3>1. /\ Cardinality(RunningOn(w)) \in Nat
          /\ Cardinality(RunningOn(w) \ {t}) = Cardinality(RunningOn(w)) - 1
      BY <2>1, CountTasks
    <3> QED
      BY <2>1, <2>2, <2>6, <3>1
  <2> QED
    BY <1>1, <2>3, <2>4, <2>5, <2>6, RunningStep
<1>2. ASSUME PermitsConserved, UNCHANGED vars PROVE PermitsConserved'
  BY <1>2 DEF PermitsConserved, RunningOn, Running, vars, taskVars, loopVars
<1> QED
  BY <1>1, <1>2

\* The permits of a worker and its running tasks always add up to
\* MAX_CONCURRENT_TASKS.
THEOREM PermitsAlwaysConserved == Spec => []PermitsConserved
BY TypeCorrect, PermitsInit, PermitsStay, PTL DEF Spec

\* The balance of an event: what its key and the faults allow, against its
\* rows and the tasks that may still add one.
Claims(e) == (IF e \in keys THEN 1 ELSE 0) + misses[e]
Balanced(e) == rows[e] + Cardinality(Inserting(e)) <= Claims(e)

\* How a step changes the tasks that insert an event.
LEMMA InsertingSame ==
  ASSUME TypeOK, NEW e \in Events,
         \A u \in Tasks : u \in Inserting(e)' <=> u \in Inserting(e),
         keys' = keys, rows' = rows, misses' = misses, Balanced(e)
  PROVE  Balanced(e)'
<1>1. Inserting(e)' = Inserting(e)
  BY DEF Inserting
<1> QED
  BY <1>1 DEF Balanced, Claims

\* Ending tasks only helps the balance.
LEMMA InsertingFewer ==
  ASSUME TypeOK, NEW e \in Events, Inserting(e)' \subseteq Inserting(e),
         keys' = keys, rows' = rows, misses' = misses, Balanced(e)
  PROVE  Balanced(e)'
<1>1. IsFiniteSet(Inserting(e))
  BY FS_Subset, ConstantsAssumption DEF Inserting
<1>2. Cardinality(Inserting(e)') <= Cardinality(Inserting(e))
  BY <1>1, FS_Subset
<1>3. Cardinality(Inserting(e)) \in Nat /\ Cardinality(Inserting(e)') \in Nat
  BY <1>1, FS_Subset, FS_CardinalityType
<1>4. rows[e] \in Nat /\ Claims(e) \in Nat /\ Claims(e)' = Claims(e)
  BY DEF TypeOK, Claims
<1> QED
  BY <1>2, <1>3, <1>4 DEF Balanced

\* A step of one task changes only whether that task inserts its own event.
LEMMA InsertingStep ==
  ASSUME TypeOK, NEW t \in Tasks, NEW e \in Events, job' = job,
         NEW l \in Labels, Goto(t, l)
  PROVE  LET inserts == l \in {"insert", "release"} /\ EventOf(t) = e
         IN  Inserting(e)' = IF inserts THEN Inserting(e) \cup {t} ELSE Inserting(e) \ {t}
<1>1. pc'[t] = l /\ \A u \in Tasks \ {t} : pc'[u] = pc[u]
  BY DEF Goto, TypeOK
<1>2. \A u \in Tasks : EventOf(u)' = EventOf(u)
  BY DEF EventOf, EventAt
<1>3. \A u \in Tasks \ {t} : u \in Inserting(e)' <=> u \in Inserting(e)
  BY <1>1, <1>2 DEF Inserting
<1>4. t \in Inserting(e)' <=> l \in {"insert", "release"} /\ EventOf(t) = e
  BY <1>1, <1>2 DEF Inserting
<1>5. Inserting(e)' \subseteq Tasks /\ Inserting(e) \subseteq Tasks
  BY DEF Inserting
<1> QED
  BY <1>3, <1>4, <1>5

\* The same, in numbers: a task that comes to insert its event counts one more,
\* one that stops counts one less, and no other event is affected.
LEMMA InsertingCount ==
  ASSUME TypeOK, NEW t \in Tasks, NEW e \in Events, job' = job,
         NEW l \in Labels, Goto(t, l)
  PROVE  LET n == Cardinality(Inserting(e))
             before == t \in Inserting(e)
             after == l \in {"insert", "release"} /\ EventOf(t) = e
         IN  /\ n \in Nat
             /\ Cardinality(Inserting(e)') \in Nat
             /\ Cardinality(Inserting(e)') <= n + 1
             /\ before /\ ~after => Cardinality(Inserting(e)') = n - 1
             /\ ~before /\ ~after => Cardinality(Inserting(e)') = n
             /\ before /\ after => Cardinality(Inserting(e)') = n
<1> DEFINE after == l \in {"insert", "release"} /\ EventOf(t) = e
<1>1. Inserting(e) \subseteq Tasks
  BY DEF Inserting
<1>2. /\ Cardinality(Inserting(e)) \in Nat
      /\ Cardinality(Inserting(e) \cup {t})
           = Cardinality(Inserting(e)) + (IF t \in Inserting(e) THEN 0 ELSE 1)
      /\ Cardinality(Inserting(e) \ {t})
           = Cardinality(Inserting(e)) - (IF t \in Inserting(e) THEN 1 ELSE 0)
  BY <1>1, CountTasks
<1>3. Inserting(e)' \subseteq Tasks
  BY DEF Inserting
<1>4. Cardinality(Inserting(e)') \in Nat
  BY <1>3, FS_Subset, FS_CardinalityType, ConstantsAssumption
<1>5. CASE after
  <2>1. Inserting(e)' = Inserting(e) \cup {t}
    BY <1>5, InsertingStep
  <2> QED
    BY <1>2, <1>4, <1>5, <2>1
<1>6. CASE ~after
  <2>1. Inserting(e)' = Inserting(e) \ {t}
    BY <1>6, InsertingStep
  <2> QED
    BY <1>2, <1>4, <1>6, <2>1
<1> QED
  BY <1>5, <1>6

\* A task that ends does not add to an event.
LEMMA FinishFewer ==
  ASSUME TypeOK, NEW t \in Tasks, Finish(t), NEW e \in Events
  PROVE  Inserting(e)' \subseteq Inserting(e)
<1>1. pc'[t] = "idle" /\ \A u \in Tasks \ {t} : pc'[u] = pc[u] /\ job'[u] = job[u]
  BY DEF Finish, TypeOK
<1> QED
  BY <1>1 DEF Inserting, EventOf, EventAt

\* A step of a task keeps the balance of every event.
LEMMA TaskBalance ==
  ASSUME TypeOK, NEW t \in Tasks, TaskStep(t), NEW e \in Events, Balanced(e)
  PROVE  Balanced(e)'
<1> DEFINE n == Cardinality(Inserting(e))
           m == Cardinality(Inserting(e)')
<1>1. rows[e] \in Nat /\ misses[e] \in Nat
  BY DEF TypeOK
<1>2. rows[e] + n <= (IF e \in keys THEN 1 ELSE 0) + misses[e]
  BY DEF Balanced, Claims
<1>3. ASSUME rows'[e] + m <= (IF e \in keys' THEN 1 ELSE 0) + misses'[e]
      PROVE  Balanced(e)'
  BY <1>3 DEF Balanced, Claims
<1> HIDE DEF n, m
<1> DEFINE Going(l) == l \in Labels /\ Goto(t, l) /\ job' = job
<1>4. ASSUME NEW l, Going(l), l \in {"insert", "release"} => EventOf(t) # e
      PROVE  n \in Nat /\ m \in Nat /\ m = n - (IF t \in Inserting(e) THEN 1 ELSE 0)
  BY <1>4, InsertingCount DEF n, m
<1>5. ASSUME NEW l, Going(l), t \in Inserting(e)
      PROVE  n \in Nat /\ m \in Nat /\ m <= n
  BY <1>5, InsertingCount DEF n, m
<1>6. ASSUME NEW l, Going(l)
      PROVE  n \in Nat /\ m \in Nat /\ m <= n + 1
  BY <1>6, InsertingCount DEF n, m
<1>7. EventOf(t) # e => t \notin Inserting(e)
  BY DEF Inserting
<1>8. ASSUME NEW l, Going(l), l \notin {"insert", "release"},
             keys' = keys, rows' = rows, misses' = misses
      PROVE  Balanced(e)'
  BY <1>1, <1>2, <1>3, <1>4, <1>8
<1> HIDE DEF Going
<1> USE DEF sinkVars, historyVars
<1>9. CASE SkipCheck(t)
  <2>1. AfterValidation(EventOf(t)) = "publish"
    BY <1>9 DEF SkipCheck, AfterValidation, Parsing
  <2>2. Going("publish")
    BY <1>9, <2>1 DEF SkipCheck, Going, Labels
  <2> QED
    BY <1>8, <1>9, <2>2 DEF SkipCheck
<1>10. CASE SkipDuplicate(t) \/ EnsureDevice(t) \/ UpsertState(t)
         \/ PublishDeadLetter(t) \/ RecordDeadLetter(t)
  <2>1. PICK l \in {"state", "commit", "record"} : Going(l)
    BY <1>10 DEF SkipDuplicate, EnsureDevice, UpsertState, PublishDeadLetter,
       RecordDeadLetter, Going, Labels
  <2>2. keys' = keys /\ rows' = rows /\ misses' = misses
    BY <1>10 DEF SkipDuplicate, EnsureDevice, UpsertState, PublishDeadLetter,
       RecordDeadLetter, StoreState
  <2> QED
    BY <1>8, <2>1, <2>2
<1>11. CASE Claim(t) \/ CheckFailsOpen(t)
  <2>1. PICK l : Going(l) /\ l \in {"insert", "publish"}
    BY <1>11, NextLabel, RunningJob DEF Claim, CheckFailsOpen, Going, Labels, Running
  <2>2. rows' = rows
    BY <1>11 DEF Claim, CheckFailsOpen
  <2>3. CASE EventOf(t) # e
    <3>1. n \in Nat /\ m = n
      BY <1>4, <1>7, <2>1, <2>3
    <3>2. (e \in keys' <=> e \in keys) /\ misses'[e] = misses[e]
      BY <1>11, <2>3 DEF Claim, CheckFailsOpen, TypeOK
    <3> QED
      BY <1>2, <1>3, <2>2, <3>1, <3>2
  <2>4. CASE EventOf(t) = e
    <3>1. n \in Nat /\ m \in Nat /\ m <= n + 1
      BY <1>6, <2>1
    <3>2. \/ e \notin keys /\ e \in keys' /\ misses'[e] = misses[e]
          \/ (e \in keys => e \in keys') /\ misses'[e] = misses[e] + 1
      BY <1>11, <2>4 DEF Claim, IsNew, CheckFailsOpen, TypeOK
    <3> QED
      BY <1>1, <1>2, <1>3, <2>2, <3>1, <3>2
  <2> QED
    BY <2>3, <2>4
<1>12. CASE InsertSucceeds(t)
  <2>1. Going("device") /\ keys' = keys /\ misses' = misses
    BY <1>12 DEF InsertSucceeds, Going, Labels
  <2>2. /\ n \in Nat /\ m \in Nat
        /\ m = n - (IF t \in Inserting(e) THEN 1 ELSE 0)
    BY <1>4, <2>1
  <2>3. t \in Inserting(e) <=> EventOf(t) = e
    BY <1>12 DEF InsertSucceeds, Inserting
  <2>4. rows'[e] = rows[e] + (IF EventOf(t) = e THEN 1 ELSE 0)
    BY <1>12 DEF InsertSucceeds, StoreRow, TypeOK
  <2> QED
    BY <1>1, <1>2, <1>3, <2>1, <2>2, <2>3, <2>4
<1>13. CASE InsertFails(t)
  <2>1. PICK l : Going(l) /\ l \in {"insert", "release"}
    BY <1>13 DEF InsertFails, AfterFailedAttempt, Going, Labels
  <2>2. t \in Inserting(e) <=> EventOf(t) = e
    BY <1>13 DEF InsertFails, Inserting
  <2>3. n \in Nat /\ m \in Nat /\ m <= n
    BY <1>4, <1>5, <2>1, <2>2
  <2>4. keys' = keys
    BY <1>13 DEF InsertFails
  <2>5. \/ rows'[e] = rows[e] /\ misses'[e] = misses[e]
        \/ rows'[e] = rows[e] + 1 /\ misses'[e] = misses[e] + 1
    BY <1>13 DEF InsertFails, StoreRow, TypeOK
  <2> QED
    BY <1>1, <1>2, <1>3, <2>3, <2>4, <2>5
<1>14. CASE InsertRejected(t)
  <2>1. Going("release") /\ keys' = keys /\ rows' = rows /\ misses' = misses
    BY <1>14 DEF InsertRejected, Going, Labels
  <2>2. t \in Inserting(e) <=> EventOf(t) = e
    BY <1>14 DEF InsertRejected, Inserting
  <2>3. n \in Nat /\ m \in Nat /\ m <= n
    BY <1>4, <1>5, <2>1, <2>2
  <2> QED
    BY <1>1, <1>2, <1>3, <2>1, <2>3
<1>15. CASE ReleaseKey(t)
  <2>1. Going("publish") /\ rows' = rows
    BY <1>15 DEF ReleaseKey, Going, Labels
  <2>2. /\ n \in Nat /\ m \in Nat
        /\ m = n - (IF t \in Inserting(e) THEN 1 ELSE 0)
    BY <1>4, <2>1
  <2>3. t \in Inserting(e) <=> EventOf(t) = e
    BY <1>15 DEF ReleaseKey, Inserting
  <2>4. \/ (e \in keys' <=> e \in keys) /\ misses'[e] = misses[e]
        \/ EventOf(t) = e /\ misses'[e] = misses[e]
        \/ misses'[e] = misses[e] + 1
    <3>1. CASE UNCHANGED <<keys, misses>>
      BY <3>1
    <3>2. CASE DropKey(EventOf(t))
      <4>1. CASE Upper[EventOf(t)] # EventOf(t) /\ Upper[EventOf(t)] \in keys
        BY <3>2, <4>1 DEF DropKey, TypeOK
      <4>2. CASE ~(Upper[EventOf(t)] # EventOf(t) /\ Upper[EventOf(t)] \in keys)
        BY <3>2, <4>2 DEF DropKey
      <4> QED
        BY <4>1, <4>2
    <3> QED
      BY <1>15, <3>1, <3>2 DEF ReleaseKey
  <2> QED
    BY <1>1, <1>2, <1>3, <2>1, <2>2, <2>3, <2>4
<1>16. CASE ProcessRaises(t) \/ CommitOffset(t) \/ CommitFails(t)
  BY <1>16, FinishFewer, InsertingFewer DEF ProcessRaises, CommitOffset, CommitFails
<1> QED
  BY <1>9, <1>10, <1>11, <1>12, <1>13, <1>14, <1>15, <1>16 DEF TaskStep

\* Every step keeps the balance of every event.
LEMMA NextBalance ==
  ASSUME TypeOK, Next, NEW e \in Events, Balanced(e)
  PROVE  Balanced(e)'
<1> USE DEF Inserting, EventOf, EventAt
<1>1. CASE JoinGroup \/ Rebalance
  BY <1>1, InsertingSame DEF JoinGroup, Rebalance, Assign, taskVars, sinkVars, historyVars
<1>2. ASSUME NEW w \in Workers, Exit(w) PROVE Balanced(e)'
  <2>1. Inserting(e)' \subseteq Inserting(e)
    BY <1>2 DEF Exit
  <2>2. keys' = keys /\ rows' = rows /\ misses' = misses
    BY <1>2 DEF Exit, sinkVars
  <2> QED
    BY <2>1, <2>2, InsertingFewer
<1>3. ASSUME NEW w \in Workers, NEW p \in Partitions, Poll(w, p) PROVE Balanced(e)'
  BY <1>3, InsertingSame DEF Poll, taskVars, sinkVars, historyVars
<1>4. ASSUME NEW w \in Workers, NEW t \in Tasks, SpawnTask(w, t) PROVE Balanced(e)'
  <2>1. pc[t] = "idle" /\ pc'[t] = "check"
        /\ \A u \in Tasks \ {t} : pc'[u] = pc[u] /\ job'[u] = job[u]
    BY <1>4 DEF SpawnTask, Running, TypeOK
  <2>2. \A u \in Tasks : u \in Inserting(e)' <=> u \in Inserting(e)
    BY <2>1
  <2> QED
    BY <1>4, <2>2, InsertingSame DEF SpawnTask, sinkVars, historyVars
<1>5. ASSUME NEW f \in Events, EvictKey(f) PROVE Balanced(e)'
  <2>1. Inserting(e)' = Inserting(e) /\ rows' = rows
    BY <1>5 DEF EvictKey, taskVars, sinkVars
  <2>2. Cardinality(Inserting(e)) \in Nat
    BY FS_Subset, FS_CardinalityType, ConstantsAssumption
  <2>3. \/ (e \in keys' <=> e \in keys) /\ misses'[e] = misses[e]
        \/ misses'[e] = misses[e] + 1
    BY <1>5 DEF EvictKey, TypeOK
  <2>4. rows[e] \in Nat /\ misses[e] \in Nat
    BY DEF TypeOK
  <2> HIDE DEF Inserting
  <2> QED
    BY <2>1, <2>2, <2>3, <2>4 DEF Balanced, Claims
<1>6. ASSUME NEW t \in Tasks, TaskStep(t) PROVE Balanced(e)'
  BY <1>6, TaskBalance
<1> QED
  BY <1>1, <1>2, <1>3, <1>4, <1>5, <1>6 DEF Next, LoopStep, Crash, FetchFails, PollPoison

\* Initially no event has a row, a key or a task.
LEMMA ClaimsInit == Init => ClaimsCharged
<1> SUFFICES ASSUME Init, NEW e \in Events
             PROVE  rows[e] + Cardinality(Inserting(e))
                      <= (IF e \in keys THEN 1 ELSE 0) + misses[e]
  BY DEF ClaimsCharged
<1>1. Inserting(e) = {}
  BY DEF Init, Inserting
<1>2. Cardinality(Inserting(e)) = 0
  BY <1>1, FS_EmptySet
<1> QED
  BY <1>2 DEF Init

\* Every step keeps the balance of every event.
LEMMA ClaimsStay == TypeOK /\ ClaimsCharged /\ [Next]_vars => ClaimsCharged'
<1>1. ASSUME TypeOK, ClaimsCharged, Next PROVE ClaimsCharged'
  <2>1. \A e \in Events : Balanced(e)
    BY <1>1 DEF ClaimsCharged, Balanced, Claims
  <2>2. \A e \in Events : Balanced(e)'
    BY <1>1, <2>1, NextBalance
  <2> QED
    BY <2>2 DEF ClaimsCharged, Balanced, Claims
<1>2. ASSUME ClaimsCharged, UNCHANGED vars PROVE ClaimsCharged'
  BY <1>2 DEF ClaimsCharged, Inserting, EventOf, EventAt, vars, taskVars, sinkVars, historyVars
<1> QED
  BY <1>1, <1>2

\* The rows of an event, and the tasks that may still add one, never exceed what
\* its key and the faults that defeated its deduplication allow.
THEOREM ClaimsAlwaysCharged == Spec => []ClaimsCharged
BY TypeCorrect, ClaimsInit, ClaimsStay, PTL DEF Spec

\* The rows alone are within the charges and one claim.
LEMMA ClaimsBoundRows == TypeOK /\ ClaimsCharged => DuplicatesCharged
<1> SUFFICES ASSUME TypeOK, ClaimsCharged, NEW e \in Events PROVE rows[e] <= 1 + misses[e]
  BY DEF DuplicatesCharged
<1>1. Cardinality(Inserting(e)) \in Nat
  BY FS_Subset, FS_CardinalityType, ConstantsAssumption DEF Inserting
<1>2. rows[e] \in Nat /\ misses[e] \in Nat
  BY DEF TypeOK
<1>3. rows[e] + Cardinality(Inserting(e)) <= (IF e \in keys THEN 1 ELSE 0) + misses[e]
  BY DEF ClaimsCharged
<1> QED
  BY <1>1, <1>2, <1>3

\* An event has more than one row only as often as a fault defeated its key.
THEOREM DuplicatesAlwaysCharged == Spec => []DuplicatesCharged
<1> QED
  BY ClaimsBoundRows, TypeCorrect, ClaimsAlwaysCharged, PTL

-----------------------------------------------------------------------------
(***************************************************************************)
(* The retry counts of dead letters, and the claims that stand in the way  *)
(* of replaying them.                                                      *)
(***************************************************************************)

\* The record of a task stays the same as long as the task runs.
LEMMA StepKeepsJob ==
  ASSUME TypeOK, NEW t \in Tasks, TaskStep(t), Running(t)'
  PROVE  /\ job' = job
         /\ EventOf(t)' = EventOf(t)
         /\ EventOf(t) \in Events
<1>1. Running(t)
  BY DEF TaskStep, SkipCheck, Claim, SkipDuplicate, CheckFailsOpen, ProcessRaises,
     InsertSucceeds, InsertFails, InsertRejected, EnsureDevice, UpsertState, ReleaseKey,
     PublishDeadLetter, RecordDeadLetter, CommitOffset, CommitFails, Running
<1>2. job' = job
  BY DEF TaskStep, SkipCheck, Claim, SkipDuplicate, CheckFailsOpen, ProcessRaises,
     InsertSucceeds, InsertFails, InsertRejected, EnsureDevice, UpsertState, ReleaseKey,
     PublishDeadLetter, RecordDeadLetter, CommitOffset, CommitFails, Finish, Running, TypeOK
<1> QED
  BY <1>1, <1>2, RunningJob DEF EventOf, EventAt

\* A failed validation makes no attempt; attempts that fail are retried until
\* there are RETRY_MAX_ATTEMPTS of them, unless the error is not retryable.
LEMMA CountOfAttempts ==
  ASSUME TypeOK, NEW e \in Events
  PROVE  /\ Kind[e] \notin Parsing => RetriesOf(e, 0)
         /\ Kind[e] \in Parsing => RetriesOf(e, RetryMaxAttempts)
         /\ Kind[e] = "unstorable" => \A n \in 1..RetryMaxAttempts : RetriesOf(e, n)
<1>1. Kind[e] \in Kinds /\ RetryMaxAttempts \in Nat \ {0}
  BY ConstantsAssumption
<1>2. CASE Kind[e] \notin Parsing
  BY <1>2 DEF RetriesOf, Parsing
<1>3. CASE Kind[e] = "unstorable"
  BY <1>1, <1>3 DEF RetriesOf, Parsing
<1>4. CASE Kind[e] \in {"valid", "unpartitioned"}
  BY <1>1, <1>4 DEF RetriesOf, Parsing
<1> QED
  BY <1>2, <1>3, <1>4 DEF Parsing

\* What RetryCountInv says of a task.
CountKnown(t) ==
  /\ retries[t] = attempt[t]
  /\ pc[t] \in {"release", "publish", "record"} => RetriesOf(EventOf(t), attempt[t])
  /\ pc[t] \in {"insert", "release"} => Kind[EventOf(t)] \in Parsing

\* A step of a task counts in both, in neither, or ends the task.
LEMMA TaskCountsAgree ==
  ASSUME TypeOK, NEW t \in Tasks, TaskStep(t), retries[t] = attempt[t]
  PROVE  retries'[t] = attempt'[t]
<1>1. CASE UNCHANGED <<attempt, retries>>
  BY <1>1
<1>2. CASE CountAttempt(t) /\ CountRetry(t)
  BY <1>2 DEF CountAttempt, CountRetry, TypeOK
<1>3. CASE Finish(t)
  BY <1>3 DEF Finish, TypeOK
<1> QED
  BY <1>1, <1>2, <1>3 DEF TaskStep, SkipCheck, Claim, SkipDuplicate, CheckFailsOpen,
     ProcessRaises, InsertSucceeds, InsertFails, InsertRejected, EnsureDevice, UpsertState,
     ReleaseKey, PublishDeadLetter, RecordDeadLetter, CommitOffset, CommitFails

\* A step of a task keeps what its dead letter will say.
LEMMA TaskCount ==
  ASSUME TypeOK, NEW t \in Tasks, TaskStep(t), CountKnown(t)
  PROVE  CountKnown(t)'
<1> DEFINE e == EventOf(t)
<1>0. retries'[t] = attempt'[t]
  BY TaskCountsAgree DEF CountKnown
<1> SUFFICES ASSUME pc'[t] \in {"insert", "release", "publish", "record"}
             PROVE  CountKnown(t)'
  BY <1>0 DEF CountKnown
<1>1. job' = job /\ EventOf(t)' = e /\ e \in Events
  BY StepKeepsJob DEF Running
<1>2. pc[t] \in {"idle", "check"} => attempt[t] = 0
  BY DEF TypeOK
<1> HIDE DEF e
<1>3. CASE SkipCheck(t) \/ Claim(t) \/ CheckFailsOpen(t)
  <2>1. attempt'[t] = 0 /\ pc'[t] = AfterValidation(e)
    BY <1>2, <1>3 DEF SkipCheck, Claim, CheckFailsOpen, Goto, TypeOK, e
  <2>2. CASE Kind[e] \in Parsing
    BY <1>0, <1>1, <2>1, <2>2 DEF CountKnown, AfterValidation
  <2>3. CASE Kind[e] \notin Parsing
    BY <1>0, <1>1, <2>1, <2>3, CountOfAttempts DEF CountKnown, AfterValidation
  <2> QED
    BY <2>2, <2>3
<1>4. CASE InsertFails(t)
  <2>1. Kind[e] \in Parsing
    BY <1>4 DEF InsertFails, CountKnown, e
  <2>2. attempt'[t] = attempt[t] + 1 /\ attempt[t] + 1 \in 1..RetryMaxAttempts
    BY <1>4, AttemptType DEF InsertFails, TypeOK
  <2>3. pc'[t] = AfterFailedAttempt(attempt[t] + 1)
    BY <1>4 DEF InsertFails, Goto, TypeOK
  <2>4. pc'[t] \in {"insert", "release"}
    BY <2>3 DEF AfterFailedAttempt
  <2>5. pc'[t] = "release" => attempt'[t] = RetryMaxAttempts
    BY <2>2, <2>3, ConstantsAssumption DEF AfterFailedAttempt
  <2> QED
    BY <1>0, <1>1, <2>1, <2>4, <2>5, CountOfAttempts DEF CountKnown
<1>5. CASE InsertRejected(t)
  <2>1. Kind[e] = "unstorable" /\ pc'[t] = "release"
    BY <1>5 DEF InsertRejected, Goto, TypeOK, e
  <2>2. attempt'[t] \in 1..RetryMaxAttempts
    BY <1>5, AttemptType DEF InsertRejected, TypeOK
  <2> QED
    BY <1>0, <1>1, <2>1, <2>2, CountOfAttempts DEF CountKnown, Parsing
<1>6. CASE ReleaseKey(t) \/ PublishDeadLetter(t)
  <2>1. /\ pc[t] \in {"release", "publish"} /\ pc'[t] \in {"publish", "record"}
        /\ attempt' = attempt
    BY <1>6 DEF ReleaseKey, PublishDeadLetter, Goto, TypeOK
  <2> QED
    BY <1>0, <1>1, <2>1 DEF CountKnown, e
<1>7. ~(SkipDuplicate(t) \/ ProcessRaises(t) \/ InsertSucceeds(t) \/ EnsureDevice(t)
          \/ UpsertState(t) \/ RecordDeadLetter(t) \/ CommitOffset(t) \/ CommitFails(t))
  BY DEF SkipDuplicate, ProcessRaises, InsertSucceeds, EnsureDevice, UpsertState,
     RecordDeadLetter, CommitOffset, CommitFails, Finish, Goto, TypeOK
<1> QED
  BY <1>3, <1>4, <1>5, <1>6, <1>7 DEF TaskStep

\* A dead letter that a step adds is the envelope of a task on that path.
LEMMA NewDeadLetter ==
  ASSUME Next, NEW r \in dlqTopic' \cup dlqTable', r \notin dlqTopic \cup dlqTable
  PROVE  \E t \in Tasks : r = Envelope(t) /\ pc[t] \in {"publish", "record"}
BY DEF Next, LoopStep, TaskStep, SkipCheck, Claim, SkipDuplicate, CheckFailsOpen,
   ProcessRaises, InsertSucceeds, InsertFails, InsertRejected, EnsureDevice, UpsertState,
   ReleaseKey, PublishDeadLetter, RecordDeadLetter, CommitOffset, CommitFails, JoinGroup,
   Rebalance, Assign, Crash, FetchFails, Poll, PollPoison, Exit, SpawnTask, EvictKey, dlqVars

\* RetryCountInv is inductive.
LEMMA RetryCountStays == TypeOK /\ RetryCountInv /\ [Next]_vars => RetryCountInv'
<1>1. ASSUME TypeOK, RetryCountInv, Next PROVE RetryCountInv'
  <2>1. \A t \in Tasks : CountKnown(t)
    BY <1>1 DEF RetryCountInv, CountKnown
  <2>2. ASSUME NEW r \in dlqTopic' \cup dlqTable' PROVE RetriesOf(r.event, r.retries)
    <3>1. CASE r \in dlqTopic \cup dlqTable
      BY <1>1, <3>1 DEF RetryCountInv, RetryCountExact
    <3>2. ASSUME NEW t \in Tasks, r = Envelope(t), pc[t] \in {"publish", "record"}
          PROVE  RetriesOf(r.event, r.retries)
      BY <2>1, <3>2 DEF CountKnown, Envelope
    <3> QED
      BY <1>1, <3>1, <3>2, NewDeadLetter
  <2>3. ASSUME NEW u \in Tasks PROVE CountKnown(u)'
    <3>1. CASE SameTask(u)
      BY <2>1, <3>1 DEF SameTask, CountKnown, EventOf, EventAt
    <3>2. CASE TaskStep(u)
      BY <1>1, <2>1, <3>2, TaskCount
    <3>3. ASSUME NEW w \in Workers, u \in RunningOn(w), Exit(w) PROVE CountKnown(u)'
      BY <1>1, <2>1, <3>3 DEF Exit, CountKnown, TypeOK
    <3>4. ASSUME NEW w \in Workers, SpawnTask(w, u) PROVE CountKnown(u)'
      BY <1>1, <2>1, <3>4 DEF SpawnTask, CountKnown, TypeOK
    <3> QED
      BY <1>1, <3>1, <3>2, <3>3, <3>4, TaskFrame
  <2> QED
    BY <2>2, <2>3 DEF RetryCountInv, RetryCountExact, CountKnown
<1>2. ASSUME RetryCountInv, UNCHANGED vars PROVE RetryCountInv'
  BY <1>2 DEF RetryCountInv, RetryCountExact, EventOf, EventAt, vars, taskVars, dlqVars
<1> QED
  BY <1>1, <1>2

LEMMA RetryCountInit == Init => RetryCountInv
BY DEF Init, RetryCountInv, RetryCountExact

\* The retry_count of every dead letter tells how its event failed: 0 for a
\* failed validation, RETRY_MAX_ATTEMPTS for exhausted retries, and no more than
\* those for an error that is not retried.
THEOREM RetryCountAlwaysExact == Spec => []RetryCountExact
<1>1. RetryCountInv => RetryCountExact
  BY DEF RetryCountInv
<1> QED
  BY <1>1, RetryCountInit, TypeCorrect, RetryCountStays, PTL DEF Spec

\* Rows, devices and orphans are never taken back.
LEMMA SinksGrow ==
  ASSUME TypeOK, Next
  PROVE  /\ \A e \in Events : rows[e] > 0 => rows'[e] > 0
         /\ devices \subseteq devices'
         /\ orphans \subseteq orphans'
<1>1. rows' = rows \/ \E f \in Events : StoreRow(f)
  BY RunningJob DEF Next, LoopStep, TaskStep, SkipCheck, Claim, SkipDuplicate, CheckFailsOpen,
       ProcessRaises, InsertSucceeds, InsertFails, InsertRejected, EnsureDevice,
       UpsertState, ReleaseKey, PublishDeadLetter, RecordDeadLetter, CommitOffset,
       CommitFails, JoinGroup, Rebalance, Assign, Crash, FetchFails, Poll, PollPoison, Exit,
       SpawnTask, EvictKey, sinkVars, Running
<1>2. \A e \in Events : rows[e] > 0 => rows'[e] > 0
  BY <1>1 DEF StoreRow, TypeOK
<1>3. devices \subseteq devices' /\ orphans \subseteq orphans'
  BY DEF Next, LoopStep, TaskStep, SkipCheck, Claim, SkipDuplicate, CheckFailsOpen,
       ProcessRaises, InsertSucceeds, InsertFails, InsertRejected, EnsureDevice,
       UpsertState, ReleaseKey, PublishDeadLetter, RecordDeadLetter, CommitOffset,
       CommitFails, JoinGroup, Rebalance, Assign, Crash, FetchFails, Poll, PollPoison, Exit,
       SpawnTask, EvictKey, sinkVars, historyVars
<1> QED
  BY <1>2, <1>3

\* A step leaves the budget alone or draws on it.
LEMMA BudgetStep ==
  ASSUME Next
  PROVE  budget' = budget \/ \E fault \in Faults : Spend(fault)
BY DEF Next, LoopStep, TaskStep, SkipCheck, Claim, SkipDuplicate, CheckFailsOpen,
     ProcessRaises, InsertSucceeds, InsertFails, InsertRejected, EnsureDevice,
     UpsertState, ReleaseKey, PublishDeadLetter, RecordDeadLetter, CommitOffset,
     CommitFails, JoinGroup, Rebalance, Assign, Crash, FetchFails, Poll, PollPoison, Exit,
     SpawnTask, EvictKey, Faults

\* A budget is spent and never refilled.
LEMMA BudgetFalls ==
  ASSUME TypeOK, Next, NEW fault \in Faults
  PROVE  /\ budget[fault] \in Nat /\ budget'[fault] \in Nat
         /\ budget'[fault] <= budget[fault]
<1>1. ASSUME NEW spent \in Faults, Spend(spent)
      PROVE  budget'[fault] \in {budget[fault], budget[fault] - 1} /\ budget'[fault] \in Nat
  BY <1>1 DEF Spend, TypeOK
<1>2. budget[fault] \in Nat
  BY DEF TypeOK
<1> QED
  BY <1>1, <1>2, BudgetStep

\* The claim on an event is in good hands.
ClaimHeld(e) ==
  Kind[e] \in Parsing /\ Upper[e] = e /\ rows[e] = 0 => e \in orphans \/ AtWork(e, {"insert", "release"})

\* A key that a step sets while Redis works is that of a task bound to insert.
LEMMA NewClaim ==
  ASSUME TypeOK, Next, NEW e \in keys' \ keys, Kind[e] \in Parsing,
         budget'["redis"] = budget["redis"]
  PROVE  AtWork(e, {"insert", "release"})'
<1>1. PICK t \in Tasks : (Claim(t) \/ CheckFailsOpen(t)) /\ e = EventOf(t)
  BY DEF Next, DropKey, LoopStep, TaskStep, SkipCheck, Claim, SkipDuplicate, CheckFailsOpen,
       ProcessRaises, InsertSucceeds, InsertFails, InsertRejected, EnsureDevice,
       UpsertState, ReleaseKey, PublishDeadLetter, RecordDeadLetter, CommitOffset,
       CommitFails, JoinGroup, Rebalance, Assign, Crash, FetchFails, Poll, PollPoison, Exit,
       SpawnTask, EvictKey
<1>2. pc'[t] = "insert" /\ job' = job
  BY <1>1 DEF Claim, CheckFailsOpen, Goto, AfterValidation, TypeOK
<1> QED
  BY <1>1, <1>2 DEF AtWork, EventOf, EventAt

\* A claim that is held stays held, is released, or ends in a row.
LEMMA ClaimStays ==
  ASSUME TypeOK, Next, NEW e \in keys, e \in keys', ClaimHeld(e),
         budget'["redis"] = budget["redis"]
  PROVE  ClaimHeld(e)'
<1> SUFFICES ASSUME Kind[e] \in Parsing, Upper[e] = e, rows'[e] = 0
             PROVE  e \in orphans' \/ AtWork(e, {"insert", "release"})'
  BY DEF ClaimHeld
<1>1. e \in Events /\ rows[e] = 0
  BY SinksGrow DEF TypeOK
<1>2. CASE e \in orphans
  BY <1>2, SinksGrow
<1>3. ASSUME NEW u \in Tasks, pc[u] \in {"insert", "release"}, EventOf(u) = e
      PROVE  e \in orphans' \/ AtWork(e, {"insert", "release"})'
  <2>1. CASE pc'[u] = pc[u] /\ job'[u] = job[u] /\ attempt'[u] = attempt[u]
    BY <1>3, <2>1 DEF AtWork, EventOf, EventAt
  <2>2. CASE TaskStep(u)
    <3>1. ~InsertSucceeds(u)
      BY <1>1, <1>3 DEF InsertSucceeds, StoreRow, TypeOK
    <3>2. ~ReleaseKey(u)
      BY <1>3 DEF ReleaseKey, DropKey, Spend, TypeOK, Faults
    <3>3. InsertFails(u) \/ InsertRejected(u)
      BY <1>3, <2>2, <3>1, <3>2 DEF TaskStep, SkipCheck, Claim, SkipDuplicate, CheckFailsOpen,
         ProcessRaises, EnsureDevice, UpsertState, PublishDeadLetter, RecordDeadLetter,
         CommitOffset, CommitFails
    <3>4. pc'[u] \in {"insert", "release"} /\ job' = job
      BY <3>3 DEF InsertFails, InsertRejected, Goto, AfterFailedAttempt, TypeOK
    <3> QED
      BY <1>3, <3>4 DEF AtWork, EventOf, EventAt
  <2>3. ASSUME NEW w \in Workers, u \in RunningOn(w), Exit(w) PROVE e \in orphans'
    BY <1>3, <2>3, ExitOrphans DEF Undecided
  <2>4. ASSUME NEW w \in Workers, SpawnTask(w, u) PROVE FALSE
    BY <1>3, <2>4 DEF SpawnTask, Running
  <2> QED
    BY <2>1, <2>2, <2>3, <2>4, TaskFrame DEF SameTask
<1> QED
  BY <1>1, <1>2, <1>3 DEF ClaimHeld, AtWork

\* ClaimsHeld is inductive.
LEMMA ClaimsHeldStays == TypeOK /\ ClaimsHeld /\ [Next]_vars => ClaimsHeld'
<1>1. ASSUME TypeOK, ClaimsHeld, Next PROVE ClaimsHeld'
  <2>1. /\ budget["redis"] \in Nat /\ budget'["redis"] \in Nat
        /\ Budget["redis"] \in Nat
    BY <1>1, NextType, ConstantsAssumption DEF TypeOK, Faults
  <2>2. /\ budget'["redis"] <= Budget["redis"]
        /\ budget'["redis"] = Budget["redis"] =>
             budget["redis"] = Budget["redis"] /\ budget'["redis"] = budget["redis"]
    <3>1. budget'["redis"] <= budget["redis"]
      BY <1>1, BudgetFalls DEF Faults
    <3> QED
      BY <1>1, <2>1, <3>1 DEF ClaimsHeld
  <2>3. ASSUME budget'["redis"] = Budget["redis"], NEW e \in keys' PROVE ClaimHeld(e)'
    <3>1. e \in keys => ClaimHeld(e)
      BY <1>1, <2>2, <2>3 DEF ClaimsHeld, ClaimHeld
    <3>2. CASE e \in keys
      BY <1>1, <2>2, <2>3, <3>1, <3>2, ClaimStays
    <3>3. CASE e \notin keys
      BY <1>1, <2>2, <2>3, <3>3, NewClaim DEF ClaimHeld
    <3> QED
      BY <3>2, <3>3
  <2> QED
    BY <2>2, <2>3 DEF ClaimsHeld, ClaimHeld
<1>2. ASSUME ClaimsHeld, UNCHANGED vars PROVE ClaimsHeld'
  BY <1>2 DEF ClaimsHeld, AtWork, EventOf, EventAt, vars, taskVars, sinkVars, historyVars
<1> QED
  BY <1>1, <1>2

LEMMA ClaimsHeldInit == Init => ClaimsHeld
BY ConstantsAssumption DEF Init, ClaimsHeld, Faults

\* A task with a claim in hand is one that still has the event.
LEMMA ClaimsHeldSuffices == ClaimsHeld => ReplayUnblocked
BY DEF ClaimsHeld, ReplayUnblocked, Pending, AtWork, Undecided

\* An event that arrived under the upper-case id that the event model gives it, and
\* was dead-lettered without a row, can be replayed: no claim on its key is left
\* behind, unless a process ended with it or a Redis call failed.
THEOREM ReplayAlwaysUnblocked == Spec => []ReplayUnblocked
<1> QED
  BY ClaimsHeldInit, ClaimsHeldSuffices, TypeCorrect, ClaimsHeldStays, PTL DEF Spec

-----------------------------------------------------------------------------
(***************************************************************************)
(* The device state.                                                       *)
(***************************************************************************)

\* What StateInv says of a task.
StateKnown(t) ==
  /\ pc[t] \in {"device", "state"} => rows[EventOf(t)] > 0
  /\ pc[t] = "state" => DeviceOf[EventOf(t)] \in devices

\* A step of a task comes to the device state with the row of its event stored,
\* and to its second statement with the row of its device.
LEMMA TaskState ==
  ASSUME TypeOK, NEW t \in Tasks, TaskStep(t), StateKnown(t)
  PROVE  StateKnown(t)'
<1> SUFFICES ASSUME pc'[t] \in {"device", "state"} PROVE StateKnown(t)'
  BY DEF StateKnown
<1>1. EventOf(t)' = EventOf(t) /\ EventOf(t) \in Events
  BY StepKeepsJob DEF Running
<1>2. CASE InsertSucceeds(t)
  <2>1. rows'[EventOf(t)] > 0 /\ pc'[t] = "device"
    BY <1>1, <1>2 DEF InsertSucceeds, Goto, StoreRow, TypeOK
  <2> QED
    BY <1>1, <2>1 DEF StateKnown
<1>3. CASE EnsureDevice(t)
  <2>1. rows[EventOf(t)] > 0 /\ rows' = rows /\ pc'[t] = "state"
    BY <1>3 DEF EnsureDevice, StateKnown, Goto, TypeOK
  <2>2. DeviceOf[EventOf(t)] \in devices'
    BY <1>3, <2>1 DEF EnsureDevice, Goto, TypeOK
  <2> QED
    BY <1>1, <2>1, <2>2 DEF StateKnown
<1>4. ~(SkipCheck(t) \/ Claim(t) \/ SkipDuplicate(t) \/ CheckFailsOpen(t) \/ ProcessRaises(t))
  BY <1>1, NextLabel DEF SkipCheck, Claim, SkipDuplicate, CheckFailsOpen, ProcessRaises,
     Finish, Goto, TypeOK
<1>5. ~(InsertFails(t) \/ InsertRejected(t) \/ UpsertState(t) \/ ReleaseKey(t)
          \/ PublishDeadLetter(t) \/ RecordDeadLetter(t) \/ CommitOffset(t) \/ CommitFails(t))
  BY DEF InsertFails, InsertRejected, UpsertState, ReleaseKey, PublishDeadLetter,
     RecordDeadLetter, CommitOffset, CommitFails, Finish, Goto, AfterFailedAttempt, TypeOK
<1> QED
  BY <1>2, <1>3, <1>4, <1>5 DEF TaskStep

\* A step that changes the state of a device writes the event of a task that
\* is at the statement for it.
LEMMA StateWriter ==
  ASSUME Next, deviceState' # deviceState
  PROVE  \E t \in Tasks : pc[t] = "state" /\ StoreState(EventOf(t))
BY DEF Next, LoopStep, TaskStep, SkipCheck, Claim, SkipDuplicate, CheckFailsOpen,
   ProcessRaises, InsertSucceeds, InsertFails, InsertRejected, EnsureDevice, UpsertState,
   ReleaseKey, PublishDeadLetter, RecordDeadLetter, CommitOffset, CommitFails, JoinGroup,
   Rebalance, Assign, Crash, FetchFails, Poll, PollPoison, Exit, SpawnTask, EvictKey, sinkVars

\* StateInv is inductive.
LEMMA StateInvStays == TypeOK /\ StateInv /\ [Next]_vars => StateInv'
<1>1. ASSUME TypeOK, StateInv, Next PROVE StateInv'
  <2>1. \A t \in Tasks : StateKnown(t)
    BY <1>1 DEF StateInv, StateKnown
  <2>2. ASSUME NEW u \in Tasks PROVE StateKnown(u)'
    <3>1. CASE pc'[u] = pc[u] /\ job'[u] = job[u] /\ attempt'[u] = attempt[u]
      <4>1. EventOf(u)' = EventOf(u)
        BY <3>1 DEF EventOf, EventAt
      <4>2. Running(u) => EventOf(u) \in Events
        BY <1>1, RunningJob
      <4> QED
        BY <1>1, <2>1, <3>1, <4>1, <4>2, SinksGrow DEF StateKnown, Running
    <3>2. CASE TaskStep(u)
      BY <1>1, <2>1, <3>2, TaskState
    <3>3. ASSUME NEW w \in Workers, u \in RunningOn(w), Exit(w) PROVE StateKnown(u)'
      BY <3>3 DEF Exit, StateKnown
    <3>4. ASSUME NEW w \in Workers, SpawnTask(w, u) PROVE StateKnown(u)'
      BY <1>1, <3>4 DEF SpawnTask, StateKnown, TypeOK
    <3> QED
      BY <1>1, <3>1, <3>2, <3>3, <3>4, TaskFrame DEF SameTask
  <2>3. ASSUME NEW d \in Devices, deviceState'[d].last # NoEvent
        PROVE  /\ rows'[deviceState'[d].last] > 0
               /\ DeviceOf[deviceState'[d].last] = d
               /\ d \in devices'
    <3>1. CASE deviceState'[d] = deviceState[d]
      <4>1. deviceState[d].last \in Events
        BY <1>1, <2>3, <3>1 DEF TypeOK, DeviceRows
      <4> QED
        BY <1>1, <2>3, <3>1, <4>1, SinksGrow DEF StateInv, LastStored
    <3>2. CASE deviceState'[d] # deviceState[d]
      <4>1. PICK t \in Tasks : pc[t] = "state" /\ StoreState(EventOf(t))
        BY <1>1, <3>2, StateWriter
      <4>2. EventOf(t) \in Events
        BY <1>1, <4>1, RunningJob DEF Running
      <4>3. d = DeviceOf[EventOf(t)] /\ deviceState'[d].last = EventOf(t)
        BY <1>1, <3>2, <4>1, <4>2 DEF StoreState, TypeOK
      <4> QED
        BY <1>1, <2>1, <4>1, <4>2, <4>3, SinksGrow DEF StateKnown
    <3> QED
      BY <3>1, <3>2
  <2> QED
    BY <2>2, <2>3 DEF StateInv, LastStored, StateKnown
<1>2. ASSUME StateInv, UNCHANGED vars PROVE StateInv'
  BY <1>2 DEF StateInv, LastStored, EventOf, EventAt, vars, taskVars, sinkVars
<1> QED
  BY <1>1, <1>2

\* A row of a device more is one that was not there, and counts as one.
LEMMA RowsStep ==
  ASSUME TypeOK, NEW d \in Devices, IsFiniteSet(RowsOf(d)), NEW e \in Events, StoreRow(e)
  PROVE  /\ DeviceOf[e] # d => RowsOf(d)' = RowsOf(d)
         /\ DeviceOf[e] = d => /\ IsFiniteSet(RowsOf(d)')
                               /\ Cardinality(RowsOf(d)') = Cardinality(RowsOf(d)) + 1
<1> DEFINE row == <<e, rows[e] + 1>>
<1>1. /\ \A f \in Events : rows[f] \in Nat
      /\ rows'[e] = rows[e] + 1
      /\ \A f \in Events \ {e} : rows'[f] = rows[f]
  BY DEF TypeOK, StoreRow
<1>2. ASSUME DeviceOf[e] # d PROVE RowsOf(d)' = RowsOf(d)
  <2>1. \A f \in {g \in Events : DeviceOf[g] = d} : rows'[f] = rows[f]
    BY <1>1, <1>2
  <2> QED
    BY <2>1 DEF RowsOf
<1>3. ASSUME DeviceOf[e] = d
      PROVE  /\ IsFiniteSet(RowsOf(d)')
             /\ Cardinality(RowsOf(d)') = Cardinality(RowsOf(d)) + 1
  <2>1. ASSUME NEW r, r \in RowsOf(d)' PROVE r \in RowsOf(d) \cup {row}
    <3>1. PICK f \in Events : DeviceOf[f] = d /\ r \in {f} \X (1..rows'[f])
      BY <2>1 DEF RowsOf
    <3>2. PICK i \in 1..rows'[f] : r = <<f, i>>
      BY <3>1
    <3>3. CASE f = e /\ i = rows[e] + 1
      BY <3>2, <3>3
    <3>4. CASE ~(f = e /\ i = rows[e] + 1)
      <4>1. i \in 1..rows[f]
        BY <1>1, <3>2, <3>4
      <4> QED
        BY <3>1, <3>2, <4>1 DEF RowsOf
    <3> QED
      BY <3>3, <3>4
  <2>2. ASSUME NEW r, r \in RowsOf(d) PROVE r \in RowsOf(d)'
    <3>1. PICK f \in Events : DeviceOf[f] = d /\ r \in {f} \X (1..rows[f])
      BY <2>2 DEF RowsOf
    <3>2. \A i \in 1..rows[f] : i \in 1..rows'[f]
      BY <1>1
    <3>3. r \in {f} \X (1..rows'[f])
      BY <3>1, <3>2
    <3> QED
      BY <3>1, <3>3 DEF RowsOf
  <2>3. row \in RowsOf(d)'
    <3>1. rows[e] + 1 \in 1..rows'[e]
      BY <1>1
    <3> QED
      BY <1>3, <3>1 DEF RowsOf
  <2>4. row \notin RowsOf(d)
    <3>1. rows[e] + 1 \notin 1..rows[e]
      BY <1>1
    <3>2. \A f \in Events : row \in {f} \X (1..rows[f]) => f = e /\ rows[e] + 1 \in 1..rows[f]
      OBVIOUS
    <3> QED
      BY <3>1, <3>2 DEF RowsOf
  <2>5. RowsOf(d)' = RowsOf(d) \cup {row}
    BY <2>1, <2>2, <2>3
  <2> HIDE DEF row
  <2> QED
    BY <2>4, <2>5, FS_AddElement
<1> QED
  BY <1>2, <1>3

\* How a step changes what a device has stored, counted and still owes.
LEMMA OwingStep ==
  ASSUME TypeOK, Next, NEW d \in Devices
  PROVE  \/ /\ rows' = rows \/ \E f \in Events : StoreRow(f)
            /\ deviceState'[d].count = deviceState[d].count
            /\ Owing(d)' \subseteq Owing(d)
         \/ \E t \in Tasks : /\ EventOf(t) \in Events /\ StoreRow(EventOf(t))
                             /\ DeviceOf[EventOf(t)] = d
                             /\ deviceState'[d].count = deviceState[d].count
                             /\ Owing(d)' \subseteq Owing(d) \cup {t}
         \/ \E t \in Owing(d) : /\ rows' = rows
                                /\ deviceState'[d].count = deviceState[d].count + 1
                                /\ Owing(d)' \subseteq Owing(d) \ {t}
<1> DEFINE Same == rows' = rows /\ deviceState' = deviceState
<1>1. CASE JoinGroup \/ Rebalance
  <2>1. Same /\ Owing(d)' = Owing(d)
    BY <1>1 DEF JoinGroup, Rebalance, Assign, taskVars, sinkVars, Owing, EventOf, EventAt
  <2> QED
    BY <2>1
<1>2. ASSUME NEW w \in Workers, Exit(w) PROVE Same /\ Owing(d)' \subseteq Owing(d)
  BY <1>2 DEF Exit, sinkVars, Owing, EventOf, EventAt
<1>3. ASSUME NEW w \in Workers, NEW p \in Partitions, Poll(w, p)
      PROVE  Same /\ Owing(d)' \subseteq Owing(d)
  BY <1>3 DEF Poll, taskVars, sinkVars, Owing, EventOf, EventAt
<1>4. ASSUME NEW w \in Workers, NEW t \in Tasks, SpawnTask(w, t)
      PROVE  Same /\ Owing(d)' \subseteq Owing(d)
  <2>1. pc'[t] = "check" /\ \A u \in Tasks \ {t} : pc'[u] = pc[u] /\ job'[u] = job[u]
    BY <1>4 DEF SpawnTask, TypeOK
  <2>2. Same
    BY <1>4 DEF SpawnTask, sinkVars
  <2> QED
    BY <2>1, <2>2 DEF Owing, EventOf, EventAt
<1>5. ASSUME NEW e \in Events, EvictKey(e) PROVE Same /\ Owing(d)' \subseteq Owing(d)
  BY <1>5 DEF EvictKey, taskVars, sinkVars, Owing, EventOf, EventAt
<1>6. ASSUME NEW t \in Tasks, TaskStep(t)
      PROVE  \/ (rows' = rows \/ \E f \in Events : StoreRow(f)) /\ deviceState' = deviceState
                  /\ Owing(d)' \subseteq Owing(d)
             \/ /\ EventOf(t) \in Events /\ StoreRow(EventOf(t))
                /\ DeviceOf[EventOf(t)] = d
                /\ deviceState' = deviceState
                /\ Owing(d)' \subseteq Owing(d) \cup {t}
             \/ /\ rows' = rows /\ t \in Owing(d)
                /\ deviceState'[d].count = deviceState[d].count + 1
                /\ Owing(d)' \subseteq Owing(d) \ {t}
             \/ /\ rows' = rows
                /\ deviceState'[d].count = deviceState[d].count
                /\ Owing(d)' \subseteq Owing(d)
  <2>1. \A u \in Tasks \ {t} : pc'[u] = pc[u] /\ job'[u] = job[u]
    BY <1>6 DEF TaskStep, SkipCheck, Claim, SkipDuplicate, CheckFailsOpen, ProcessRaises,
       InsertSucceeds, InsertFails, InsertRejected, EnsureDevice, UpsertState, ReleaseKey,
       PublishDeadLetter, RecordDeadLetter, CommitOffset, CommitFails, Finish, Goto, TypeOK
  <2>2. /\ Owing(d)' \subseteq Owing(d) \cup {t}
        /\ pc'[t] \notin {"device", "state"} => Owing(d)' \subseteq Owing(d) \ {t}
    BY <2>1 DEF Owing, EventOf, EventAt
  <2>3. Running(t) => EventOf(t) \in Events
    BY RunningJob
  <2>4. CASE InsertSucceeds(t)
    <3>1. /\ EventOf(t) \in Events /\ StoreRow(EventOf(t)) /\ deviceState' = deviceState
          /\ EventOf(t)' = EventOf(t)
      BY <2>3, <2>4 DEF InsertSucceeds, Running, EventOf, EventAt
    <3>2. DeviceOf[EventOf(t)] # d => Owing(d)' \subseteq Owing(d)
      BY <2>2, <3>1 DEF Owing
    <3> QED
      BY <2>2, <3>1, <3>2
  <2>5. CASE UpsertState(t)
    <3>1. rows' = rows /\ pc'[t] = "commit" /\ EventOf(t) \in Events
      BY <2>3, <2>5 DEF UpsertState, Goto, Running, TypeOK
    <3>2. Owing(d)' \subseteq Owing(d) \ {t}
      BY <2>2, <3>1
    <3>3. \/ deviceState' = deviceState
          \/ StoreState(EventOf(t))
      BY <2>5 DEF UpsertState
    <3>4. ASSUME StoreState(EventOf(t))
          PROVE  deviceState'[d].count
                   = deviceState[d].count + (IF DeviceOf[EventOf(t)] = d THEN 1 ELSE 0)
      <4>1. deviceState[d].count \in Nat
        BY DEF TypeOK, DeviceRows
      <4> QED
        BY <3>4, <4>1 DEF StoreState, TypeOK
    <3>5. DeviceOf[EventOf(t)] = d => t \in Owing(d)
      BY <2>5 DEF UpsertState, Owing
    <3>6. deviceState[d].count \in Nat
      BY DEF TypeOK, DeviceRows
    <3> QED
      BY <3>1, <3>2, <3>3, <3>4, <3>5, <3>6
  <2>6. CASE InsertFails(t)
    <3>1. /\ pc'[t] \notin {"device", "state"} /\ deviceState' = deviceState
          /\ rows' = rows \/ StoreRow(EventOf(t))
          /\ EventOf(t) \in Events
      BY <2>3, <2>6 DEF InsertFails, AfterFailedAttempt, Goto, Running, TypeOK
    <3> QED
      BY <2>2, <3>1
  <2>7. CASE EnsureDevice(t)
    <3>1. Same /\ pc[t] = "device" /\ EventOf(t)' = EventOf(t)
      BY <2>7 DEF EnsureDevice, EventOf, EventAt
    <3>2. Owing(d)' \subseteq Owing(d)
      BY <2>2, <3>1 DEF Owing
    <3> QED
      BY <3>1, <3>2
  <2>8. CASE ~(InsertSucceeds(t) \/ UpsertState(t) \/ InsertFails(t) \/ EnsureDevice(t))
    <3>1. Same
      BY <1>6, <2>8 DEF TaskStep, SkipCheck, Claim, SkipDuplicate, CheckFailsOpen,
         ProcessRaises, InsertRejected, ReleaseKey, PublishDeadLetter, RecordDeadLetter,
         CommitOffset, CommitFails, sinkVars
    <3>2. pc'[t] \notin {"device", "state"}
      BY <1>6, <2>3, <2>8, NextLabel DEF TaskStep, SkipCheck, Claim, SkipDuplicate,
         CheckFailsOpen, ProcessRaises, InsertRejected, ReleaseKey, PublishDeadLetter,
         RecordDeadLetter, CommitOffset, CommitFails, Finish, Goto, Running, TypeOK
    <3> QED
      BY <2>2, <3>1, <3>2
  <2> QED
    BY <2>4, <2>5, <2>6, <2>7, <2>8
<1>7. CASE \E w \in Workers : Crash(w) \/ FetchFails(w) \/ LoopStep(w)
  <2>1. Same /\ Owing(d)' \subseteq Owing(d)
    BY <1>2, <1>3, <1>4, <1>7 DEF LoopStep, Crash, FetchFails, PollPoison
  <2> QED
    BY <2>1
<1>8. CASE \E e \in Events : EvictKey(e)
  BY <1>5, <1>8
<1>9. CASE \E t \in Tasks : TaskStep(t)
  BY <1>6, <1>9
<1> QED
  BY <1>1, <1>7, <1>8, <1>9 DEF Next

\* CountInv is inductive.
LEMMA CountInvStays == TypeOK /\ CountInv /\ [Next]_vars => CountInv'
<1>1. ASSUME TypeOK, CountInv, Next, NEW d \in Devices
      PROVE  /\ IsFiniteSet(RowsOf(d)')
             /\ deviceState'[d].count + Cardinality(Owing(d)') <= Cardinality(RowsOf(d)')
  <2> DEFINE count == deviceState[d].count
             n == Cardinality(Owing(d))
             m == Cardinality(Owing(d)')
             k == Cardinality(RowsOf(d))
             l == Cardinality(RowsOf(d)')
  <2>1. IsFiniteSet(RowsOf(d)) /\ count + n <= k
    BY <1>1 DEF CountInv
  <2>2. IsFiniteSet(Owing(d)) /\ Owing(d) \subseteq Tasks
    BY FS_Subset, ConstantsAssumption DEF Owing
  <2>3. count \in Nat /\ n \in Nat /\ k \in Nat
    BY <1>1, <2>1, <2>2, FS_CardinalityType DEF TypeOK, DeviceRows
  <2>4. ASSUME NEW S, Owing(d)' \subseteq S, S \subseteq Tasks
        PROVE  m \in Nat /\ Cardinality(S) \in Nat /\ m <= Cardinality(S)
    <3>1. IsFiniteSet(S)
      BY <2>4, FS_Subset, ConstantsAssumption
    <3>2. IsFiniteSet(Owing(d)') /\ m <= Cardinality(S)
      BY <2>4, <3>1, FS_Subset
    <3> QED
      BY <3>1, <3>2, FS_CardinalityType
  <2>5. CASE /\ rows' = rows \/ \E f \in Events : StoreRow(f)
             /\ deviceState'[d].count = count
             /\ Owing(d)' \subseteq Owing(d)
    <3>1. m \in Nat /\ m <= n
      BY <2>2, <2>4, <2>5
    <3>2. IsFiniteSet(RowsOf(d)') /\ (l = k \/ l = k + 1)
      <4>1. CASE rows' = rows
        <5>1. RowsOf(d)' = RowsOf(d)
          BY <4>1 DEF RowsOf
        <5> QED
          BY <2>1, <5>1
      <4>2. ASSUME NEW f \in Events, StoreRow(f)
            PROVE  IsFiniteSet(RowsOf(d)') /\ (l = k \/ l = k + 1)
        BY <1>1, <2>1, <4>2, RowsStep
      <4> QED
        BY <2>5, <4>1, <4>2
    <3> HIDE DEF count, n, m, k, l
    <3>3. deviceState'[d].count = count
      BY <2>5
    <3>4. count + m <= l
      BY <2>1, <2>3, <3>1, <3>2
    <3> QED
      BY <3>2, <3>3, <3>4 DEF m, l
  <2>6. ASSUME NEW t \in Tasks, EventOf(t) \in Events, StoreRow(EventOf(t)),
               DeviceOf[EventOf(t)] = d, deviceState'[d].count = count,
               Owing(d)' \subseteq Owing(d) \cup {t}
        PROVE  IsFiniteSet(RowsOf(d)') /\ deviceState'[d].count + m <= l
    <3>0. Cardinality(Owing(d) \cup {t}) = n + (IF t \in Owing(d) THEN 0 ELSE 1)
      BY <2>2, <2>6, CountTasks, Zenon
    <3>1. Cardinality(Owing(d) \cup {t}) <= n + 1
      BY <2>3, <3>0
    <3>2. m \in Nat /\ Cardinality(Owing(d) \cup {t}) \in Nat
            /\ m <= Cardinality(Owing(d) \cup {t})
      BY <2>2, <2>4, <2>6
    <3>3. IsFiniteSet(RowsOf(d)') /\ l = k + 1
      BY <1>1, <2>1, <2>6, RowsStep
    <3> HIDE DEF count, n, m, k, l
    <3> QED
      BY <2>1, <2>3, <2>6, <3>1, <3>2, <3>3
  <2>7. ASSUME NEW t \in Owing(d), rows' = rows, deviceState'[d].count = count + 1,
               Owing(d)' \subseteq Owing(d) \ {t}
        PROVE  IsFiniteSet(RowsOf(d)') /\ deviceState'[d].count + m <= l
    <3>1. Cardinality(Owing(d) \ {t}) = n - 1
      BY <2>2, <2>3, CountTasks
    <3>2. m \in Nat /\ Cardinality(Owing(d) \ {t}) \in Nat
            /\ m <= Cardinality(Owing(d) \ {t})
      BY <2>2, <2>4, <2>7
    <3>3. RowsOf(d)' = RowsOf(d)
      BY <2>7 DEF RowsOf
    <3>4. IsFiniteSet(RowsOf(d)') /\ l = k
      BY <2>1, <3>3
    <3> HIDE DEF count, n, m, k, l
    <3> QED
      BY <2>1, <2>3, <2>7, <3>1, <3>2, <3>4
  <2> HIDE DEF m, l
  <2>8. IsFiniteSet(RowsOf(d)') /\ deviceState'[d].count + m <= l
    BY <1>1, <2>5, <2>6, <2>7, OwingStep DEF m, l
  <2> QED
    BY <2>8 DEF m, l
<1>2. ASSUME CountInv, UNCHANGED vars PROVE CountInv'
  BY <1>2 DEF CountInv, RowsOf, Owing, EventOf, EventAt, vars, taskVars, sinkVars
<1>3. ASSUME TypeOK, CountInv, Next PROVE CountInv'
  BY <1>1, <1>3 DEF CountInv
<1> QED
  BY <1>2, <1>3

LEMMA StateInvsInit == Init => StateInv /\ CountInv
<1>1. Init => StateInv
  BY DEF Init, StateInv, LastStored
<1>2. Init => CountInv
  <2> SUFFICES ASSUME Init, NEW d \in Devices
               PROVE  /\ IsFiniteSet(RowsOf(d))
                      /\ deviceState[d].count + Cardinality(Owing(d)) <= Cardinality(RowsOf(d))
    BY DEF CountInv
  <2>1. RowsOf(d) = {}
    BY DEF Init, RowsOf
  <2>2. Owing(d) = {}
    BY DEF Init, Owing
  <2>3. deviceState[d].count = 0
    BY DEF Init
  <2>4. Cardinality({}) = 0 /\ IsFiniteSet({})
    BY FS_EmptySet
  <2> QED
    BY <2>1, <2>2, <2>3, <2>4
<1> QED
  BY <1>1, <1>2

\* What the tasks still owe only makes the count smaller.
LEMMA StateInvsSuffice == TypeOK /\ StateInv /\ CountInv => StateBehindRows
<1> SUFFICES ASSUME TypeOK, CountInv, NEW d \in Devices
             PROVE  deviceState[d].count <= Cardinality(RowsOf(d))
  BY DEF StateInv, StateBehindRows, CountBehindRows
<1>1. deviceState[d].count + Cardinality(Owing(d)) <= Cardinality(RowsOf(d))
  BY DEF CountInv
<1>2. Cardinality(Owing(d)) \in Nat
  BY FS_Subset, FS_CardinalityType, ConstantsAssumption DEF Owing
<1>3. Cardinality(RowsOf(d)) \in Nat /\ deviceState[d].count \in Nat
  BY FS_CardinalityType DEF CountInv, TypeOK, DeviceRows
<1> QED
  BY <1>1, <1>2, <1>3

\* The row of device_state names a stored event of its device, and counts no
\* more events of it than the events table holds.
THEOREM StateAlwaysBehindRows == Spec => []StateBehindRows
<1> QED
  BY StateInvsInit, StateInvsSuffice, TypeCorrect, StateInvStays, CountInvStays, PTL DEF Spec

-----------------------------------------------------------------------------
(***************************************************************************)
(* What faults are to blame for: extra rows, abandoned dead letters, and   *)
(* records that a process took with it.                                    *)
(***************************************************************************)

\* The failures of a kind are as many as the budget has lost.
WithinBudget == \A fault \in Faults : budget[fault] <= Budget[fault]

LEMMA FailureNumbers ==
  ASSUME TypeOK, WithinBudget, NEW fault \in Faults
  PROVE  Failures(fault) \in Nat /\ budget[fault] = Budget[fault] - Failures(fault)
<1>1. budget[fault] \in Nat /\ Budget[fault] \in Nat /\ budget[fault] <= Budget[fault]
  BY ConstantsAssumption DEF TypeOK, WithinBudget
<1> QED
  BY <1>1 DEF Failures

\* Failures only add up, and the one that a step spends counts.
LEMMA FailuresGrow ==
  ASSUME TypeOK, WithinBudget, Next
  PROVE  /\ WithinBudget'
         /\ \A fault \in Faults :
              /\ Failures(fault) \in Nat /\ Failures(fault)' \in Nat
              /\ Failures(fault)' >= Failures(fault)
              /\ Spend(fault) => Failures(fault)' = Failures(fault) + 1
<1> SUFFICES ASSUME NEW fault \in Faults
             PROVE  /\ budget'[fault] <= Budget[fault]
                    /\ Failures(fault) \in Nat /\ Failures(fault)' \in Nat
                    /\ Failures(fault)' >= Failures(fault)
                    /\ Spend(fault) => Failures(fault)' = Failures(fault) + 1
  BY DEF WithinBudget
<1>1. /\ budget[fault] \in Nat /\ budget'[fault] \in Nat /\ budget'[fault] <= budget[fault]
  BY BudgetFalls
<1>2. Budget[fault] \in Nat /\ budget[fault] <= Budget[fault]
  BY ConstantsAssumption DEF WithinBudget
<1>3. Spend(fault) => budget'[fault] = budget[fault] - 1
  BY DEF Spend, TypeOK
<1> QED
  BY <1>1, <1>2, <1>3 DEF Failures

\* A charge to an event is a fault of its own, or the stray of a release.
ChargeOf(e) ==
  /\ misses' = [misses EXCEPT ![e] = @ + 1]
  /\ \/ strays' = strays + 1
     \/ strays' = strays /\ \E fault \in {"redis", "evict", "dbAck"} : Spend(fault)

LEMMA ChargeStep ==
  ASSUME TypeOK, Next
  PROVE  UNCHANGED <<misses, strays>> \/ \E e \in Events : ChargeOf(e)
<1>1. ASSUME NEW t \in Tasks, CheckFailsOpen(t) \/ InsertFails(t) \/ ReleaseKey(t)
      PROVE  UNCHANGED <<misses, strays>> \/ \E e \in Events : ChargeOf(e)
  <2>1. EventOf(t) \in Events
    BY <1>1, RunningJob DEF CheckFailsOpen, InsertFails, ReleaseKey, Running
  <2>2. CASE CheckFailsOpen(t)
    BY <2>1, <2>2 DEF CheckFailsOpen, ChargeOf
  <2>3. CASE InsertFails(t)
    BY <2>1, <2>3 DEF InsertFails, ChargeOf
  <2>4. CASE ReleaseKey(t)
    <3>1. Upper[EventOf(t)] \in Events
      BY <2>1, ConstantsAssumption
    <3> QED
      BY <2>4, <3>1 DEF ReleaseKey, DropKey, ChargeOf
  <2> QED
    BY <1>1, <2>2, <2>3, <2>4
<1>2. ASSUME NEW e \in Events, EvictKey(e) PROVE ChargeOf(e)
  BY <1>2 DEF EvictKey, ChargeOf
<1>3. ASSUME NEW t \in Tasks, TaskStep(t),
             ~CheckFailsOpen(t), ~InsertFails(t), ~ReleaseKey(t)
      PROVE  UNCHANGED <<misses, strays>>
  BY <1>3 DEF TaskStep, SkipCheck, Claim, SkipDuplicate, ProcessRaises, InsertSucceeds,
     InsertRejected, EnsureDevice, UpsertState, PublishDeadLetter, RecordDeadLetter,
     CommitOffset, CommitFails, historyVars
<1>4. CASE JoinGroup \/ Rebalance
             \/ \E w \in Workers : Crash(w) \/ FetchFails(w) \/ LoopStep(w)
  BY <1>4 DEF JoinGroup, Rebalance, Assign, Crash, FetchFails, LoopStep, Poll, PollPoison,
     Exit, SpawnTask, historyVars
<1> QED
  BY <1>1, <1>2, <1>3, <1>4 DEF Next

\* A charge more is one pair more.
LEMMA ChargesStep ==
  ASSUME TypeOK, IsFiniteSet(Charges), NEW e \in Events,
         misses' = [misses EXCEPT ![e] = @ + 1]
  PROVE  /\ IsFiniteSet(Charges')
         /\ Cardinality(Charges) \in Nat /\ Cardinality(Charges') \in Nat
         /\ Cardinality(Charges') <= Cardinality(Charges) + 1
<1> DEFINE charge == <<e, misses[e] + 1>>
<1>1. /\ \A f \in Events : misses[f] \in Nat
      /\ misses'[e] = misses[e] + 1
      /\ \A f \in Events \ {e} : misses'[f] = misses[f]
  BY DEF TypeOK
<1>2. ASSUME NEW r, r \in Charges' PROVE r \in Charges \cup {charge}
  <2>1. PICK f \in Events : r \in {f} \X (1..misses'[f])
    BY <1>2 DEF Charges
  <2>2. PICK i \in 1..misses'[f] : r = <<f, i>>
    BY <2>1
  <2>3. CASE f = e /\ i = misses[e] + 1
    BY <2>2, <2>3
  <2>4. CASE ~(f = e /\ i = misses[e] + 1)
    <3>1. i \in 1..misses[f]
      BY <1>1, <2>2, <2>4
    <3> QED
      BY <2>1, <2>2, <3>1 DEF Charges
  <2> QED
    BY <2>3, <2>4
<1> HIDE DEF charge
<1>3. /\ IsFiniteSet(Charges \cup {charge}) /\ Cardinality(Charges) \in Nat
      /\ \/ Cardinality(Charges \cup {charge}) = Cardinality(Charges)
         \/ Cardinality(Charges \cup {charge}) = Cardinality(Charges) + 1
  BY FS_AddElement, FS_CardinalityType
<1>4. Charges' \subseteq Charges \cup {charge}
  BY <1>2
<1>5. IsFiniteSet(Charges') /\ Cardinality(Charges') <= Cardinality(Charges \cup {charge})
  BY <1>3, <1>4, FS_Subset
<1>6. Cardinality(Charges') \in Nat
  BY <1>5, FS_CardinalityType
<1> QED
  BY <1>3, <1>5, <1>6

\* ChargesPaid is inductive.
LEMMA ChargesPaidStays == TypeOK /\ ChargesPaid /\ [Next]_vars => ChargesPaid'
<1>1. ASSUME TypeOK, ChargesPaid, Next PROVE ChargesPaid'
  <2>1. WithinBudget
    BY <1>1 DEF ChargesPaid, WithinBudget
  <2>2. /\ WithinBudget'
        /\ \A fault \in Faults :
             /\ Failures(fault) \in Nat /\ Failures(fault)' \in Nat
             /\ Failures(fault)' >= Failures(fault)
             /\ Spend(fault) => Failures(fault)' = Failures(fault) + 1
    BY <1>1, <2>1, FailuresGrow
  <2>3. /\ Payments \in Nat /\ Payments' \in Nat
        /\ strays' \in Nat /\ strays \in Nat
        /\ strays' >= strays => Payments' >= Payments
        /\ strays' = strays + 1 => Payments' >= Payments + 1
        /\ \A fault \in {"redis", "evict", "dbAck"} :
             strays' = strays /\ Spend(fault) => Payments' >= Payments + 1
    <3>1. "redis" \in Faults /\ "evict" \in Faults /\ "dbAck" \in Faults
      BY DEF Faults
    <3>2. strays \in Nat /\ strays' \in Nat
      BY <1>1, NextType DEF TypeOK
    <3> QED
      BY <2>2, <3>1, <3>2 DEF Payments
  <2>4. IsFiniteSet(Charges) /\ Cardinality(Charges) \in Nat /\ Cardinality(Charges) <= Payments
    BY <1>1, FS_CardinalityType DEF ChargesPaid
  <2>5. CASE UNCHANGED <<misses, strays>>
    <3>1. Charges' = Charges
      BY <2>5 DEF Charges
    <3>2. Cardinality(Charges) <= Payments'
      BY <2>3, <2>4, <2>5
    <3> QED
      BY <2>2, <2>4, <3>1, <3>2 DEF ChargesPaid, WithinBudget
  <2>6. ASSUME NEW e \in Events, ChargeOf(e) PROVE ChargesPaid'
    <3>1. /\ IsFiniteSet(Charges') /\ Cardinality(Charges') \in Nat
          /\ Cardinality(Charges') <= Cardinality(Charges) + 1
      BY <1>1, <2>4, <2>6, ChargesStep DEF ChargeOf
    <3>2. Payments' >= Payments + 1
      BY <2>3, <2>6 DEF ChargeOf
    <3>3. Cardinality(Charges') <= Payments'
      BY <2>3, <2>4, <3>1, <3>2
    <3> QED
      BY <2>2, <3>1, <3>3 DEF ChargesPaid, WithinBudget
  <2> QED
    BY <1>1, <2>5, <2>6, ChargeStep
<1>2. ASSUME ChargesPaid, UNCHANGED vars PROVE ChargesPaid'
  BY <1>2 DEF ChargesPaid, Charges, Payments, Failures, vars, historyVars
<1> QED
  BY <1>1, <1>2

LEMMA ChargesPaidInit == Init => ChargesPaid
<1> SUFFICES ASSUME Init PROVE ChargesPaid
  OBVIOUS
<1>1. Charges = {}
  <2>1. \A e \in Events : 1..misses[e] = {}
    BY DEF Init
  <2> QED
    BY <2>1 DEF Charges
<1>2. \A fault \in Faults : budget[fault] = Budget[fault] /\ Budget[fault] \in Nat
  BY ConstantsAssumption DEF Init
<1>3. \A fault \in Faults : Failures(fault) = 0
  BY <1>2 DEF Failures
<1>4. Payments = 0
  BY <1>3 DEF Payments, Faults, Init
<1> QED
  BY <1>1, <1>2, <1>4, FS_EmptySet DEF ChargesPaid

\* Each extra row is one of the charges to its event.
LEMMA ExtraRowsAreCharged ==
  ASSUME TypeOK, DuplicatesCharged, ChargesPaid
  PROVE  ExtraRowsPaid
<1>1. ASSUME NEW r \in ExtraRows PROVE r \in Charges
  <2>1. PICK e \in Events : r \in {e} \X (1..rows[e] - 1)
    BY DEF ExtraRows
  <2>2. rows[e] \in Nat /\ misses[e] \in Nat /\ rows[e] <= 1 + misses[e]
    BY DEF TypeOK, DuplicatesCharged
  <2>3. \A i \in 1..rows[e] - 1 : i \in 1..misses[e]
    BY <2>2
  <2> QED
    BY <2>1, <2>3 DEF Charges
<1>2. IsFiniteSet(ExtraRows) /\ Cardinality(ExtraRows) <= Cardinality(Charges)
  BY <1>1, FS_Subset DEF ChargesPaid
<1>3. Cardinality(ExtraRows) \in Nat /\ Cardinality(Charges) \in Nat
  BY <1>2, FS_CardinalityType DEF ChargesPaid
<1>4. WithinBudget /\ "redis" \in Faults /\ "evict" \in Faults /\ "dbAck" \in Faults
  BY DEF ChargesPaid, WithinBudget, Faults
<1>5. Failures("redis") \in Nat /\ Failures("evict") \in Nat /\ Failures("dbAck") \in Nat
  BY <1>4, FailureNumbers
<1>6. strays \in Nat
  BY DEF TypeOK
<1> QED
  BY <1>2, <1>3, <1>5, <1>6 DEF ChargesPaid, ExtraRowsPaid, Payments

\* All events together have no more extra rows than faults that defeat the
\* deduplication have happened and releases have taken the key of another spelling:
\* without either the events table has every event once, however often it is
\* delivered.
THEOREM ExtraRowsAlwaysPaid == Spec => []ExtraRowsPaid
<1>1. Spec => []ChargesPaid
  BY TypeCorrect, ChargesPaidInit, ChargesPaidStays, PTL DEF Spec
<1> QED
  BY <1>1, TypeCorrect, DuplicatesAlwaysCharged, ExtraRowsAreCharged, PTL

\* What the topic of dead letters has stays in it.
LEMMA TopicGrows ==
  ASSUME TypeOK, Next, NEW e, In(dlqTopic, e)
  PROVE  In(dlqTopic, e)'
<1>1. dlqTopic \subseteq dlqTopic'
  BY DEF Next, LoopStep, TaskStep, SkipCheck, Claim, SkipDuplicate, CheckFailsOpen,
     ProcessRaises, InsertSucceeds, InsertFails, InsertRejected, EnsureDevice, UpsertState,
     ReleaseKey, PublishDeadLetter, RecordDeadLetter, CommitOffset, CommitFails, JoinGroup,
     Rebalance, Assign, Crash, FetchFails, Poll, PollPoison, Exit, SpawnTask, EvictKey, dlqVars
<1> QED
  BY <1>1 DEF In

\* Only a produce brings a task to its INSERT into dlq_events.
LEMMA RecordAfterPublish ==
  ASSUME TypeOK, NEW t \in Tasks, TaskStep(t), pc'[t] = "record"
  PROVE  PublishDeadLetter(t)
<1>1. ASSUME Goto(t, "commit") \/ Goto(t, "publish") \/ Goto(t, "device")
               \/ Goto(t, "state") \/ Goto(t, "release") \/ Finish(t)
      PROVE  FALSE
  BY <1>1 DEF Goto, Finish, TypeOK
<1>2. ASSUME Goto(t, AfterValidation(EventOf(t))) PROVE FALSE
  BY <1>2 DEF Goto, AfterValidation, TypeOK
<1>3. ASSUME Goto(t, AfterFailedAttempt(attempt[t] + 1)) PROVE FALSE
  BY <1>3 DEF Goto, AfterFailedAttempt, TypeOK
<1> QED
  BY <1>1, <1>2, <1>3 DEF TaskStep, SkipCheck, Claim, SkipDuplicate, CheckFailsOpen,
     ProcessRaises, InsertSucceeds, InsertFails, InsertRejected, EnsureDevice, UpsertState,
     ReleaseKey, RecordDeadLetter, CommitOffset, CommitFails

\* A refusal is not forgotten, nor is one added but by the task whose call raised.
LEMMA RefusalsGrow ==
  ASSUME TypeOK, Next
  PROVE  /\ refusals \subseteq refusals'
         /\ \A e : <<"topic", e>> \in refusals' =>
              <<"topic", e>> \in refusals \/ Spend("kafka")
<1>1. ASSUME NEW t \in Tasks, PublishDeadLetter(t)
      PROVE  refusals' = refusals \/ (Refuse("topic", t) /\ Spend("kafka"))
  BY <1>1 DEF PublishDeadLetter
<1>2. ASSUME NEW t \in Tasks, RecordDeadLetter(t)
      PROVE  refusals' = refusals \/ Refuse("table", t)
  BY <1>2 DEF RecordDeadLetter
<1>3. ASSUME NEW t \in Tasks, TaskStep(t), ~PublishDeadLetter(t), ~RecordDeadLetter(t)
      PROVE  refusals' = refusals
  BY <1>3 DEF TaskStep, SkipCheck, Claim, SkipDuplicate, CheckFailsOpen, ProcessRaises,
     InsertSucceeds, InsertFails, InsertRejected, EnsureDevice, UpsertState, ReleaseKey,
     CommitOffset, CommitFails, historyVars
<1>4. ASSUME JoinGroup \/ Rebalance \/ \E f \in Events : EvictKey(f)
      PROVE  refusals' = refusals
  BY <1>4 DEF JoinGroup, Rebalance, Assign, EvictKey, historyVars
<1>5. ASSUME \E w \in Workers : Crash(w) \/ FetchFails(w) \/ LoopStep(w)
      PROVE  refusals' = refusals
  BY <1>5 DEF Crash, FetchFails, LoopStep, Poll, PollPoison, Exit, SpawnTask, historyVars
<1>6. \/ refusals' = refusals
      \/ \E t \in Tasks : Refuse("topic", t) /\ Spend("kafka")
      \/ \E t \in Tasks : Refuse("table", t)
  <2>1. ASSUME NEW t \in Tasks, TaskStep(t)
        PROVE  \/ refusals' = refusals
               \/ Refuse("topic", t) /\ Spend("kafka")
               \/ Refuse("table", t)
    <3>1. CASE PublishDeadLetter(t)
      BY <1>1, <3>1
    <3>2. CASE RecordDeadLetter(t)
      BY <1>2, <3>2
    <3>3. CASE ~PublishDeadLetter(t) /\ ~RecordDeadLetter(t)
      BY <1>3, <2>1, <3>3, Zenon
    <3> QED
      BY <3>1, <3>2, <3>3
  <2>2. CASE ~ \E t \in Tasks : TaskStep(t)
    BY <1>4, <1>5, <2>2 DEF Next
  <2> QED
    BY <2>1, <2>2
<1> QED
  BY <1>6 DEF Refuse

\* What PublishedInv says of a task.
PublishedKnown(t) ==
  pc[t] = "record" => In(dlqTopic, EventOf(t)) \/ <<"topic", EventOf(t)>> \in refusals

\* A produce that does not bring the envelope into the topic has raised.
LEMMA PublishKnown ==
  ASSUME NEW t \in Tasks, PublishDeadLetter(t)
  PROVE  PublishedKnown(t)'
<1>1. EventOf(t)' = EventOf(t)
  BY DEF PublishDeadLetter, EventOf, EventAt
<1>2. Envelope(t) \in dlqTopic' \/ Refuse("topic", t)
  BY DEF PublishDeadLetter
<1> QED
  BY <1>1, <1>2 DEF PublishedKnown, In, Envelope, Refuse

\* Whoever is abandoned in a step made process() raise, or has a task whose
\* INSERT into dlq_events raised.
LEMMA AbandonStep ==
  ASSUME TypeOK, Next, NEW e \in abandoned', e \notin abandoned
  PROVE  \/ Kind[e] \in {"notdict", "badid"}
         \/ \E t \in Tasks :
              /\ pc[t] = "record" /\ EventOf(t) = e /\ ~In(dlqTopic, e)
              /\ <<"table", e>> \in refusals'
<1>1. ASSUME NEW t \in Tasks, ProcessRaises(t) PROVE Kind[e] \in {"notdict", "badid"}
  BY <1>1 DEF ProcessRaises
<1>2. ASSUME NEW t \in Tasks, RecordDeadLetter(t)
      PROVE  /\ pc[t] = "record" /\ EventOf(t) = e /\ ~In(dlqTopic, e)
             /\ <<"table", e>> \in refusals'
  <2>1. pc[t] = "record" /\ EventOf(t) = e /\ ~In(dlqTopic, e) /\ ~In(dlqTable', e)
    BY <1>2 DEF RecordDeadLetter, Abandon
  <2>2. dlqTable' # dlqTable \cup {Envelope(t)}
    <3>1. Envelope(t).event = e
      BY <2>1 DEF Envelope
    <3>2. Envelope(t) \notin dlqTable'
      BY <2>1, <3>1 DEF In
    <3> QED
      BY <3>2
  <2>3. Refuse("table", t)
    BY <1>2, <2>2 DEF RecordDeadLetter
  <2> QED
    BY <2>1, <2>3 DEF Refuse
<1>3. ASSUME NEW t \in Tasks, TaskStep(t), ~ProcessRaises(t), ~RecordDeadLetter(t)
      PROVE  abandoned' = abandoned
  BY <1>3 DEF TaskStep, SkipCheck, Claim, SkipDuplicate, CheckFailsOpen, InsertSucceeds,
     InsertFails, InsertRejected, EnsureDevice, UpsertState, ReleaseKey, PublishDeadLetter,
     CommitOffset, CommitFails, historyVars
<1>4. CASE JoinGroup \/ Rebalance \/ \E f \in Events : EvictKey(f)
  BY <1>4 DEF JoinGroup, Rebalance, Assign, EvictKey, historyVars
<1>5. CASE \E w \in Workers : Crash(w) \/ FetchFails(w) \/ LoopStep(w)
  BY <1>5 DEF Crash, FetchFails, LoopStep, Poll, PollPoison, Exit, SpawnTask, historyVars
<1> QED
  BY <1>1, <1>2, <1>3, <1>4, <1>5 DEF Next

\* PublishedInv is inductive.
LEMMA PublishedStays == TypeOK /\ PublishedInv /\ [Next]_vars => PublishedInv'
<1>1. ASSUME TypeOK, PublishedInv, Next PROVE PublishedInv'
  <2>1. refusals \subseteq refusals'
    BY <1>1, RefusalsGrow
  <2>2. \A t \in Tasks : PublishedKnown(t)
    BY <1>1 DEF PublishedInv, PublishedKnown
  <2>3. ASSUME NEW u \in Tasks PROVE PublishedKnown(u)'
    <3>1. CASE pc'[u] = pc[u] /\ job'[u] = job[u]
      <4>1. EventOf(u)' = EventOf(u)
        BY <3>1 DEF EventOf, EventAt
      <4> QED
        BY <1>1, <2>1, <2>2, <3>1, <4>1, TopicGrows DEF PublishedKnown
    <3>2. CASE TaskStep(u)
      BY <1>1, <3>2, RecordAfterPublish, PublishKnown DEF PublishedKnown
    <3>3. ASSUME NEW w \in Workers, u \in RunningOn(w), Exit(w) PROVE pc'[u] = "idle"
      BY <3>3 DEF Exit
    <3>4. ASSUME NEW w \in Workers, SpawnTask(w, u) PROVE pc'[u] = "check"
      BY <1>1, <3>4 DEF SpawnTask, TypeOK
    <3> QED
      BY <1>1, <3>1, <3>2, <3>3, <3>4, TaskFrame DEF SameTask, PublishedKnown
  <2>4. ASSUME NEW e \in abandoned'
        PROVE  Kind[e] \in {"notdict", "badid"} \/ {"topic", "table"} \X {e} \subseteq refusals'
    <3>1. CASE e \in abandoned
      <4>1. Kind[e] \in {"notdict", "badid"} \/ {"topic", "table"} \X {e} \subseteq refusals
        BY <1>1, <3>1 DEF PublishedInv, AbandonedByBoth
      <4> QED
        BY <2>1, <4>1, Zenon
    <3>2. ASSUME NEW t \in Tasks, pc[t] = "record", EventOf(t) = e, ~In(dlqTopic, e)
          PROVE  <<"topic", e>> \in refusals'
      BY <2>1, <2>2, <3>2 DEF PublishedKnown
    <3>3. CASE e \notin abandoned
      <4>1. \/ Kind[e] \in {"notdict", "badid"}
            \/ <<"topic", e>> \in refusals' /\ <<"table", e>> \in refusals'
        BY <1>1, <3>2, <3>3, AbandonStep
      <4>2. ASSUME <<"topic", e>> \in refusals', <<"table", e>> \in refusals'
            PROVE  {"topic", "table"} \X {e} \subseteq refusals'
        BY <4>2
      <4> QED
        BY <4>1, <4>2, Zenon
    <3> QED
      BY <3>1, <3>3, Zenon
  <2> QED
    BY <2>3, <2>4 DEF PublishedInv, AbandonedByBoth, PublishedKnown
<1>2. ASSUME PublishedInv, UNCHANGED vars PROVE PublishedInv'
  BY <1>2 DEF PublishedInv, AbandonedByBoth, In, EventOf, EventAt, vars, taskVars, dlqVars,
     historyVars
<1> QED
  BY <1>1, <1>2

LEMMA PublishedInit == Init => PublishedInv
BY DEF Init, PublishedInv, AbandonedByBoth

\* An event is given up only after a produce and an INSERT into dlq_events for this
\* very event raised, unless it makes process() raise: one sink that works is
\* enough, whichever it is, and whatever happens to other events.
THEOREM AbandonedOnlyByBoth == Spec => []AbandonedByBoth
<1>1. PublishedInv => AbandonedByBoth
  BY DEF PublishedInv
<1> QED
  BY <1>1, PublishedInit, TypeCorrect, PublishedStays, PTL DEF Spec

\* A process that takes records with it crashed, lost its consumer or met a record it
\* cannot read, and a produce that raised did so because Kafka failed.
Unreadable == \E p \in Partitions : \E o \in 1..Len(Log[p]) : Kind[Log[p][o]] = "poison"
ExcusesInv ==
  /\ WithinBudget
  /\ orphans # {} => Failures("crash") > 0 \/ Failures("fetch") > 0 \/ Unreadable
  /\ \A e : <<"topic", e>> \in refusals => Failures("kafka") > 0

LEMMA OrphansStep ==
  ASSUME TypeOK, Next
  PROVE  orphans' = orphans \/ Spend("crash") \/ Spend("fetch") \/ Unreadable
<1>1. ASSUME NEW w \in Workers, NEW p \in Partitions, PollPoison(w, p) PROVE Unreadable
  BY <1>1 DEF PollPoison, CanPoll, EventAt, NextMsg, Unreadable
<1>2. ASSUME NEW w \in Workers, Crash(w) \/ FetchFails(w)
      PROVE  Spend("crash") \/ Spend("fetch")
  BY <1>2 DEF Crash, FetchFails
<1>3. ASSUME NEW w \in Workers, \/ \E p \in Partitions : Poll(w, p)
                                \/ \E t \in Tasks : SpawnTask(w, t)
      PROVE  orphans' = orphans
  BY <1>3 DEF Poll, SpawnTask, historyVars
<1>4. ASSUME NEW t \in Tasks, TaskStep(t) PROVE orphans' = orphans
  BY <1>4 DEF TaskStep, SkipCheck, Claim, SkipDuplicate, CheckFailsOpen, ProcessRaises,
     InsertSucceeds, InsertFails, InsertRejected, EnsureDevice, UpsertState, ReleaseKey,
     PublishDeadLetter, RecordDeadLetter, CommitOffset, CommitFails, historyVars
<1>5. CASE JoinGroup \/ Rebalance \/ \E e \in Events : EvictKey(e)
  BY <1>5 DEF JoinGroup, Rebalance, Assign, EvictKey, historyVars
<1> QED
  BY <1>1, <1>2, <1>3, <1>4, <1>5 DEF Next, LoopStep

LEMMA ExcusesStay == TypeOK /\ ExcusesInv /\ [Next]_vars => ExcusesInv'
<1>1. ASSUME TypeOK, ExcusesInv, Next PROVE ExcusesInv'
  <2>1. /\ WithinBudget'
        /\ \A fault \in {"crash", "fetch", "kafka"} :
             /\ Failures(fault) \in Nat /\ Failures(fault)' \in Nat
             /\ Failures(fault)' >= Failures(fault)
             /\ Spend(fault) => Failures(fault)' = Failures(fault) + 1
    BY <1>1, FailuresGrow DEF ExcusesInv, Faults
  <2>2. \A fault \in {"crash", "fetch", "kafka"} :
          Failures(fault) > 0 \/ Spend(fault) => Failures(fault)' > 0
    BY <2>1
  <2>3. Unreadable' = Unreadable
    BY DEF Unreadable
  <2>4. orphans' # {} => Failures("crash")' > 0 \/ Failures("fetch")' > 0 \/ Unreadable
    BY <1>1, <2>2, OrphansStep DEF ExcusesInv
  <2>5. \A e : <<"topic", e>> \in refusals' => Failures("kafka")' > 0
    BY <1>1, <2>2, RefusalsGrow DEF ExcusesInv
  <2> QED
    BY <2>1, <2>3, <2>4, <2>5 DEF ExcusesInv
<1>2. ASSUME ExcusesInv, UNCHANGED vars PROVE ExcusesInv'
  BY <1>2 DEF ExcusesInv, WithinBudget, Unreadable, Failures, vars, historyVars
<1> QED
  BY <1>1, <1>2

LEMMA ExcusesInit == Init => ExcusesInv
BY ConstantsAssumption DEF Init, ExcusesInv, WithinBudget

\* Without a charge an event has one row, and without a failed produce, a process
\* that ends or a record that makes the worker raise nothing is excused.
LEMMA NothingToExcuse ==
  ASSUME TypeOK, NoSilentLoss, DuplicatesCharged, ChargesPaid, AbandonedByBoth, ExcusesInv
  PROVE  KeptUndisturbed
<1> SUFFICES ASSUME Undisturbed
             PROVE  /\ \A e \in Events : rows[e] <= 1
                    /\ \A p \in Partitions : \A o \in 1..Len(Log[p]) :
                         o < committed[p] => Handled(Log[p][o]) \/ Pending(Log[p][o])
  BY DEF KeptUndisturbed
<1>1. /\ \A fault \in {"redis", "evict", "dbAck", "kafka", "fetch", "crash"} :
           Failures(fault) = 0
      /\ strays = 0
  BY DEF Undisturbed
<1>2. ASSUME NEW e \in Events PROVE rows[e] <= 1
  <2>1. IsFiniteSet(Charges) /\ Cardinality(Charges) <= 0
    BY <1>1 DEF ChargesPaid, Payments
  <2>2. Cardinality(Charges) \in Nat
    BY <2>1, FS_CardinalityType
  <2>3. Charges = {}
    BY <2>1, <2>2, FS_EmptySet
  <2>4. rows[e] \in Nat /\ misses[e] \in Nat /\ rows[e] <= 1 + misses[e]
    BY DEF TypeOK, DuplicatesCharged
  <2>5. misses[e] = 0
    <3>1. 1 \notin 1..misses[e]
      <4>1. ASSUME 1 \in 1..misses[e] PROVE <<e, 1>> \in Charges
        BY <4>1 DEF Charges
      <4> QED
        BY <2>3, <4>1
    <3> QED
      BY <2>4, <3>1
  <2> QED
    BY <2>4, <2>5
<1>3. ASSUME NEW p \in Partitions, NEW o \in 1..Len(Log[p]), o < committed[p]
      PROVE  Handled(Log[p][o]) \/ Pending(Log[p][o])
  <2>1. Kind[Log[p][o]] \notin {"poison", "notdict", "badid"}
    BY DEF Undisturbed
  <2>2. orphans = {}
    <3>1. ~Unreadable
      BY DEF Undisturbed, Unreadable
    <3> QED
      BY <1>1, <3>1 DEF ExcusesInv
  <2>3. Log[p][o] \notin abandoned
    <3>1. <<"topic", Log[p][o]>> \notin refusals
      BY <1>1 DEF ExcusesInv
    <3> QED
      BY <2>1, <3>1 DEF AbandonedByBoth
  <2> QED
    BY <1>3, <2>2, <2>3 DEF NoSilentLoss, Accounted, Settled
<1> QED
  BY <1>2, <1>3

\* Rebalances, redeliveries, commits in any order that may fail, and statements
\* that fail without effect never duplicate an event, nor let the group commit
\* past one that is not stored, dead-lettered or in flight.
THEOREM AlwaysKeptUndisturbed == Spec => []KeptUndisturbed
<1>1. Spec => []ChargesPaid
  BY TypeCorrect, ChargesPaidInit, ChargesPaidStays, PTL DEF Spec
<1>2. Spec => []ExcusesInv
  BY TypeCorrect, ExcusesInit, ExcusesStay, PTL DEF Spec
<1> QED
  BY <1>1, <1>2, TypeCorrect, NothingSilentlyLost, DuplicatesAlwaysCharged,
     AbandonedOnlyByBoth, NothingToExcuse, PTL
=============================================================================
