------------------------ MODULE WorkerProcessProofs -------------------------
(***************************************************************************)
(* Proofs about WorkerProcess, for any workers, tasks, partitions, logs,   *)
(* signals and budgets of faults: what Worker keeps is kept across the     *)
(* shutdown of a process and its restart.                                  *)
(***************************************************************************)
EXTENDS WorkerProcess, WorkerLedgerProofs

-----------------------------------------------------------------------------
(***************************************************************************)
(* A process does what Worker says, ends, gives up the record its loop     *)
(* holds, loses its consumer, leaves the group, or has a task that meets a *)
(* closed client.                                                          *)
(***************************************************************************)
EndStep == \E w \in Workers : Exit(w) /\ UNCHANGED budget
SignalStep == \E w \in Workers : Signal(w)
FetchStep == \E w \in Workers : ConsumerFails(w)
LeaveStep == \E w \in Workers : LeaveGroup(w)
RefusalStep == \E t \in Tasks : RefusedStep(t)

\* The cases of a step, for the variables of Worker.
LEMMA ProcessCases ==
  ASSUME [ProcessNext]_<<vars, processVars>>
  PROVE  [Next]_vars \/ EndStep \/ SignalStep \/ FetchStep \/ LeaveStep \/ RefusalStep
<1>1. CASE MembersJoin \/ MembersRebalance
  BY <1>1 DEF MembersJoin, MembersRebalance, Next
<1>2. ASSUME NEW w \in Workers, Start(w) \/ StopProducer(w) \/ ClosePool(w)
      PROVE  UNCHANGED vars
  BY <1>2 DEF Start, StopProducer, ClosePool
<1>3. ASSUME NEW w \in Workers, End(w) PROVE EndStep
  BY <1>3 DEF End, EndStep
<1>4. ASSUME NEW w \in Workers, ProcessCrash(w) PROVE Next
  BY <1>4 DEF ProcessCrash, Next
<1>5. ASSUME NEW w \in Workers, RunningLoopStep(w) PROVE [Next]_vars
  BY <1>5 DEF RunningLoopStep, LoopFails, LoopStep, Next
<1>6. ASSUME NEW e \in Events, EvictKey(e) PROVE Next
  BY <1>6 DEF Next
<1>7. ASSUME NEW t \in Tasks, ServedStep(t) PROVE Next
  BY <1>7 DEF ServedStep, Next
<1> QED
  BY <1>1, <1>2, <1>3, <1>4, <1>5, <1>6, <1>7
     DEF ProcessNext, ShutdownStep, SignalStep, FetchStep, LeaveStep, RefusalStep

\* What becomes of a task that meets a closed client.
LEMMA RefusedEffect ==
  ASSUME TypeOK, NEW t \in Tasks, RefusedStep(t)
  PROVE  /\ Running(t) /\ EventOf(t) \in Events
         /\ job' = job /\ \A u \in Tasks : EventOf(u)' = EventOf(u)
         /\ UNCHANGED <<groupVars, loopVars, sinkVars, dlqVars, keys, budget, orphans, misses,
                        strays>>
         /\ \/ /\ pc[t] = "insert" /\ CountAttempt(t) /\ CountRetry(t)
               /\ Goto(t, AfterFailedAttempt(attempt[t] + 1))
               /\ UNCHANGED <<abandoned, refusals>>
            \/ /\ pc[t] \in {"device", "state"} /\ Goto(t, "commit")
               /\ UNCHANGED <<attempt, retries, abandoned, refusals>>
            \/ /\ pc[t] = "publish" /\ Goto(t, "record") /\ Refuse("topic", t)
               /\ UNCHANGED <<attempt, retries, abandoned>>
            \/ /\ pc[t] = "record" /\ Goto(t, "commit") /\ Refuse("table", t) /\ Abandon(t)
               /\ UNCHANGED <<attempt, retries>>
<1>1. \/ /\ pc[t] = "insert" /\ CountAttempt(t) /\ CountRetry(t)
         /\ Goto(t, AfterFailedAttempt(attempt[t] + 1))
         /\ UNCHANGED <<abandoned, refusals>>
      \/ /\ pc[t] \in {"device", "state"} /\ Goto(t, "commit")
         /\ UNCHANGED <<attempt, retries, abandoned, refusals>>
      \/ /\ pc[t] = "publish" /\ Goto(t, "record") /\ Refuse("topic", t)
         /\ UNCHANGED <<attempt, retries, abandoned>>
      \/ /\ pc[t] = "record" /\ Goto(t, "commit") /\ Refuse("table", t) /\ Abandon(t)
         /\ UNCHANGED <<attempt, retries>>
  BY DEF RefusedStep, InsertRefused, DeviceRefused, PublishRefused, RecordRefused
<1>2. Running(t)
  BY <1>1 DEF Running
<1>3. EventOf(t) \in Events
  BY <1>2, RunningJob
<1>4. job' = job
      /\ UNCHANGED <<groupVars, loopVars, sinkVars, dlqVars, keys, budget, orphans, misses,
                     strays>>
  BY DEF RefusedStep
<1>5. \A u \in Tasks : EventOf(u)' = EventOf(u)
  BY <1>4 DEF EventOf, EventAt
<1> QED
  BY <1>1, <1>2, <1>3, <1>4, <1>5

-----------------------------------------------------------------------------
(***************************************************************************)
(* Type correctness.                                                       *)
(***************************************************************************)

\* The variables of Worker keep their types.
LEMMA ProcessKeepsTypes ==
  ASSUME TypeOK, [ProcessNext]_<<vars, processVars>>
  PROVE  TypeOK'
<1> USE DEF groupVars, loopVars, taskVars, sinkVars, dlqVars, historyVars
<1>1. CASE [Next]_vars
  BY <1>1, NextType
<1>2. CASE EndStep
  BY <1>2, ExitType DEF EndStep, TypeOK
<1>3. CASE SignalStep
  <2>1. PICK w \in Workers : Signal(w)
    BY <1>3 DEF SignalStep
  <2>2. {EventAt(m) : m \in {held[w]} \ {NoMsg}} \subseteq Events
    BY HeldMsg
  <2>3. orphans' \subseteq Events
    BY <2>1, <2>2 DEF Signal, CancelLoop, TypeOK
  <2> QED
    BY <2>1, <2>3 DEF Signal, CancelLoop, TypeOK, Running
<1>4. CASE LeaveStep
  BY <1>4 DEF LeaveStep, LeaveGroup, TypeOK, Running
<1>6. CASE FetchStep
  BY <1>6, SpendType DEF FetchStep, ConsumerFails, TypeOK, Running, Faults
<1>5. ASSUME NEW t \in Tasks, RefusedStep(t) PROVE TypeOK'
  <2>1. /\ EventOf(t) \in Events /\ job' = job
        /\ UNCHANGED <<groupVars, loopVars, sinkVars, dlqVars, keys, budget, orphans, misses,
                       strays>>
    BY <1>5, RefusedEffect
  <2>2. /\ pc' \in [Tasks -> Labels]
        /\ \A u \in Tasks : pc'[u] = "idle" <=> pc[u] = "idle"
        /\ \A u \in Tasks : pc'[u] = "check" => pc[u] = "check" /\ attempt'[u] = attempt[u]
        /\ attempt' \in [Tasks -> 0..RetryMaxAttempts]
        /\ \A u \in Tasks : pc'[u] = "idle" => attempt'[u] = attempt[u]
        /\ \A u \in Tasks : pc'[u] = "insert" => attempt'[u] < RetryMaxAttempts
    <3>1. CASE /\ pc[t] = "insert" /\ CountAttempt(t)
               /\ Goto(t, AfterFailedAttempt(attempt[t] + 1))
      <4>1. /\ attempt' = [attempt EXCEPT ![t] = attempt[t] + 1]
            /\ attempt[t] + 1 \in 1..RetryMaxAttempts
            /\ attempt' \in [Tasks -> 0..RetryMaxAttempts]
        BY <3>1, AttemptType
      <4>2. PICK l \in {"insert", "release"} :
              /\ pc' = [pc EXCEPT ![t] = l]
              /\ l = "insert" => attempt[t] + 1 < RetryMaxAttempts
        BY <3>1 DEF Goto, AfterFailedAttempt
      <4> QED
        BY <3>1, <4>1, <4>2 DEF TypeOK, Labels
    <3>2. CASE /\ pc[t] \in {"device", "state", "publish", "record"}
               /\ Goto(t, "commit") \/ Goto(t, "record")
               /\ attempt' = attempt
      BY <3>2 DEF Goto, TypeOK, Labels
    <3> QED
      BY <1>5, <3>1, <3>2, RefusedEffect
  <2>3. abandoned' \subseteq Events
    BY <1>5, <2>1, RefusedEffect DEF Abandon, TypeOK
  <2>4. CounterTypes'
    <3>1. retries \in [Tasks -> Nat] /\ refusals \subseteq {"topic", "table"} \X Events
          /\ strays' \in Nat
      BY <2>1 DEF TypeOK
    <3>2. retries' \in [Tasks -> Nat]
      BY <1>5, <3>1, RefusedEffect, CounterSteps
    <3>3. refusals' \subseteq {"topic", "table"} \X Events
      BY <1>5, <3>1, RefusedEffect, CounterSteps
    <3> QED
      BY <3>1, <3>2, <3>3 DEF CounterTypes
  <2> QED
    BY <2>1, <2>2, <2>3, <2>4 DEF TypeOK, CounterTypes, Running
<1> QED
  BY <1>1, <1>2, <1>3, <1>4, <1>5, <1>6, ProcessCases DEF RefusalStep

\* What ProcessTypeOK says beyond TypeOK.
ProcessShape ==
  /\ phase \in [Workers -> Phases]
  /\ signals \in 0..MaxSignals
  /\ busy \subseteq Tasks
  /\ \A t \in busy : pc[t] \in DbLabels /\ phase[job[t].by] = "closing"
  /\ \A p \in Partitions : owner[p] \in Members \cup {NoWorker}
  /\ \A w \in Workers : phase[w] # "running" => held[w] = NoMsg

\* A phase changes for one worker at a time.
LEMMA AdvancePhase ==
  ASSUME ProcessShape, NEW w \in Workers, NEW from, NEW to \in Phases, Advance(w, from, to)
  PROVE  /\ phase[w] = from /\ phase'[w] = to
         /\ phase' \in [Workers -> Phases]
         /\ \A v \in Workers \ {w} : phase'[v] = phase[v]
BY DEF ProcessShape, Advance

\* A process that starts, moves on after its loop has ended, or closes its pool.
LEMMA PhaseStep ==
  ASSUME TypeOK, ProcessShape, NEW w \in Workers,
         \/ Start(w) \/ Signal(w) \/ LeaveGroup(w) \/ StopProducer(w) \/ ClosePool(w)
         \/ ConsumerFails(w) \/ \E p \in Partitions : LoopFails(w, p)
  PROVE  ProcessShape'
<1> USE DEF Phases
<1>1. CASE Start(w)
  <2>1. phase[w] = "down" /\ phase'[w] = "running" /\ phase' \in [Workers -> Phases]
        /\ \A v \in Workers \ {w} : phase'[v] = phase[v]
    BY <1>1, AdvancePhase DEF Start
  <2>2. UNCHANGED <<owner, held, pc, job, busy, signals>>
    BY <1>1 DEF Start, vars, groupVars, loopVars, taskVars
  <2>3. \A t \in busy : job[t].by # w /\ job[t].by \in Workers
    BY <2>1, RunningJob DEF ProcessShape, DbLabels, Running
  <2> QED
    BY <2>1, <2>2, <2>3 DEF ProcessShape, Members
<1>2. CASE Signal(w)
  <2>1. phase[w] = "running" /\ phase'[w] = "stopping" /\ phase' \in [Workers -> Phases]
        /\ \A v \in Workers \ {w} : phase'[v] = phase[v]
    BY <1>2, AdvancePhase DEF Signal
  <2>2. UNCHANGED <<owner, pc, job, busy>> /\ held' = [held EXCEPT ![w] = NoMsg]
    BY <1>2 DEF Signal, CancelLoop, groupVars, taskVars
  <2>3. \A t \in busy : job[t].by # w /\ job[t].by \in Workers
    BY <2>1, RunningJob DEF ProcessShape, DbLabels, Running
  <2>4. signals' \in 0..MaxSignals
    BY <1>2, SignalsAssumption DEF Signal, ProcessShape
  <2>5. \A v \in Workers : phase'[v] # "running" => held'[v] = NoMsg
    BY <2>1, <2>2 DEF ProcessShape, TypeOK
  <2>6. Members' = Members
    BY <2>1 DEF Members
  <2> QED
    BY <2>1, <2>2, <2>3, <2>4, <2>5, <2>6 DEF ProcessShape
<1>3. CASE ConsumerFails(w) \/ \E p \in Partitions : LoopFails(w, p)
  <2>1. phase[w] = "running" /\ phase'[w] = "stopping" /\ phase' \in [Workers -> Phases]
        /\ \A v \in Workers \ {w} : phase'[v] = phase[v]
    BY <1>3, AdvancePhase DEF ConsumerFails, LoopFails
  <2>2. UNCHANGED <<owner, held, pc, job, busy, signals>> /\ held[w] = NoMsg
    BY <1>3 DEF ConsumerFails, LoopFails, CanPoll, vars, groupVars, loopVars, taskVars
  <2>3. \A t \in busy : job[t].by # w /\ job[t].by \in Workers
    BY <2>1, RunningJob DEF ProcessShape, DbLabels, Running
  <2>4. Members' = Members
    BY <2>1 DEF Members
  <2> QED
    BY <2>1, <2>2, <2>3, <2>4 DEF ProcessShape
<1>4. CASE LeaveGroup(w)
  <2>1. phase[w] = "stopping" /\ phase'[w] = "left" /\ phase' \in [Workers -> Phases]
        /\ \A v \in Workers \ {w} : phase'[v] = phase[v]
    BY <1>4, AdvancePhase DEF LeaveGroup
  <2>2. UNCHANGED <<held, pc, job, busy, signals>>
    BY <1>4 DEF LeaveGroup, loopVars, taskVars
  <2>3. \A t \in busy : job[t].by # w /\ job[t].by \in Workers
    BY <2>1, RunningJob DEF ProcessShape, DbLabels, Running
  <2>4. Members' = Members \ {w}
    BY <2>1 DEF Members
  <2>5. \A p \in Partitions : owner'[p] \in Members' \cup {NoWorker}
    BY <1>4, <2>4 DEF LeaveGroup, ProcessShape
  <2> QED
    BY <2>1, <2>2, <2>3, <2>5 DEF ProcessShape
<1>5. CASE StopProducer(w)
  <2>1. phase[w] = "left" /\ phase'[w] = "flushed" /\ phase' \in [Workers -> Phases]
        /\ \A v \in Workers \ {w} : phase'[v] = phase[v]
    BY <1>5, AdvancePhase DEF StopProducer
  <2>2. UNCHANGED <<owner, held, pc, job, busy, signals>>
    BY <1>5 DEF StopProducer, vars, groupVars, loopVars, taskVars
  <2>3. \A t \in busy : job[t].by # w /\ job[t].by \in Workers
    BY <2>1, RunningJob DEF ProcessShape, DbLabels, Running
  <2>4. Members' = Members
    BY <2>1 DEF Members
  <2> QED
    BY <2>1, <2>2, <2>3, <2>4 DEF ProcessShape
<1>6. CASE ClosePool(w)
  <2>1. phase[w] = "flushed" /\ phase'[w] = "closing" /\ phase' \in [Workers -> Phases]
        /\ \A v \in Workers \ {w} : phase'[v] = phase[v]
    BY <1>6, AdvancePhase DEF ClosePool
  <2>2. UNCHANGED <<owner, held, pc, job, signals>>
    BY <1>6 DEF ClosePool, vars, groupVars, loopVars, taskVars
  <2>3. PICK S \in SUBSET {t \in RunningOn(w) : pc[t] \in DbLabels} : busy' = busy \cup S
    BY <1>6 DEF ClosePool
  <2>4. \A t \in S : t \in Tasks /\ pc[t] \in DbLabels /\ job[t].by = w
    BY <2>3 DEF RunningOn
  <2>5. \A t \in busy : job[t].by # w /\ job[t].by \in Workers
    BY <2>1, RunningJob DEF ProcessShape, DbLabels, Running
  <2>6. \A t \in busy' : pc'[t] \in DbLabels /\ phase'[job'[t].by] = "closing"
    BY <2>1, <2>2, <2>3, <2>4, <2>5 DEF ProcessShape
  <2>7. Members' = Members
    BY <2>1 DEF Members
  <2> QED
    BY <2>1, <2>2, <2>3, <2>4, <2>6, <2>7 DEF ProcessShape
<1> QED
  BY <1>1, <1>2, <1>3, <1>4, <1>5, <1>6

\* The end of a process, or a crash, takes its tasks off the pool's hands.
LEMMA EndShape ==
  ASSUME TypeOK, ProcessShape, NEW w \in Workers, Exit(w),
         phase' = [phase EXCEPT ![w] = "down"], signals' = signals,
         busy' \subseteq busy \ RunningOn(w)
  PROVE  ProcessShape'
<1>1. phase' \in [Workers -> Phases] /\ phase'[w] = "down"
      /\ \A v \in Workers \ {w} : phase'[v] = phase[v]
  BY DEF ProcessShape, Phases
<1>2. \A t \in Tasks \ RunningOn(w) : pc'[t] = pc[t] /\ job'[t] = job[t]
  BY DEF Exit
<1>3. ASSUME NEW t \in busy' PROVE pc'[t] \in DbLabels /\ phase'[job'[t].by] = "closing"
  <2>1. t \in Tasks \ RunningOn(w) /\ pc[t] \in DbLabels /\ phase[job[t].by] = "closing"
    BY <1>3 DEF ProcessShape
  <2>2. job[t].by \in Workers \ {w}
    BY <2>1, RunningJob DEF RunningOn, Running, DbLabels
  <2> QED
    BY <1>1, <1>2, <2>1, <2>2
<1>4. Members' = Members \ {w}
  BY <1>1 DEF Members
<1>5. \A p \in Partitions : owner'[p] \in Members' \cup {NoWorker}
  BY <1>4 DEF Exit, ProcessShape
<1>6. \A v \in Workers : phase'[v] # "running" => held'[v] = NoMsg
  BY <1>1 DEF Exit, ProcessShape, TypeOK
<1> QED
  BY <1>1, <1>3, <1>5, <1>6 DEF ProcessShape

\* A step of a task leaves the loops, and the statements of others, alone.
LEMMA TaskShape ==
  ASSUME TypeOK, ProcessShape, NEW t \in Tasks, ServedStep(t) \/ RefusedStep(t)
  PROVE  ProcessShape'
<1>1. owner' = owner /\ held' = held /\ phase' = phase /\ signals' = signals
  BY DEF ServedStep, RefusedStep, processVars, TaskStep, SkipCheck, Claim, SkipDuplicate,
     CheckFailsOpen, ProcessRaises, InsertSucceeds, InsertFails, InsertRejected, EnsureDevice,
     UpsertState, ReleaseKey, PublishDeadLetter, RecordDeadLetter, CommitOffset, CommitFails,
     groupVars, loopVars
<1>2. t \notin busy' /\ busy' \subseteq busy
  <2>1. CASE ServedStep(t)
    BY <2>1 DEF ServedStep
  <2>2. CASE RefusedStep(t)
    BY <2>2 DEF RefusedStep, Refused, PoolRefuses, processVars, ProcessShape, DbLabels
  <2> QED
    BY <2>1, <2>2
<1>3. \A u \in Tasks \ {t} : pc'[u] = pc[u] /\ job'[u] = job[u]
  <2>1. CASE TaskStep(t)
    BY <2>1 DEF TaskStep, SkipCheck, Claim, SkipDuplicate, CheckFailsOpen, ProcessRaises,
       InsertSucceeds, InsertFails, InsertRejected, EnsureDevice, UpsertState, ReleaseKey,
       PublishDeadLetter, RecordDeadLetter, CommitOffset, CommitFails, Finish, Goto, TypeOK
  <2>2. CASE RefusedStep(t)
    BY <2>2, RefusedEffect DEF Goto, TypeOK
  <2> QED
    BY <2>1, <2>2 DEF ServedStep
<1>4. \A u \in busy' : u \in Tasks \ {t}
  BY <1>2 DEF ProcessShape
<1> QED
  BY <1>1, <1>2, <1>3, <1>4 DEF ProcessShape, Members

\* Every variable has its type, and the pool of a process that ends waits for
\* exactly the statements that are under way.
LEMMA ProcessTypeStays ==
  ProcessTypeOK /\ [ProcessNext]_<<vars, processVars>> => ProcessTypeOK'
<1> SUFFICES ASSUME TypeOK, ProcessShape, [ProcessNext]_<<vars, processVars>>
             PROVE  ProcessShape'
  BY ProcessKeepsTypes DEF ProcessTypeOK, ProcessShape
<1> USE DEF processVars
<1>1. CASE MembersJoin \/ MembersRebalance
  <2>1. /\ UNCHANGED <<phase, busy, signals, held, pc, job>>
        /\ \A p \in Partitions : owner'[p] \in Members
    BY <1>1 DEF MembersJoin, MembersRebalance, JoinGroup, Rebalance, Assign, loopVars, taskVars
  <2> QED
    BY <2>1 DEF ProcessShape, Members
<1>2. ASSUME NEW w \in Workers,
             \/ Start(w) \/ Signal(w) \/ ConsumerFails(w)
             \/ LeaveGroup(w) \/ StopProducer(w) \/ ClosePool(w)
      PROVE  ProcessShape'
  BY <1>2, PhaseStep
<1>3. ASSUME NEW w \in Workers, End(w) PROVE ProcessShape'
  BY <1>3, EndShape DEF End, Advance, PoolIdle
<1>4. ASSUME NEW w \in Workers, ProcessCrash(w) PROVE ProcessShape'
  BY <1>4, EndShape DEF ProcessCrash, Crash
<1>5. ASSUME NEW w \in Workers, RunningLoopStep(w) PROVE ProcessShape'
  <2>1. ASSUME NEW p \in Partitions, Poll(w, p), UNCHANGED processVars PROVE ProcessShape'
    <3>1. UNCHANGED <<phase, busy, signals, owner, pc, job>>
          /\ \A v \in Workers \ {w} : held'[v] = held[v]
      BY <2>1 DEF Poll, taskVars, TypeOK
    <3> QED
      BY <1>5, <3>1 DEF ProcessShape, Members, RunningLoopStep
  <2>2. ASSUME NEW p \in Partitions, LoopFails(w, p) PROVE ProcessShape'
    BY <2>2, PhaseStep
  <2>3. ASSUME NEW t \in Tasks, SpawnTask(w, t), UNCHANGED processVars PROVE ProcessShape'
    <3>1. UNCHANGED <<phase, busy, signals, owner>>
      BY <2>3 DEF SpawnTask, groupVars
    <3>2. \A v \in Workers : held'[v] = held[v] \/ held'[v] = NoMsg
      BY <2>3 DEF SpawnTask, TypeOK
    <3>3. t \notin busy /\ \A u \in Tasks \ {t} : pc'[u] = pc[u] /\ job'[u] = job[u]
      BY <2>3 DEF SpawnTask, Running, ProcessShape, DbLabels, TypeOK
    <3> QED
      BY <3>1, <3>2, <3>3 DEF ProcessShape, Members
  <2> QED
    BY <1>5, <2>1, <2>2, <2>3 DEF RunningLoopStep
<1>6. ASSUME NEW e \in Events, EvictKey(e), UNCHANGED processVars PROVE ProcessShape'
  BY <1>6 DEF EvictKey, groupVars, loopVars, taskVars, ProcessShape, Members
<1>7. ASSUME NEW t \in Tasks, ServedStep(t) \/ RefusedStep(t) PROVE ProcessShape'
  BY <1>7, TaskShape
<1>8. CASE UNCHANGED <<vars, processVars>>
  BY <1>8 DEF vars, groupVars, loopVars, taskVars, ProcessShape, Members
<1> QED
  BY <1>1, <1>2, <1>3, <1>4, <1>5, <1>6, <1>7, <1>8 DEF ProcessNext, ShutdownStep

\* Every variable has its type in every reachable state of the processes; the
\* partitions belong to members of the group, a loop that has ended holds no
\* record, and no pool has closed under a statement.
THEOREM ProcessTypeCorrect == ProcessSpec => []ProcessTypeOK
<1>1. ProcessInit => ProcessTypeOK
  <2> SUFFICES ASSUME ProcessInit PROVE ProcessTypeOK
    OBVIOUS
  <2>1. TypeOK
    BY InitType DEF ProcessInit
  <2> QED
    BY <2>1, SignalsAssumption DEF ProcessInit, Init, ProcessTypeOK, Phases
<1> QED
  BY <1>1, ProcessTypeStays, PTL DEF ProcessSpec

-----------------------------------------------------------------------------
(***************************************************************************)
(* The invariants of Worker.                                               *)
(***************************************************************************)

\* LossInv survives a step that sets no key and moves past no record, if each
\* event stays settled or in the hands it was in, and each task that comes to
\* its commit has its event settled.
LEMMA LossInvKept ==
  ASSUME TypeOK, LossInv, TypeOK', keys' = keys,
         \A e \in Events : Settled(e) => Settled(e)',
         \A e \in Events : AtWork(e, Undecided) => Settled(e)' \/ AtWork(e, Undecided)',
         \A e \in Events : AtWork(e, Undecided \ {"check"})
                             => Settled(e)' \/ AtWork(e, Undecided \ {"check"})',
         \A e \in Events : e \in HeldEvents => Settled(e)' \/ (e \in HeldEvents)',
         \A t \in Tasks : pc'[t] \in {"device", "state", "commit"} =>
           /\ EventOf(t)' = EventOf(t) /\ EventOf(t) \in Events
           /\ pc[t] \in {"device", "state", "commit"} \/ Settled(EventOf(t))',
         \A p \in Partitions : \A o \in 1..Len(Log[p]) : Passed(p, o)' => Passed(p, o)
  PROVE  LossInv'
<1>1. \A e \in Events : Backed(e) => Backed(e)'
  BY DEF Backed
<1>2. \A e \in Events : Accounted(e) => Accounted(e)'
  BY DEF Accounted, Pending
<1>3. KeysBacked'
  BY <1>1 DEF LossInv, KeysBacked, TypeOK
<1>4. DecidedBacked'
  <2> SUFFICES ASSUME NEW t \in Tasks, pc'[t] \in {"device", "state", "commit"}
               PROVE  Backed(EventOf(t))'
    BY DEF DecidedBacked
  <2>1. PICK e \in Events : e = EventOf(t) /\ e = EventOf(t)'
    OBVIOUS
  <2>2. CASE pc[t] \in {"device", "state", "commit"}
    <3>1. Backed(e)
      BY <2>1, <2>2 DEF LossInv, DecidedBacked
    <3>2. Backed(e)'
      BY <1>1, <3>1
    <3> QED
      BY <2>1, <3>2 DEF Backed, Settled, Handled, DeadLettered, In, AtWork
  <2>3. CASE Settled(EventOf(t))'
    BY <2>3 DEF Backed
  <2> QED
    BY <2>2, <2>3
<1>5. PassedAccounted'
  <2> SUFFICES ASSUME NEW p \in Partitions, NEW o \in 1..Len(Log[p]), Passed(p, o)'
               PROVE  Accounted(Log[p][o])'
    BY DEF PassedAccounted
  <2>1. Log[p][o] \in Events
    BY ConstantsAssumption
  <2>2. Accounted(Log[p][o])
    BY DEF LossInv, PassedAccounted
  <2> QED
    BY <1>2, <2>1, <2>2
<1> QED
  BY <1>3, <1>4, <1>5 DEF LossInv

\* What LossInvKept asks of a step that ends a process.
LEMMA EndKeepsLoss ==
  ASSUME TypeOK, LossInv, TypeOK', NEW w \in Workers, Exit(w)
  PROVE  LossInv'
<1>1. UNCHANGED <<keys, rows, dlqTopic, dlqTable, abandoned>> /\ orphans \subseteq orphans'
  BY DEF Exit, sinkVars, dlqVars
<1>2. \A e \in Events : Settled(e) => Settled(e)'
  BY <1>1 DEF Settled, Handled, DeadLettered, In
<1>3. \A u \in Tasks : \/ u \in RunningOn(w)
                       \/ pc'[u] = pc[u] /\ EventOf(u)' = EventOf(u)
  BY DEF Exit, EventOf, EventAt
<1>4. ASSUME NEW e \in Events, NEW labels \in SUBSET Undecided, AtWork(e, labels)
      PROVE  Settled(e)' \/ AtWork(e, labels)'
  <2>1. PICK u \in Tasks : pc[u] \in labels /\ EventOf(u) = e
    BY <1>4 DEF AtWork
  <2>2. CASE u \in RunningOn(w)
    BY <2>1, <2>2, <1>4, ExitOrphans DEF Settled
  <2>3. CASE u \notin RunningOn(w)
    BY <1>3, <2>1, <2>3 DEF AtWork
  <2> QED
    BY <2>2, <2>3
<1>5. \A e \in Events : e \in HeldEvents => Settled(e)' \/ (e \in HeldEvents)'
  <2> SUFFICES ASSUME NEW e \in Events, NEW v \in Workers, held[v] # NoMsg, e = EventAt(held[v])
               PROVE  Settled(e)' \/ (e \in HeldEvents)'
    BY DEF HeldEvents
  <2>1. CASE v = w
    BY <2>1, ExitOrphans DEF Settled
  <2>2. CASE v # w
    BY <2>2 DEF Exit, HeldEvents, EventAt, TypeOK
  <2> QED
    BY <2>1, <2>2
<1>6. \A t \in Tasks : pc'[t] \in {"device", "state", "commit"} =>
        /\ EventOf(t)' = EventOf(t) /\ EventOf(t) \in Events
        /\ pc[t] \in {"device", "state", "commit"}
  <2> SUFFICES ASSUME NEW t \in Tasks, pc'[t] \in {"device", "state", "commit"}
               PROVE  /\ EventOf(t)' = EventOf(t) /\ EventOf(t) \in Events
                      /\ pc[t] \in {"device", "state", "commit"}
    OBVIOUS
  <2>1. t \notin RunningOn(w)
    BY DEF Exit
  <2> QED
    BY <1>3, <2>1, RunningJob DEF Running
<1>7. \A p \in Partitions : \A o \in 1..Len(Log[p]) : Passed(p, o)' => Passed(p, o)
  BY DEF Passed, Exit, TypeOK, Running
<1>8. /\ \A e \in Events : AtWork(e, Undecided) => Settled(e)' \/ AtWork(e, Undecided)'
      /\ \A e \in Events : AtWork(e, Undecided \ {"check"})
                             => Settled(e)' \/ AtWork(e, Undecided \ {"check"})'
  BY <1>4
<1> QED
  BY <1>1, <1>2, <1>5, <1>6, <1>7, <1>8, LossInvKept

\* A cancelled loop leaves the event it had as an orphan.
LEMMA SignalKeepsLoss ==
  ASSUME TypeOK, LossInv, TypeOK', NEW w \in Workers, Signal(w)
  PROVE  LossInv'
<1>1. /\ UNCHANGED <<keys, rows, dlqTopic, dlqTable, abandoned, pc, job, committed, position>>
      /\ orphans \subseteq orphans'
      /\ held' = [held EXCEPT ![w] = NoMsg]
      /\ held[w] # NoMsg => EventAt(held[w]) \in orphans'
  BY DEF Signal, CancelLoop, groupVars, taskVars, sinkVars, dlqVars
<1>2. \A e \in Events : Settled(e) => Settled(e)'
  BY <1>1 DEF Settled, Handled, DeadLettered, In
<1>3. \A t \in Tasks : EventOf(t)' = EventOf(t)
  BY <1>1 DEF EventOf, EventAt
<1>4. /\ \A e \in Events : AtWork(e, Undecided) => AtWork(e, Undecided)'
      /\ \A e \in Events : AtWork(e, Undecided \ {"check"})
                             => AtWork(e, Undecided \ {"check"})'
  BY <1>1, <1>3 DEF AtWork
<1>5. \A e \in Events : e \in HeldEvents => Settled(e)' \/ (e \in HeldEvents)'
  <2> SUFFICES ASSUME NEW e \in Events, NEW v \in Workers, held[v] # NoMsg, e = EventAt(held[v])
               PROVE  Settled(e)' \/ (e \in HeldEvents)'
    BY DEF HeldEvents
  <2>1. CASE v = w
    BY <1>1, <2>1 DEF Settled
  <2>2. CASE v # w
    BY <1>1, <2>2 DEF HeldEvents, EventAt, TypeOK
  <2> QED
    BY <2>1, <2>2
<1>6. \A t \in Tasks : pc'[t] \in {"device", "state", "commit"} =>
        /\ EventOf(t)' = EventOf(t) /\ EventOf(t) \in Events
        /\ pc[t] \in {"device", "state", "commit"}
  BY <1>1, <1>3, RunningJob DEF Running
<1>7. \A p \in Partitions : \A o \in 1..Len(Log[p]) : Passed(p, o)' => Passed(p, o)
  BY <1>1 DEF Passed, Running, TypeOK
<1> QED
  BY <1>1, <1>2, <1>4, <1>5, <1>6, <1>7, LossInvKept

\* A task that meets a closed client goes on as after a failure, and gives its
\* event up only when no dead letter sink has it.
LEMMA RefusalKeepsLoss ==
  ASSUME TypeOK, LossInv, TypeOK', NEW t \in Tasks, RefusedStep(t)
  PROVE  LossInv'
<1>1. /\ UNCHANGED <<keys, rows, dlqTopic, dlqTable, orphans, job, held, committed, position>>
      /\ \A u \in Tasks : EventOf(u)' = EventOf(u)
      /\ Running(t) /\ EventOf(t) \in Events
  BY RefusedEffect DEF groupVars, loopVars, sinkVars, dlqVars
<1>2. \/ pc[t] = "insert" /\ pc'[t] \in {"insert", "release"}
      \/ pc[t] \in {"device", "state"} /\ pc'[t] = "commit"
      \/ pc[t] = "publish" /\ pc'[t] = "record"
      \/ pc[t] = "record" /\ pc'[t] = "commit" /\ Settled(EventOf(t))'
  <2>1. \A l : Goto(t, l) => pc'[t] = l
    BY DEF Goto, TypeOK
  <2>2. AfterFailedAttempt(attempt[t] + 1) \in {"insert", "release"}
    BY DEF AfterFailedAttempt
  <2>3. Abandon(t) => Settled(EventOf(t))'
    BY <1>1 DEF Abandon, Settled, Handled, DeadLettered, In
  <2> QED
    BY <2>1, <2>2, <2>3, RefusedEffect
<1>3. \A u \in Tasks \ {t} : pc'[u] = pc[u]
  BY RefusedEffect DEF Goto, TypeOK
<1>4. abandoned \subseteq abandoned'
  BY RefusedEffect DEF Abandon
<1>5. \A e \in Events : Settled(e) => Settled(e)'
  BY <1>1, <1>4 DEF Settled, Handled, DeadLettered, In
<1>6. ASSUME NEW e \in Events, NEW labels, labels \in {Undecided, Undecided \ {"check"}},
             AtWork(e, labels)
      PROVE  Settled(e)' \/ AtWork(e, labels)'
  <2>1. PICK u \in Tasks : pc[u] \in labels /\ EventOf(u) = e
    BY <1>6 DEF AtWork
  <2>2. CASE u # t
    BY <1>1, <1>3, <2>1, <2>2 DEF AtWork
  <2>3. CASE u = t /\ pc'[t] \in labels
    BY <1>1, <2>1, <2>3 DEF AtWork
  <2>4. CASE u = t /\ pc'[t] \notin labels
    <3>1. pc[t] = "record" /\ Settled(EventOf(t))'
      BY <1>2, <1>6, <2>1, <2>4 DEF Undecided
    <3>2. EventOf(t) = e /\ EventOf(t)' = e
      BY <1>1, <2>1, <2>4
    <3> QED
      BY <3>1, <3>2 DEF Settled, Handled, DeadLettered, In
  <2> QED
    BY <2>2, <2>3, <2>4
<1>7. \A e \in Events : e \in HeldEvents => (e \in HeldEvents)'
  BY <1>1 DEF HeldEvents, EventAt
<1>8. \A u \in Tasks : pc'[u] \in {"device", "state", "commit"} =>
        /\ EventOf(u)' = EventOf(u) /\ EventOf(u) \in Events
        /\ pc[u] \in {"device", "state", "commit"} \/ Settled(EventOf(u))'
  <2> SUFFICES ASSUME NEW u \in Tasks, pc'[u] \in {"device", "state", "commit"}
               PROVE  /\ EventOf(u) \in Events
                      /\ pc[u] \in {"device", "state", "commit"} \/ Settled(EventOf(u))'
    BY <1>1
  <2>1. CASE u = t
    BY <1>1, <1>2, <2>1
  <2>2. CASE u # t
    BY <1>3, <2>2, RunningJob DEF Running
  <2> QED
    BY <2>1, <2>2
<1>9. \A p \in Partitions : \A o \in 1..Len(Log[p]) : Passed(p, o)' => Passed(p, o)
  <2>1. \A u \in Tasks : Running(u)' => Running(u)
    BY <1>1, <1>3 DEF Running
  <2> QED
    BY <1>1, <2>1 DEF Passed
<1>10. /\ \A e \in Events : AtWork(e, Undecided) => Settled(e)' \/ AtWork(e, Undecided)'
       /\ \A e \in Events : AtWork(e, Undecided \ {"check"})
                              => Settled(e)' \/ AtWork(e, Undecided \ {"check"})'
  BY <1>6
<1> QED
  BY <1>1, <1>5, <1>7, <1>8, <1>9, <1>10, LossInvKept

\* LossInv is inductive for the processes as well.
LEMMA ProcessKeepsLoss ==
  TypeOK /\ LossInv /\ [ProcessNext]_<<vars, processVars>> => LossInv'
<1> SUFFICES ASSUME TypeOK, LossInv, [ProcessNext]_<<vars, processVars>> PROVE LossInv'
  OBVIOUS
<1>1. TypeOK'
  BY ProcessKeepsTypes
<1>2. CASE [Next]_vars
  BY <1>2, LossInvStays
<1>3. CASE EndStep
  BY <1>1, <1>3, EndKeepsLoss DEF EndStep
<1>4. CASE SignalStep
  BY <1>1, <1>4, SignalKeepsLoss DEF SignalStep
<1>5. CASE LeaveStep \/ FetchStep
  <2>1. UNCHANGED <<keys, committed, held, pc, job, rows, dlqTopic, dlqTable, orphans, abandoned>>
    BY <1>5 DEF LeaveStep, LeaveGroup, FetchStep, ConsumerFails, groupVars, loopVars, taskVars,
       sinkVars, dlqVars, historyVars
  <2>2. position' = position
    BY <1>5 DEF LeaveStep, LeaveGroup, FetchStep, ConsumerFails, groupVars
  <2> QED
    BY <2>1, <2>2, SameLoss
<1>6. CASE RefusalStep
  BY <1>1, <1>6, RefusalKeepsLoss DEF RefusalStep
<1> QED
  BY <1>2, <1>3, <1>4, <1>5, <1>6, ProcessCases

\* Neither the end of a process nor a closed client makes a task insert.
LEMMA ProcessInserting ==
  ASSUME TypeOK, EndStep \/ SignalStep \/ FetchStep \/ LeaveStep \/ RefusalStep, NEW e \in Events
  PROVE  Inserting(e)' \subseteq Inserting(e) /\ UNCHANGED <<keys, rows, misses>>
<1>1. CASE EndStep
  BY <1>1 DEF EndStep, Exit, Inserting, EventOf, EventAt, sinkVars
<1>2. CASE SignalStep \/ FetchStep \/ LeaveStep
  BY <1>2 DEF SignalStep, Signal, FetchStep, ConsumerFails, LeaveStep, LeaveGroup, Inserting,
     EventOf, EventAt, taskVars, sinkVars, historyVars
<1>3. ASSUME NEW t \in Tasks, RefusedStep(t)
      PROVE  Inserting(e)' \subseteq Inserting(e) /\ UNCHANGED <<keys, rows, misses>>
  <2>1. \A u \in Tasks : EventOf(u)' = EventOf(u) /\ (u # t => pc'[u] = pc[u])
    BY <1>3, RefusedEffect DEF Goto, TypeOK
  <2>2. pc'[t] \in {"insert", "release"} => pc[t] \in {"insert", "release"}
    BY <1>3, RefusedEffect DEF Goto, TypeOK
  <2>3. UNCHANGED <<keys, rows, misses>>
    BY <1>3 DEF RefusedStep, sinkVars
  <2> QED
    BY <2>1, <2>2, <2>3 DEF Inserting
<1> QED
  BY <1>1, <1>2, <1>3 DEF RefusalStep

\* ClaimsCharged is inductive for the processes as well.
LEMMA ProcessKeepsClaims ==
  TypeOK /\ ClaimsCharged /\ [ProcessNext]_<<vars, processVars>> => ClaimsCharged'
<1> SUFFICES ASSUME TypeOK, ClaimsCharged, [ProcessNext]_<<vars, processVars>>,
                    NEW e \in Events
             PROVE  Balanced(e)'
  BY DEF ClaimsCharged, Balanced, Claims
<1>1. Balanced(e)
  BY DEF ClaimsCharged, Balanced, Claims
<1>2. CASE Next
  BY <1>1, <1>2, NextBalance
<1>3. CASE UNCHANGED vars
  BY <1>1, <1>3 DEF Balanced, Claims, Inserting, EventOf, EventAt, vars, taskVars, sinkVars,
     historyVars
<1>4. CASE EndStep \/ SignalStep \/ FetchStep \/ LeaveStep \/ RefusalStep
  BY <1>1, <1>4, ProcessInserting, InsertingFewer
<1> QED
  BY <1>2, <1>3, <1>4, ProcessCases

\* What RunningStep says of a worker, for the steps that are not steps of Worker.
LEMMA ProcessRunning ==
  ASSUME TypeOK, EndStep \/ SignalStep \/ FetchStep \/ LeaveStep \/ RefusalStep, NEW w \in Workers
  PROVE  \/ RunningOn(w)' = RunningOn(w) /\ permits'[w] = permits[w]
         \/ RunningOn(w)' = {} /\ permits'[w] = MaxConcurrentTasks
<1>1. ASSUME NEW v \in Workers, Exit(v)
      PROVE  \/ RunningOn(w)' = RunningOn(w) /\ permits'[w] = permits[w]
             \/ RunningOn(w)' = {} /\ permits'[w] = MaxConcurrentTasks
  <2>1. CASE v = w
    BY <1>1, <2>1 DEF Exit, RunningOn, Running, TypeOK
  <2>2. CASE v # w
    <3>1. permits'[w] = permits[w]
      BY <1>1, <2>2 DEF Exit, TypeOK
    <3>2. \A t \in Tasks : t \in RunningOn(w)' <=> t \in RunningOn(w)
      BY <1>1, <2>2 DEF Exit, RunningOn, Running, TypeOK
    <3> QED
      BY <3>1, <3>2 DEF RunningOn
  <2> QED
    BY <2>1, <2>2
<1>2. CASE SignalStep \/ FetchStep \/ LeaveStep
  BY <1>2 DEF SignalStep, Signal, FetchStep, ConsumerFails, LeaveStep, LeaveGroup, RunningOn,
     Running, loopVars, taskVars
<1>3. ASSUME NEW t \in Tasks, RefusedStep(t)
      PROVE  RunningOn(w)' = RunningOn(w) /\ permits'[w] = permits[w]
  <2>1. job' = job /\ permits' = permits /\ \A u \in Tasks : u # t => pc'[u] = pc[u]
    BY <1>3, RefusedEffect DEF Goto, TypeOK, loopVars
  <2>2. Running(t) /\ Running(t)'
    BY <1>3, RefusedEffect DEF Goto, Running, AfterFailedAttempt, TypeOK
  <2>3. \A u \in Tasks : Running(u)' <=> Running(u)
    BY <2>1, <2>2 DEF Running
  <2> QED
    BY <2>1, <2>3 DEF RunningOn
<1> QED
  BY <1>1, <1>2, <1>3 DEF EndStep, RefusalStep

\* The permits a worker has and the tasks it runs add up to
\* MAX_CONCURRENT_TASKS, also while the process shuts down.
THEOREM ProcessPermitsConserved == ProcessSpec => []PermitsConserved
<1>1. ProcessInit => PermitsConserved
  BY PermitsInit DEF ProcessInit
<1>2. ASSUME TypeOK, PermitsConserved, [ProcessNext]_<<vars, processVars>>
      PROVE  PermitsConserved'
  <2>1. CASE [Next]_vars
    BY <1>2, <2>1, PermitsStay
  <2>2. ASSUME EndStep \/ SignalStep \/ FetchStep \/ LeaveStep \/ RefusalStep, NEW w \in Workers
        PROVE  permits'[w] + Cardinality(RunningOn(w)') = MaxConcurrentTasks
    <3>1. permits[w] + Cardinality(RunningOn(w)) = MaxConcurrentTasks
      BY <1>2 DEF PermitsConserved
    <3>2. Cardinality({}) = 0
      BY FS_EmptySet
    <3>3. CASE RunningOn(w)' = RunningOn(w) /\ permits'[w] = permits[w]
      BY <3>1, <3>3
    <3>4. CASE RunningOn(w)' = {} /\ permits'[w] = MaxConcurrentTasks
      BY <3>2, <3>4, ConstantsAssumption
    <3> QED
      BY <1>2, <2>2, <3>3, <3>4, ProcessRunning
  <2> QED
    BY <1>2, <2>1, <2>2, ProcessCases DEF PermitsConserved
<1> QED
  BY <1>1, <1>2, ProcessTypeCorrect, PTL DEF ProcessSpec, ProcessTypeOK

-----------------------------------------------------------------------------
(***************************************************************************)
(* The delivery ledger.                                                    *)
(***************************************************************************)

\* A cancelled loop gives up the event it had.
LEMMA SignalLedgerStep ==
  ASSUME TypeOK, NEW w \in Workers, Signal(w)
  PROVE  LedgerStep
<1> DEFINE S == {EventAt(m) : m \in {held[w]} \ {NoMsg}}
<1>1. S \subseteq Open
  BY HeldMsg DEF Open, Pending, HeldEvents
<1>2. /\ UNCHANGED <<committed, rows, misses, pc, job, dlqTopic, dlqTable, abandoned>>
      /\ orphans' = orphans \cup S
      /\ held' = [held EXCEPT ![w] = NoMsg]
  BY DEF Signal, CancelLoop, groupVars, taskVars, sinkVars, dlqVars
<1>3. \A e \in Events : AtWork(e, Undecided)' <=> AtWork(e, Undecided)
  BY <1>2 DEF AtWork, EventOf, EventAt
<1>4. held'[w] = NoMsg /\ \A v \in Workers \ {w} : held'[v] = held[v]
  BY <1>2 DEF TypeOK
<1>5. \A e \in Events : /\ (e \in HeldEvents)' => e \in HeldEvents
                        /\ e \in HeldEvents /\ e \notin S => (e \in HeldEvents)'
  BY <1>4 DEF HeldEvents, EventAt
<1>6. Open' \subseteq Open /\ Open \ S \subseteq Open'
  BY <1>3, <1>5 DEF Open, Pending
<1>7. Dead' = Dead /\ Excused' = Excused \cup S
  BY <1>2 DEF Dead, DeadLettered, In, Excused
<1> HIDE DEF S
<1>8. Ledger!GiveUp(S)
  BY <1>2, <1>6, <1>7 DEF Ledger!GiveUp, Open, Dead, Excused
<1> QED
  BY <1>1, <1>8 DEF LedgerStep, Ledger!Next, Open

\* A task that meets a closed client leaves its event open, or gives it up, or
\* closes it with the dead letter it has.
LEMMA RefusalLedgerStep ==
  ASSUME TypeOK, NEW t \in Tasks, RefusedStep(t)
  PROVE  LedgerStep
<1>0. PICK e \in Events : e = EventOf(t)
  BY RefusedEffect
<1>1. /\ UNCHANGED <<committed, rows, misses, job, held, dlqTopic, dlqTable, orphans>>
      /\ \A u \in Tasks : EventOf(u)' = EventOf(u) /\ (u # t => pc'[u] = pc[u])
  BY RefusedEffect DEF groupVars, loopVars, sinkVars, dlqVars, Goto, TypeOK
<1>2. Dead' = Dead /\ HeldEvents' = HeldEvents
  BY <1>1 DEF Dead, DeadLettered, In, HeldEvents, EventAt
<1>3. ASSUME pc'[t] \in Undecided <=> pc[t] \in Undecided, abandoned' = abandoned
      PROVE  LedgerStep
  <2>1. \A f \in Events : AtWork(f, Undecided)' <=> AtWork(f, Undecided)
    BY <1>1, <1>3 DEF AtWork
  <2>2. Open' = Open
    BY <1>2, <2>1 DEF Open, Pending
  <2> QED
    BY <1>1, <1>2, <1>3, <2>2, Stutters DEF Excused
<1>4. ASSUME pc[t] = "record", pc'[t] = "commit", Abandon(t)
      PROVE  LedgerStep
  <2>1. \A f \in Events : /\ AtWork(f, Undecided)' => AtWork(f, Undecided)
                          /\ f # e /\ AtWork(f, Undecided) => AtWork(f, Undecided)'
    BY <1>0, <1>1, <1>4 DEF AtWork, Undecided
  <2>2. Open' = Open \/ Open' = Open \ {e}
    BY <1>2, <2>1 DEF Open, Pending
  <2>3. e \in Open
    BY <1>0, <1>4 DEF Open, Pending, AtWork, Undecided
  <2>4. CASE Open' = Open /\ abandoned' = abandoned
    BY <1>1, <1>2, <2>4, Stutters DEF Excused
  <2>5. CASE Open' = Open \ {e} /\ abandoned' = abandoned
    <3>1. e \in Dead \/ e \in Excused
      BY <1>0, <1>1, <1>4, <2>5 DEF Abandon, Dead, DeadLettered, Excused
    <3>2. Ledger!Resolved(e)
      BY <3>1 DEF Ledger!Resolved, Dead, Excused
    <3>3. Ledger!Close(e)
      BY <1>1, <1>2, <2>5, <3>2 DEF Ledger!Close, Open, Dead, Excused
    <3> QED
      BY <3>3 DEF LedgerStep, Ledger!Next
  <2>6. CASE abandoned' = abandoned \cup {e}
    <3>1. Excused' = Excused \cup {e} /\ {e} \in SUBSET Open
      BY <1>1, <2>3, <2>6 DEF Excused
    <3>2. Ledger!GiveUp({e})
      BY <1>1, <1>2, <2>2, <3>1 DEF Ledger!GiveUp, Open, Dead, Excused
    <3> QED
      BY <3>1, <3>2 DEF LedgerStep, Ledger!Next, Open
  <2> QED
    BY <1>0, <1>4, <2>2, <2>4, <2>5, <2>6 DEF Abandon
<1>5. \/ (pc'[t] \in Undecided <=> pc[t] \in Undecided) /\ abandoned' = abandoned
      \/ pc[t] = "record" /\ pc'[t] = "commit" /\ Abandon(t)
  <2>1. \A l : Goto(t, l) => pc'[t] = l
    BY DEF Goto, TypeOK
  <2>2. AfterFailedAttempt(attempt[t] + 1) \in {"insert", "release"}
    BY DEF AfterFailedAttempt
  <2> QED
    BY <2>1, <2>2, RefusedEffect DEF Undecided
<1> QED
  BY <1>3, <1>4, <1>5

\* The processes keep what the ledger promises about every event, also when a
\* signal, a failed loop or a closed client ends their work on it.
THEOREM ProcessImplementsLedger == ProcessSpec => ImplementsLedger
<1>1. ASSUME TypeOK, LossInv, ClaimsCharged, [ProcessNext]_<<vars, processVars>>
      PROVE  [Ledger!Next]_(Ledger!vars)
  <2>1. CASE [Next]_vars
    BY <1>1, <2>1, NextLedgerStep DEF LedgerStep
  <2>2. CASE EndStep
    BY <1>1, <2>2, ExitStep DEF EndStep, LedgerStep
  <2>3. CASE SignalStep
    BY <1>1, <2>3, SignalLedgerStep DEF SignalStep, LedgerStep
  <2>4. CASE LeaveStep \/ FetchStep
    <3>1. UNCHANGED <<committed, held, pc, job, sinkVars, dlqVars, historyVars>>
      BY <2>4 DEF LeaveStep, LeaveGroup, FetchStep, ConsumerFails, groupVars, loopVars, taskVars
    <3>2. Open' = Open
      BY <3>1 DEF Open, Pending, AtWork, HeldEvents, EventOf, EventAt
    <3>3. Dead' = Dead /\ Excused' = Excused /\ rows' = rows /\ misses' = misses
      BY <3>1 DEF Dead, DeadLettered, In, Excused, sinkVars, dlqVars, historyVars
    <3> QED
      BY <3>1, <3>2, <3>3, Stutters DEF LedgerStep
  <2>5. CASE RefusalStep
    BY <1>1, <2>5, RefusalLedgerStep DEF RefusalStep, LedgerStep
  <2> QED
    BY <1>1, <2>1, <2>2, <2>3, <2>4, <2>5, ProcessCases
<1>2. ProcessSpec => []TypeOK
  BY ProcessTypeCorrect, PTL DEF ProcessTypeOK
<1>3. ProcessSpec => []LossInv
  BY <1>2, LossInvInit, ProcessKeepsLoss, PTL DEF ProcessSpec, ProcessInit
<1>4. ProcessSpec => []ClaimsCharged
  BY <1>2, ClaimsInit, ProcessKeepsClaims, PTL DEF ProcessSpec, ProcessInit
<1> QED
  BY <1>1, <1>2, <1>3, <1>4, InitLedger, PTL
     DEF ProcessSpec, ProcessInit, ImplementsLedger, Ledger!Spec

-----------------------------------------------------------------------------
(***************************************************************************)
(* What Worker promises about losses, duplicates, dead letters, replays    *)
(* and the device state, for the processes.                                *)
(***************************************************************************)

\* A commit never loses an event in silence, also while a process shuts down.
THEOREM ProcessLosesNothingSilently == ProcessSpec => []NoSilentLoss
<1>1. ProcessSpec => []TypeOK
  BY ProcessTypeCorrect, PTL DEF ProcessTypeOK
<1> QED
  BY <1>1, LossInvInit, LossInvSuffices, ProcessKeepsLoss, PTL DEF ProcessSpec, ProcessInit

\* Every row of an event beyond its first is charged to a fault, however often
\* its record is delivered again to processes that were told to stop.
THEOREM ProcessDuplicatesCharged == ProcessSpec => []DuplicatesCharged
<1>1. ProcessSpec => []TypeOK
  BY ProcessTypeCorrect, PTL DEF ProcessTypeOK
<1> QED
  BY <1>1, ClaimsInit, ClaimsBoundRows, ProcessKeepsClaims, PTL DEF ProcessSpec, ProcessInit

\* The steps of a process that are not steps of Worker.
Outside == EndStep \/ SignalStep \/ FetchStep \/ LeaveStep \/ RefusalStep

\* They write to no store, and spend a fault only to lose a consumer; a task ends
\* with its process, meets a closed client, or stays where it is.
LEMMA OutsideFrame ==
  ASSUME TypeOK, Outside
  PROVE  /\ UNCHANGED <<sinkVars, dlqVars, keys, misses, strays>>
         /\ budget' = budget \/ Spend("fetch")
         /\ orphans \subseteq orphans' /\ refusals \subseteq refusals'
         /\ \A u \in Tasks :
              \/ SameTask(u)
              \/ /\ pc'[u] = "idle" /\ attempt'[u] = 0 /\ retries'[u] = 0
                 /\ \E w \in Workers : u \in RunningOn(w) /\ Exit(w)
              \/ RefusedStep(u)
<1>1. ASSUME NEW w \in Workers, Exit(w), UNCHANGED budget
      PROVE  /\ UNCHANGED <<sinkVars, dlqVars, keys, budget, refusals, misses, strays>>
             /\ orphans \subseteq orphans'
             /\ \A u \in Tasks :
                  \/ SameTask(u)
                  \/ /\ pc'[u] = "idle" /\ attempt'[u] = 0 /\ retries'[u] = 0
                     /\ u \in RunningOn(w)
  <2>1. UNCHANGED <<sinkVars, dlqVars, keys, budget, refusals, misses, strays>>
        /\ orphans \subseteq orphans'
    BY <1>1 DEF Exit
  <2>2. ASSUME NEW u \in Tasks
        PROVE  \/ SameTask(u)
               \/ /\ pc'[u] = "idle" /\ attempt'[u] = 0 /\ retries'[u] = 0
                  /\ u \in RunningOn(w)
    BY <1>1 DEF Exit, SameTask
  <2> QED
    BY <2>1, <2>2
<1>6. CASE EndStep
  BY <1>1, <1>6 DEF EndStep
<1>2. CASE SignalStep \/ FetchStep \/ LeaveStep
  BY <1>2 DEF SignalStep, Signal, CancelLoop, FetchStep, ConsumerFails, LeaveStep, LeaveGroup,
     taskVars, historyVars, SameTask
<1>3. ASSUME NEW t \in Tasks, RefusedStep(t), NEW u \in Tasks \ {t}
      PROVE  SameTask(u)
  BY <1>3, RefusedEffect DEF Goto, CountAttempt, CountRetry, TypeOK, SameTask
<1>5. ASSUME NEW t \in Tasks, RefusedStep(t) PROVE refusals \subseteq refusals'
  BY <1>5, RefusedEffect DEF Refuse
<1>4. CASE RefusalStep
  BY <1>3, <1>4, <1>5, RefusedEffect DEF RefusalStep
<1> QED
  BY <1>2, <1>4, <1>6 DEF Outside

\* A refused INSERT is counted like one that failed.
LEMMA RefusedCount ==
  ASSUME TypeOK, NEW t \in Tasks, RefusedStep(t), CountKnown(t)
  PROVE  CountKnown(t)'
<1>0. EventOf(t)' = EventOf(t) /\ EventOf(t) \in Events
  BY RefusedEffect
<1>1. CASE /\ pc[t] = "insert" /\ CountAttempt(t) /\ CountRetry(t)
           /\ Goto(t, AfterFailedAttempt(attempt[t] + 1))
  <2>1. Kind[EventOf(t)] \in Parsing
    BY <1>1 DEF CountKnown
  <2>6. retries'[t] = attempt'[t]
    BY <1>1 DEF CountKnown, CountAttempt, CountRetry, TypeOK
  <2>2. attempt'[t] = attempt[t] + 1 /\ attempt[t] + 1 \in 1..RetryMaxAttempts
    BY <1>1, AttemptType DEF TypeOK
  <2>3. pc'[t] = AfterFailedAttempt(attempt[t] + 1)
    BY <1>1 DEF Goto, TypeOK
  <2>4. pc'[t] \in {"insert", "release"}
    BY <2>3 DEF AfterFailedAttempt
  <2>5. pc'[t] = "release" => attempt'[t] = RetryMaxAttempts
    BY <2>2, <2>3, ConstantsAssumption DEF AfterFailedAttempt
  <2> QED
    BY <1>0, <2>1, <2>4, <2>5, <2>6, CountOfAttempts DEF CountKnown
<1>2. CASE pc[t] = "publish" /\ Goto(t, "record") /\ UNCHANGED <<attempt, retries>>
  BY <1>0, <1>2 DEF CountKnown, Goto, TypeOK
<1>3. CASE Goto(t, "commit") /\ UNCHANGED <<attempt, retries>>
  BY <1>3 DEF CountKnown, Goto, TypeOK
<1> QED
  BY <1>1, <1>2, <1>3, RefusedEffect

\* RetryCountInv is inductive for the processes as well.
LEMMA ProcessKeepsRetryCount ==
  TypeOK /\ RetryCountInv /\ [ProcessNext]_<<vars, processVars>> => RetryCountInv'
<1>1. ASSUME TypeOK, RetryCountInv, Outside PROVE RetryCountInv'
  <2>1. RetryCountExact'
    BY <1>1, OutsideFrame DEF RetryCountInv, RetryCountExact, dlqVars
  <2>2. ASSUME NEW u \in Tasks PROVE CountKnown(u)'
    <3>1. CountKnown(u)
      BY <1>1 DEF RetryCountInv, CountKnown
    <3>2. CASE SameTask(u)
      BY <3>1, <3>2 DEF CountKnown, SameTask, EventOf, EventAt
    <3>3. CASE pc'[u] = "idle" /\ attempt'[u] = 0 /\ retries'[u] = 0
      BY <3>3 DEF CountKnown
    <3>4. CASE RefusedStep(u)
      BY <1>1, <3>1, <3>4, RefusedCount
    <3> QED
      BY <1>1, <3>2, <3>3, <3>4, OutsideFrame
  <2> QED
    BY <2>1, <2>2 DEF RetryCountInv, CountKnown
<1> QED
  BY <1>1, RetryCountStays, ProcessCases DEF Outside

\* The retry_count of a dead letter is exact, also when attempts failed because
\* the pool was closing.
THEOREM ProcessRetryCountExact == ProcessSpec => []RetryCountExact
<1>1. ProcessSpec => []TypeOK
  BY ProcessTypeCorrect, PTL DEF ProcessTypeOK
<1>2. RetryCountInv => RetryCountExact
  BY DEF RetryCountInv
<1> QED
  BY <1>1, <1>2, RetryCountInit, ProcessKeepsRetryCount, PTL DEF ProcessSpec, ProcessInit

\* ClaimsHeld is inductive for the processes as well: a task that is refused its
\* INSERT goes on to release the key.
LEMMA ProcessKeepsClaimsHeld ==
  TypeOK /\ ClaimsHeld /\ [ProcessNext]_<<vars, processVars>> => ClaimsHeld'
<1>1. ASSUME TypeOK, ClaimsHeld, Outside PROVE ClaimsHeld'
  <2>1. /\ keys' = keys /\ rows' = rows /\ orphans \subseteq orphans'
        /\ budget'["redis"] = budget["redis"]
    BY <1>1, OutsideFrame DEF sinkVars, Spend, TypeOK, Faults
  <2>2. ASSUME NEW e \in keys, AtWork(e, {"insert", "release"})
        PROVE  e \in orphans' \/ AtWork(e, {"insert", "release"})'
    <3>1. PICK u \in Tasks : pc[u] \in {"insert", "release"} /\ EventOf(u) = e
      BY <2>2 DEF AtWork
    <3>2. CASE SameTask(u)
      BY <3>1, <3>2 DEF SameTask, AtWork, EventOf, EventAt
    <3>3. ASSUME NEW w \in Workers, u \in RunningOn(w), Exit(w) PROVE e \in orphans'
      BY <1>1, <3>1, <3>3, ExitOrphans DEF Undecided
    <3>4. CASE RefusedStep(u)
      <4>1. pc[u] = "insert" /\ Goto(u, AfterFailedAttempt(attempt[u] + 1))
        BY <1>1, <3>1, <3>4, RefusedEffect
      <4>2. pc'[u] \in {"insert", "release"}
        BY <1>1, <4>1 DEF Goto, AfterFailedAttempt, TypeOK
      <4>3. EventOf(u)' = EventOf(u)
        BY <1>1, <3>4, RefusedEffect
      <4> QED
        BY <3>1, <4>2, <4>3 DEF AtWork
    <3> QED
      BY <1>1, <3>2, <3>3, <3>4, OutsideFrame
  <2> QED
    BY <1>1, <2>1, <2>2 DEF ClaimsHeld
<1> QED
  BY <1>1, ClaimsHeldStays, ProcessCases DEF Outside

\* What a shutdown sends to the dead letters can be replayed: its claim goes.
THEOREM ProcessReplayUnblocked == ProcessSpec => []ReplayUnblocked
<1>1. ProcessSpec => []TypeOK
  BY ProcessTypeCorrect, PTL DEF ProcessTypeOK
<1> QED
  BY <1>1, ClaimsHeldInit, ClaimsHeldSuffices, ProcessKeepsClaimsHeld, PTL
     DEF ProcessSpec, ProcessInit

\* StateInv and CountInv are inductive for the processes as well: no task comes
\* to the device state but by its INSERT.
LEMMA ProcessKeepsState ==
  TypeOK /\ StateInv /\ CountInv /\ [ProcessNext]_<<vars, processVars>> => StateInv' /\ CountInv'
<1>1. ASSUME TypeOK, Outside, NEW u \in Tasks, pc'[u] \in {"device", "state"}
      PROVE  pc'[u] = pc[u] /\ EventOf(u)' = EventOf(u)
  <2>1. CASE SameTask(u)
    BY <2>1 DEF SameTask, EventOf, EventAt
  <2>2. CASE RefusedStep(u)
    BY <1>1, <2>2, RefusedEffect DEF Goto, AfterFailedAttempt, TypeOK
  <2> QED
    BY <1>1, <2>1, <2>2, OutsideFrame
<1>2. ASSUME TypeOK, StateInv, CountInv, Outside PROVE StateInv' /\ CountInv'
  <2>1. rows' = rows /\ devices' = devices /\ deviceState' = deviceState
    BY <1>2, OutsideFrame DEF sinkVars
  <2>2. StateInv'
    BY <1>1, <1>2, <2>1 DEF StateInv, LastStored
  <2>3. ASSUME NEW d \in Devices
        PROVE  /\ IsFiniteSet(RowsOf(d)')
               /\ deviceState'[d].count + Cardinality(Owing(d)') <= Cardinality(RowsOf(d)')
    <3>1. RowsOf(d)' = RowsOf(d)
      BY <2>1 DEF RowsOf
    <3>2. Owing(d)' \subseteq Owing(d)
      BY <1>1, <1>2 DEF Owing
    <3>3. IsFiniteSet(Owing(d))
      BY FS_Subset, ConstantsAssumption DEF Owing
    <3>4. /\ Cardinality(Owing(d)) \in Nat /\ Cardinality(Owing(d)') \in Nat
          /\ Cardinality(Owing(d)') <= Cardinality(Owing(d))
      BY <3>2, <3>3, FS_Subset, FS_CardinalityType
    <3>5. /\ deviceState[d].count + Cardinality(Owing(d)) <= Cardinality(RowsOf(d))
          /\ IsFiniteSet(RowsOf(d))
      BY <1>2 DEF CountInv
    <3>6. deviceState[d].count \in Nat /\ Cardinality(RowsOf(d)) \in Nat
      BY <1>2, <3>5, FS_CardinalityType DEF TypeOK, DeviceRows
    <3> QED
      BY <2>1, <3>1, <3>4, <3>5, <3>6
  <2> QED
    BY <2>2, <2>3 DEF CountInv
<1> QED
  BY <1>2, StateInvStays, CountInvStays, ProcessCases DEF Outside

\* device_state stays behind the events table, also when the statement that
\* would have counted a row meets a closed pool.
THEOREM ProcessStateBehindRows == ProcessSpec => []StateBehindRows
<1>1. ProcessSpec => []TypeOK
  BY ProcessTypeCorrect, PTL DEF ProcessTypeOK
<1> QED
  BY <1>1, StateInvsInit, StateInvsSuffice, ProcessKeepsState, PTL DEF ProcessSpec, ProcessInit

\* The processes keep the ledger's promise, also when tasks meet closed clients:
\* what the group committed past is in flight, stored, dead-lettered or given up.
THEOREM ProcessHonest == ProcessSpec => []Ledger!Honest
BY ImplementationHonest, ProcessImplementsLedger, PTL

-----------------------------------------------------------------------------
(***************************************************************************)
(* Faults and what they are to blame for.                                  *)
(***************************************************************************)

\* Ending, being refused and leaving the group defeat no key, and a consumer that
\* is lost is no payment.
LEMMA ProcessKeepsCharges ==
  TypeOK /\ ChargesPaid /\ [ProcessNext]_<<vars, processVars>> => ChargesPaid'
<1>1. ASSUME TypeOK, ChargesPaid, Outside PROVE ChargesPaid'
  <2>1. misses' = misses /\ strays' = strays /\ (budget' = budget \/ Spend("fetch"))
    BY <1>1, OutsideFrame
  <2>2. /\ \A fault \in {"redis", "evict", "dbAck"} : budget'[fault] = budget[fault]
        /\ \A fault \in Faults : budget'[fault] <= budget[fault]
    BY <1>1, <2>1 DEF Spend, TypeOK, Faults
  <2>3. \A fault \in Faults : budget'[fault] <= Budget[fault]
    <3> SUFFICES ASSUME NEW fault \in Faults PROVE budget'[fault] <= Budget[fault]
      OBVIOUS
    <3>1. budget[fault] \in Nat /\ Budget[fault] \in Nat /\ budget[fault] <= Budget[fault]
      BY <1>1, ConstantsAssumption DEF ChargesPaid, TypeOK
    <3>2. budget'[fault] \in Nat /\ budget'[fault] <= budget[fault]
      BY <1>1, <2>1, <2>2 DEF Spend, TypeOK, Faults
    <3> QED
      BY <3>1, <3>2
  <2>4. Payments' = Payments /\ Charges' = Charges
    BY <2>1, <2>2 DEF Payments, Failures, Charges
  <2> QED
    BY <1>1, <2>3, <2>4 DEF ChargesPaid
<1> QED
  BY <1>1, ChargesPaidStays, ProcessCases DEF Outside

LEMMA ChargesPaidAlways == ProcessSpec => []ChargesPaid
<1>1. ProcessSpec => []TypeOK
  BY ProcessTypeCorrect, PTL DEF ProcessTypeOK
<1> QED
  BY <1>1, ChargesPaidInit, ProcessKeepsCharges, PTL DEF ProcessSpec, ProcessInit

\* A shutdown duplicates nothing: every extra row is still paid for by a Redis
\* error, a key that was lost or an answer of the database that was.
THEOREM ProcessExtraRowsPaid == ProcessSpec => []ExtraRowsPaid
<1>1. ProcessSpec => []TypeOK
  BY ProcessTypeCorrect, PTL DEF ProcessTypeOK
<1> QED
  BY <1>1, ChargesPaidAlways, ProcessDuplicatesCharged, ExtraRowsAreCharged, PTL

\* PublishedInv is inductive for the processes as well: a producer that has
\* stopped refuses the dead letter, and so does a pool that is closing.
LEMMA ProcessKeepsPublished ==
  TypeOK /\ PublishedInv /\ [ProcessNext]_<<vars, processVars>> => PublishedInv'
<1>1. ASSUME TypeOK, PublishedInv, Outside PROVE PublishedInv'
  <2>1. dlqTopic' = dlqTopic /\ refusals \subseteq refusals'
    BY <1>1, OutsideFrame DEF dlqVars
  <2>2. \A u \in Tasks : PublishedKnown(u)
    BY <1>1 DEF PublishedInv, PublishedKnown
  <2>3. ASSUME NEW u \in Tasks PROVE PublishedKnown(u)'
    <3>1. CASE SameTask(u)
      <4>1. EventOf(u)' = EventOf(u) /\ pc'[u] = pc[u]
        BY <3>1 DEF SameTask, EventOf, EventAt
      <4> QED
        BY <2>1, <2>2, <4>1 DEF PublishedKnown
    <3>2. CASE pc'[u] = "idle"
      BY <3>2 DEF PublishedKnown
    <3>3. CASE RefusedStep(u)
      <4>1. EventOf(u)' = EventOf(u)
        BY <1>1, <3>3, RefusedEffect
      <4>2. pc'[u] = "record" => Refuse("topic", u)
        BY <1>1, <3>3, RefusedEffect DEF Goto, AfterFailedAttempt, TypeOK
      <4> QED
        BY <4>1, <4>2 DEF PublishedKnown, Refuse
    <3> QED
      BY <1>1, <3>1, <3>2, <3>3, OutsideFrame
  <2>4. ASSUME NEW e \in abandoned'
        PROVE  Kind[e] \in {"notdict", "badid"} \/ {"topic", "table"} \X {e} \subseteq refusals'
    <3>1. CASE e \in abandoned
      <4>1. Kind[e] \in {"notdict", "badid"} \/ {"topic", "table"} \X {e} \subseteq refusals
        BY <1>1, <3>1 DEF PublishedInv, AbandonedByBoth
      <4> QED
        BY <2>1, <4>1, Zenon
    <3>2. ASSUME e \notin abandoned PROVE {"topic", "table"} \X {e} \subseteq refusals'
      <4>1. PICK t \in Tasks : RefusedStep(t)
        BY <1>1, <3>2 DEF Outside, EndStep, Exit, SignalStep, Signal, FetchStep, ConsumerFails,
           LeaveStep, LeaveGroup, historyVars, RefusalStep
      <4>2. pc[t] = "record" /\ Refuse("table", t) /\ Abandon(t)
        BY <1>1, <3>2, <4>1, RefusedEffect
      <4>3. e = EventOf(t) /\ ~In(dlqTopic, e)
        BY <3>2, <4>2 DEF Abandon
      <4>4. <<"topic", e>> \in refusals'
        BY <2>1, <2>2, <4>2, <4>3 DEF PublishedKnown
      <4>5. <<"table", e>> \in refusals'
        BY <4>2, <4>3 DEF Refuse
      <4> QED
        BY <4>4, <4>5
    <3> QED
      BY <3>1, <3>2, Zenon
  <2> QED
    BY <2>3, <2>4 DEF PublishedInv, AbandonedByBoth, PublishedKnown
<1> QED
  BY <1>1, PublishedStays, ProcessCases DEF Outside

\* A shutdown gives up a dead letter only when a produce and an INSERT into
\* dlq_events for this very event were refused: one client that is still open is
\* enough to keep it.
THEOREM ProcessAbandonedByBoth == ProcessSpec => []AbandonedByBoth
<1>1. ProcessSpec => []TypeOK
  BY ProcessTypeCorrect, PTL DEF ProcessTypeOK
<1>2. PublishedInv => AbandonedByBoth
  BY DEF PublishedInv
<1> QED
  BY <1>1, <1>2, PublishedInit, ProcessKeepsPublished, PTL DEF ProcessSpec, ProcessInit

\* A process that is not stopping is down or consumes.
Unstopped == \A w \in Workers : phase[w] \in {"down", "running"}

\* As long as no process stops, a step is one of Worker; and nothing but a
\* signal, a lost consumer or a record that cannot be read makes one stop.
LEMMA UnstoppedStep ==
  ASSUME TypeOK, Unstopped, ~Unreadable, [ProcessNext]_<<vars, processVars>>
  PROVE  SignalStep \/ FetchStep \/ ([Next]_vars /\ Unstopped' /\ signals' = signals)
<1>1. CASE MembersJoin \/ MembersRebalance
  BY <1>1 DEF MembersJoin, MembersRebalance, Next, processVars, Unstopped
<1>2. ASSUME NEW w \in Workers, Start(w)
      PROVE  [Next]_vars /\ Unstopped' /\ signals' = signals
  BY <1>2 DEF Start, Advance, Unstopped
<1>3. ASSUME NEW w \in Workers, ShutdownStep(w) PROVE FALSE
  BY <1>3 DEF ShutdownStep, LeaveGroup, StopProducer, ClosePool, End, Advance, Unstopped
<1>4. ASSUME NEW w \in Workers, ProcessCrash(w)
      PROVE  [Next]_vars /\ Unstopped' /\ signals' = signals
  BY <1>4 DEF ProcessCrash, Next, Unstopped
<1>5. ASSUME NEW w \in Workers, RunningLoopStep(w)
      PROVE  [Next]_vars /\ Unstopped' /\ signals' = signals
  <2>1. ASSUME NEW p \in Partitions, LoopFails(w, p) PROVE FALSE
    BY <2>1 DEF LoopFails, CanPoll, EventAt, NextMsg, Unreadable
  <2> QED
    BY <1>5, <2>1 DEF RunningLoopStep, LoopStep, Next, processVars, Unstopped
<1>6. ASSUME NEW e \in Events, EvictKey(e), UNCHANGED processVars
      PROVE  [Next]_vars /\ Unstopped' /\ signals' = signals
  BY <1>6 DEF Next, processVars, Unstopped
<1>7. ASSUME NEW t \in Tasks, ServedStep(t)
      PROVE  [Next]_vars /\ Unstopped' /\ signals' = signals
  BY <1>7 DEF ServedStep, Next, Unstopped
<1>8. ASSUME NEW t \in Tasks, RefusedStep(t) PROVE FALSE
  <2>1. job[t].by \in Workers
    BY <1>8, RefusedEffect, RunningJob
  <2> QED
    BY <1>8, <2>1 DEF RefusedStep, Refused, PoolRefuses, ProducerStopped, Unstopped
<1>9. CASE UNCHANGED <<vars, processVars>>
  BY <1>9 DEF processVars, Unstopped
<1> QED
  BY <1>1, <1>2, <1>3, <1>4, <1>5, <1>6, <1>7, <1>8, <1>9
     DEF ProcessNext, SignalStep, FetchStep

\* Only a signal is one signal less.
LEMMA SignalsKept ==
  ASSUME [ProcessNext]_<<vars, processVars>>, ~SignalStep
  PROVE  signals' = signals
<1>1. CASE MembersJoin \/ MembersRebalance \/ \E e \in Events : EvictKey(e) /\ UNCHANGED processVars
  BY <1>1 DEF MembersJoin, MembersRebalance, processVars
<1>2. ASSUME NEW w \in Workers,
             Start(w) \/ ConsumerFails(w) \/ ShutdownStep(w) \/ ProcessCrash(w)
      PROVE  signals' = signals
  BY <1>2 DEF Start, ConsumerFails, ShutdownStep, LeaveGroup, StopProducer, ClosePool, End, ProcessCrash
<1>3. ASSUME NEW w \in Workers, RunningLoopStep(w) PROVE signals' = signals
  BY <1>3 DEF RunningLoopStep, LoopFails, processVars
<1>4. ASSUME NEW t \in Tasks, ServedStep(t) \/ RefusedStep(t) PROVE signals' = signals
  BY <1>4 DEF ServedStep, RefusedStep, processVars
<1>5. CASE UNCHANGED <<vars, processVars>>
  BY <1>5 DEF processVars
<1> QED
  BY <1>1, <1>2, <1>3, <1>4, <1>5 DEF ProcessNext, SignalStep

\* No step gives a fault back, so one that leaves no consumer lost has lost none.
LEMMA NoFetchFailed ==
  ASSUME TypeOK, WithinBudget, [ProcessNext]_<<vars, processVars>>, Failures("fetch")' = 0
  PROVE  Failures("fetch") = 0 /\ ~FetchStep
<1>1. /\ budget["fetch"] \in Nat /\ Budget["fetch"] \in Nat
      /\ budget'["fetch"] \in Nat /\ budget["fetch"] <= Budget["fetch"]
  BY ProcessKeepsTypes, ConstantsAssumption DEF TypeOK, WithinBudget, Faults
<1>2. budget'["fetch"] = Budget["fetch"]
  BY <1>1 DEF Failures
<1>3. Spend("fetch") => budget'["fetch"] = budget["fetch"] - 1
  BY DEF Spend, TypeOK, Faults
<1>4. budget'["fetch"] <= budget["fetch"]
  <2>1. CASE Next
    BY <2>1, BudgetFalls DEF Faults
  <2>2. CASE UNCHANGED vars
    BY <1>1, <2>2 DEF vars
  <2>3. CASE Outside
    BY <1>1, <1>3, <2>3, OutsideFrame
  <2> QED
    BY <2>1, <2>2, <2>3, ProcessCases DEF Outside
<1>5. FetchStep => Spend("fetch")
  BY DEF FetchStep, ConsumerFails
<1> QED
  BY <1>1, <1>2, <1>3, <1>4, <1>5 DEF Failures

\* What holds until the first signal, if no consumer is lost and every record can be
\* read.
UntilStopped ==
  signals = MaxSignals /\ Failures("fetch") = 0 /\ ~Unreadable => Unstopped /\ ExcusesInv

LEMMA UntilStoppedStays ==
  ASSUME TypeOK, WithinBudget, signals \in 0..MaxSignals, UntilStopped,
         [ProcessNext]_<<vars, processVars>>
  PROVE  UntilStopped'
<1> SUFFICES ASSUME signals' = MaxSignals, Failures("fetch")' = 0, ~Unreadable
             PROVE  (Unstopped /\ ExcusesInv)'
  BY DEF UntilStopped, Unreadable
<1>1. ~SignalStep
  BY SignalsAssumption DEF SignalStep, Signal
<1>2. Failures("fetch") = 0 /\ ~FetchStep
  BY NoFetchFailed
<1>3. signals = MaxSignals
  BY <1>1, SignalsKept
<1>4. Unstopped /\ ExcusesInv
  BY <1>2, <1>3 DEF UntilStopped
<1>5. [Next]_vars /\ Unstopped'
  BY <1>1, <1>2, <1>4, UnstoppedStep
<1> QED
  BY <1>4, <1>5, ExcusesStay

\* Processes that nobody stops keep it as the pipeline does: it takes a shutdown,
\* by a signal, a lost consumer or a record that cannot be read, or one of the
\* faults, to duplicate an event or to lose one.
THEOREM ProcessKeptUndisturbed ==
  ProcessSpec => [](signals = MaxSignals => KeptUndisturbed)
<1>1. ProcessSpec => [](TypeOK /\ signals \in 0..MaxSignals)
  BY ProcessTypeCorrect, PTL DEF ProcessTypeOK
<1>2. ProcessInit => UntilStopped
  BY ExcusesInit DEF ProcessInit, UntilStopped, Unstopped
<1>3. TypeOK /\ ChargesPaid /\ signals \in 0..MaxSignals /\ UntilStopped
        /\ [ProcessNext]_<<vars, processVars>> => UntilStopped'
  BY UntilStoppedStays DEF ChargesPaid, WithinBudget
<1>4. ProcessSpec => []UntilStopped
  BY <1>1, <1>2, <1>3, ChargesPaidAlways, PTL DEF ProcessSpec
<1>5. ASSUME TypeOK, NoSilentLoss, DuplicatesCharged, ChargesPaid, AbandonedByBoth,
             UntilStopped
      PROVE  signals = MaxSignals => KeptUndisturbed
  <2> SUFFICES ASSUME signals = MaxSignals, Undisturbed PROVE KeptUndisturbed
    BY DEF KeptUndisturbed
  <2>1. Failures("fetch") = 0 /\ ~Unreadable
    BY DEF Undisturbed, Unreadable
  <2>2. ExcusesInv
    BY <1>5, <2>1 DEF UntilStopped
  <2> QED
    BY <1>5, <2>2, NothingToExcuse
<1> QED
  BY <1>1, <1>4, <1>5, ProcessLosesNothingSilently, ProcessDuplicatesCharged,
     ProcessAbandonedByBoth, ChargesPaidAlways, PTL
=============================================================================
