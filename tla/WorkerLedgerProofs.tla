------------------------- MODULE WorkerLedgerProofs -------------------------
(***************************************************************************)
(* The worker service implements DeliveryLedger, for any workers, tasks,   *)
(* partitions, logs and budgets of faults.                                 *)
(***************************************************************************)
EXTENDS WorkerProofs

-----------------------------------------------------------------------------
(***************************************************************************)
(* The ledger's variables, as Worker maps them.                            *)
(***************************************************************************)
Open == {e \in Events : Pending(e)}
Dead == {e \in Events : DeadLettered(e)}
Excused == orphans \cup abandoned

\* A step of the ledger or a stuttering step, under the mapping.
LedgerStep == [Ledger!Next]_(Ledger!vars)

\* What is the same on both sides of the mapping is a stutter of the ledger.
LEMMA Stutters ==
  ASSUME Open' = Open, Dead' = Dead, Excused' = Excused,
         committed' = committed, rows' = rows, misses' = misses
  PROVE  LedgerStep
BY DEF LedgerStep, Ledger!vars, Open, Dead, Excused

\* The outcomes of an event in the two modules.
LEMMA ResolvedMeansSettled ==
  ASSUME NEW e \in Events
  PROVE  /\ Ledger!Resolved(e) <=> Settled(e)
         /\ Accounted(e) <=> (e \in Open \/ Settled(e))
BY DEF Ledger!Resolved, Settled, Handled, Accounted, Open

-----------------------------------------------------------------------------
(***************************************************************************)
(* What the steps of a task do to the open events and the dead letters.    *)
(***************************************************************************)

\* The undecided tasks on an event, before and after a step of a task.
LEMMA TaskPending ==
  ASSUME TypeOK, NEW t \in Tasks, TaskStep(t), NEW f \in Events
  PROVE  /\ f # EventOf(t) => (Pending(f)' <=> Pending(f))
         /\ pc[t] \notin Undecided => (Pending(f)' <=> Pending(f))
         /\ pc[t] \in Undecided /\ pc'[t] \in Undecided => (Pending(f)' <=> Pending(f))
         /\ Pending(f)' => Pending(f)
<1>1. held' = held
  BY DEF TaskStep, SkipCheck, Claim, SkipDuplicate, CheckFailsOpen, ProcessRaises,
       InsertSucceeds, InsertFails, InsertRejected, EnsureDevice, UpsertState, ReleaseKey,
       PublishDeadLetter, RecordDeadLetter, CommitOffset, CommitFails, loopVars
<1>2. \A u \in Tasks \ {t} : pc'[u] = pc[u] /\ job'[u] = job[u]
  BY DEF TaskStep, SkipCheck, Claim, SkipDuplicate, CheckFailsOpen, ProcessRaises,
       InsertSucceeds, InsertFails, InsertRejected, EnsureDevice, UpsertState, ReleaseKey,
       PublishDeadLetter, RecordDeadLetter, CommitOffset, CommitFails, Finish, Goto, TypeOK
<1>3. pc'[t] # "idle" => job'[t] = job[t]
  BY DEF TaskStep, SkipCheck, Claim, SkipDuplicate, CheckFailsOpen, ProcessRaises,
       InsertSucceeds, InsertFails, InsertRejected, EnsureDevice, UpsertState, ReleaseKey,
       PublishDeadLetter, RecordDeadLetter, CommitOffset, CommitFails, Finish, TypeOK
<1>4. pc[t] \notin Undecided => pc'[t] \notin Undecided
  <2>1. CASE EnsureDevice(t) \/ UpsertState(t) \/ CommitOffset(t) \/ CommitFails(t)
    BY <2>1 DEF EnsureDevice, UpsertState, CommitOffset, CommitFails, Finish, Goto,
         Undecided, TypeOK
  <2>2. pc[t] \in Undecided \/ EnsureDevice(t) \/ UpsertState(t) \/ CommitOffset(t)
          \/ CommitFails(t)
    BY DEF TaskStep, SkipCheck, Claim, SkipDuplicate, CheckFailsOpen, ProcessRaises,
       InsertSucceeds, InsertFails, InsertRejected, ReleaseKey, PublishDeadLetter,
       RecordDeadLetter, Undecided
  <2> QED
    BY <2>1, <2>2
<1>5. \A u \in Tasks \ {t} : EventOf(u)' = EventOf(u)
  BY <1>2 DEF EventOf, EventAt
<1>6. pc'[t] \in Undecided => EventOf(t)' = EventOf(t)
  BY <1>3 DEF EventOf, EventAt, Undecided
<1>7. (f \in HeldEvents)' <=> f \in HeldEvents
  BY <1>1 DEF HeldEvents, EventAt
<1> DEFINE On(u) == pc[u] \in Undecided /\ EventOf(u) = f
<1>8. \A u \in Tasks \ {t} : On(u)' <=> On(u)
  BY <1>2, <1>5
<1>9. On(t)' => On(t)
  BY <1>4, <1>6
<1>10. On(t) /\ ~On(t)' => f = EventOf(t) /\ pc[t] \in Undecided /\ pc'[t] \notin Undecided
  BY <1>6
<1>11. /\ AtWork(f, Undecided) <=> \E u \in Tasks : On(u)
       /\ AtWork(f, Undecided)' <=> \E u \in Tasks : On(u)'
  BY DEF AtWork
<1> HIDE DEF On
<1> QED
  BY <1>7, <1>8, <1>9, <1>10, <1>11 DEF Pending

\* A step of a task closes at most its own event, and only one that is open.
LEMMA TaskOpen ==
  ASSUME TypeOK, NEW t \in Tasks, TaskStep(t)
  PROVE  /\ EventOf(t) \in Events
         /\ pc[t] \in Undecided => EventOf(t) \in Open
         /\ Open' = Open \/ Open' = Open \ {EventOf(t)}
         /\ pc[t] \notin Undecided => Open' = Open
         /\ pc[t] \in Undecided /\ pc'[t] \in Undecided => Open' = Open
<1>1. Running(t)
  BY DEF TaskStep, SkipCheck, Claim, SkipDuplicate, CheckFailsOpen, ProcessRaises,
       InsertSucceeds, InsertFails, InsertRejected, EnsureDevice, UpsertState, ReleaseKey,
       PublishDeadLetter, RecordDeadLetter, CommitOffset, CommitFails, Running
<1>2. EventOf(t) \in Events
  BY <1>1, RunningJob
<1>3. pc[t] \in Undecided => EventOf(t) \in Open
  BY <1>2 DEF Open, Pending, AtWork
<1>4. \A f \in Events : f # EventOf(t) => (f \in Open' <=> f \in Open)
  BY TaskPending DEF Open
<1>5. \A f \in Events : f \in Open' => f \in Open
  BY TaskPending DEF Open
<1>6. Open \subseteq Events /\ Open' \subseteq Events
  BY DEF Open
<1>7. Open' = Open \/ Open' = Open \ {EventOf(t)}
  BY <1>4, <1>5, <1>6
<1>8. ASSUME pc[t] \notin Undecided \/ pc'[t] \in Undecided
      PROVE  Open' = Open
  BY <1>8, TaskPending DEF Open
<1> QED
  BY <1>2, <1>3, <1>7, <1>8

\* A further envelope of an event adds the event to the dead letters.
LEMMA MoreDead ==
  ASSUME TypeOK, NEW t \in Tasks, EventOf(t) \in Events
  PROVE  /\ dlqTopic' = dlqTopic /\ dlqTable' = dlqTable => Dead' = Dead
         /\ dlqTopic' = dlqTopic \cup {Envelope(t)} /\ dlqTable' = dlqTable
              => Dead' = Dead \cup {EventOf(t)}
         /\ dlqTable' = dlqTable \cup {Envelope(t)} /\ dlqTopic' = dlqTopic
              => Dead' = Dead \cup {EventOf(t)}
<1>1. Envelope(t).event = EventOf(t)
  BY DEF Envelope
<1> HIDE DEF Envelope
<1> QED
  BY <1>1 DEF Dead, DeadLettered, In

-----------------------------------------------------------------------------
(***************************************************************************)
(* Every step of the workers is a step of the ledger.                      *)
(***************************************************************************)

Quiet == /\ committed' = committed /\ rows' = rows /\ misses' = misses
         /\ Dead' = Dead /\ Excused' = Excused

\* A task that changes nothing of the ledger but what is open leaves its event
\* open, or closes it with the outcome that LossInv knows it has.
LEMMA QuietTaskStep ==
  ASSUME TypeOK, LossInv, Next, NEW t \in Tasks, TaskStep(t), Quiet
  PROVE  LedgerStep
<1>0. PICK e \in Events : e = EventOf(t)
  BY TaskOpen
<1>1. CASE Open' = Open
  BY <1>1, Stutters DEF Quiet
<1>2. CASE Open' = Open \ {e} /\ e \in Open
  <2>1. e \in Events /\ e \notin Open'
    BY <1>2
  <2>2. Accounted(e)
    BY <1>2 DEF Open, Accounted
  <2>3. Accounted(e)' /\ ~Pending(e)'
    BY <2>1, <2>2, AccountedStays DEF LossInv, Open
  <2>4. Settled(e)'
    BY <2>3 DEF Accounted
  <2>5. Settled(e)' <=> Settled(e)
    BY <2>1 DEF Quiet, Settled, Handled, Dead, Excused
  <2>6. Ledger!Resolved(e)
    BY <2>1, <2>4, <2>5, ResolvedMeansSettled
  <2>7. Ledger!Close(e)
    BY <1>2, <2>6 DEF Ledger!Close, Quiet, Open, Dead, Excused
  <2> QED
    BY <2>1, <2>7 DEF LedgerStep, Ledger!Next
<1>3. Open' = Open \/ (Open' = Open \ {e} /\ e \in Open)
  BY <1>0, TaskOpen
<1> QED
  BY <1>1, <1>2, <1>3

\* A process that ends gives up the events it had in flight.
LEMMA ExitStep ==
  ASSUME TypeOK, NEW w \in Workers, Exit(w)
  PROVE  LedgerStep
<1> DEFINE S == InFlightAt(w)
<1>1. \A t \in RunningOn(w) : EventOf(t) \in Events
  BY RunningJob DEF RunningOn
<1>2. held[w] # NoMsg => EventAt(held[w]) \in Events
  BY HeldMsg
<1>3. S \subseteq Open
  BY <1>1, <1>2 DEF InFlightAt, Open, Pending, AtWork, HeldEvents, RunningOn
<1>4. \A u \in Tasks : u \notin RunningOn(w) => EventOf(u)' = EventOf(u) /\ pc'[u] = pc[u]
  BY DEF Exit, EventOf, EventAt, TypeOK
<1>5. \A u \in RunningOn(w) : pc'[u] = "idle"
  BY DEF Exit, RunningOn, TypeOK
<1>6. \A v \in Workers : v # w => held'[v] = held[v]
  BY DEF Exit, TypeOK
<1>7. held'[w] = NoMsg
  BY DEF Exit, TypeOK
<1>8. ASSUME NEW f \in Events, AtWork(f, Undecided)' PROVE AtWork(f, Undecided)
  BY <1>4, <1>5, <1>8 DEF AtWork, Undecided
<1>9. ASSUME NEW f \in Events, AtWork(f, Undecided), f \notin S
      PROVE  AtWork(f, Undecided)'
  BY <1>4, <1>9 DEF AtWork, InFlightAt
<1>10. ASSUME NEW f \in Events, (f \in HeldEvents)' PROVE f \in HeldEvents
  BY <1>6, <1>7, <1>10 DEF HeldEvents, EventAt
<1>11. ASSUME NEW f \in Events, f \in HeldEvents, f \notin S
       PROVE  (f \in HeldEvents)'
  <2>1. PICK v \in Workers : held[v] # NoMsg /\ f = EventAt(held[v])
    BY <1>11 DEF HeldEvents
  <2>2. v # w
    BY <1>11, <2>1 DEF InFlightAt
  <2> QED
    BY <1>6, <2>1, <2>2 DEF HeldEvents, EventAt
<1>12. Open' \subseteq Open /\ Open \ S \subseteq Open'
  BY <1>8, <1>9, <1>10, <1>11 DEF Open, Pending
<1>13. Dead' = Dead /\ committed' = committed /\ rows' = rows /\ misses' = misses
  BY DEF Exit, sinkVars, dlqVars, Dead, DeadLettered, In
<1>14. Excused' = Excused \cup S
  BY DEF Exit, Excused
<1> HIDE DEF S
<1>15. Ledger!GiveUp(S)
  BY <1>12, <1>13, <1>14 DEF Ledger!GiveUp, Open, Dead, Excused
<1> QED
  BY <1>3, <1>15 DEF LedgerStep, Ledger!Next, Open

\* A loop that polls a record takes its event.
LEMMA PollStep ==
  ASSUME TypeOK, NEW w \in Workers, NEW p \in Partitions, Poll(w, p)
  PROVE  LedgerStep
<1> DEFINE m == NextMsg(p)
           e == EventAt(m)
<1>1. m # NoMsg /\ e \in Events /\ held[w] = NoMsg
  <2>1. position[p] \in 1..Len(Log[p]) /\ held[w] = NoMsg
    BY DEF Poll, CanPoll
  <2>2. Log[p] \in Seq(Events)
    BY ConstantsAssumption
  <2>3. m \in Msgs
    BY <2>1, <2>2 DEF NextMsg, Msgs
  <2>4. m # NoMsg
    BY <2>3, ConstantsAssumption DEF Msgs
  <2>5. e \in Events
    BY <2>1, <2>2 DEF EventAt, NextMsg
  <2> QED
    BY <2>1, <2>4, <2>5
<1>2. held' = [held EXCEPT ![w] = m] /\ pc' = pc /\ job' = job
  BY DEF Poll, taskVars
<1>3. \A v \in Workers : held'[v] = IF v = w THEN m ELSE held[v]
  BY <1>2 DEF TypeOK
<1> HIDE DEF m
<1>4. HeldEvents' = HeldEvents \cup {e}
  BY <1>1, <1>3 DEF HeldEvents, EventAt
<1>5. \A f \in Events : AtWork(f, Undecided)' <=> AtWork(f, Undecided)
  BY <1>2 DEF AtWork, EventOf, EventAt
<1>6. Open' = Open \cup {e}
  BY <1>1, <1>4, <1>5 DEF Open, Pending
<1>7. Quiet
  BY DEF Quiet, Poll, sinkVars, dlqVars, historyVars, Dead, DeadLettered, In, Excused
<1>8. Ledger!Take(e)
  BY <1>6, <1>7 DEF Ledger!Take, Quiet, Open, Dead, Excused
<1> QED
  BY <1>1, <1>8 DEF LedgerStep, Ledger!Next

\* A record goes from the loop to a task: its event is open as before.
LEMMA SpawnStep ==
  ASSUME TypeOK, NEW w \in Workers, NEW t \in Tasks, SpawnTask(w, t)
  PROVE  LedgerStep
<1> DEFINE e == EventAt(held[w])
<1>1. held[w] # NoMsg /\ pc[t] = "idle"
  BY DEF SpawnTask, Running
<1>2. pc'[t] = "check" /\ EventOf(t)' = e
  BY DEF SpawnTask, EventOf, EventAt, TypeOK
<1>3. \A u \in Tasks \ {t} : pc'[u] = pc[u] /\ EventOf(u)' = EventOf(u)
  BY DEF SpawnTask, EventOf, EventAt, TypeOK
<1>4. held'[w] = NoMsg /\ \A v \in Workers \ {w} : held'[v] = held[v]
  BY DEF SpawnTask, TypeOK
<1>5. \A f \in Events : AtWork(f, Undecided)' <=> AtWork(f, Undecided) \/ f = e
  BY <1>1, <1>2, <1>3 DEF AtWork, Undecided
<1>6. \A f \in Events : (f \in HeldEvents)' \/ f = e <=> f \in HeldEvents
  BY <1>1, <1>4 DEF HeldEvents, EventAt
<1>7. Open' = Open
  BY <1>5, <1>6 DEF Open, Pending
<1>8. Quiet
  BY DEF Quiet, SpawnTask, groupVars, sinkVars, dlqVars, historyVars, Dead, DeadLettered, In,
     Excused
<1> QED
  BY <1>7, <1>8, Stutters DEF Quiet

\* A commit passes only records whose events are open or have an outcome.
LEMMA CommitStep ==
  ASSUME TypeOK, LossInv, NEW t \in Tasks, CommitOffset(t) \/ CommitFails(t), SetCommitted(t)
  PROVE  LedgerStep
<1> DEFINE p == job[t].part
           o == job[t].off
<1>1. Running(t)
  BY DEF CommitOffset, CommitFails, Running
<1>2. p \in Partitions /\ o \in 1..Len(Log[p]) /\ Log[p] \in Seq(Events)
  BY <1>1, RunningJob, ConstantsAssumption
<1>3. ASSUME NEW i \in 1..o
      PROVE  Log[p][i] \in Open \/ Ledger!Resolved(Log[p][i])
  <2>1. i \in 1..Len(Log[p]) /\ Log[p][i] \in Events
    BY <1>2
  <2>2. Passed(p, i)
    BY <1>1, <2>1 DEF Passed
  <2>3. Accounted(Log[p][i])
    BY <1>2, <2>1, <2>2 DEF LossInv, PassedAccounted
  <2> QED
    BY <2>1, <2>3, ResolvedMeansSettled
<1>4. TaskStep(t) /\ pc[t] \notin Undecided
  BY DEF TaskStep, CommitOffset, CommitFails, Undecided
<1>5. Open' = Open
  BY <1>4, TaskOpen
<1>6. rows' = rows /\ misses' = misses /\ Dead' = Dead /\ Excused' = Excused
  BY DEF CommitOffset, CommitFails, sinkVars, dlqVars, historyVars, Dead, DeadLettered, In,
     Excused
<1>7. committed' = [committed EXCEPT ![p] = o + 1]
  BY DEF SetCommitted
<1> HIDE DEF p, o
<1>8. Ledger!Commit(p, o)
  BY <1>3, <1>5, <1>6, <1>7 DEF Ledger!Commit, Open, Dead, Excused
<1> QED
  BY <1>2, <1>8 DEF LedgerStep, Ledger!Next

\* An INSERT that takes effect is a store the ledger allows: the task that
\* inserts holds the claim, or a fault has let it through.
LEMMA StoreStep ==
  ASSUME TypeOK, ClaimsCharged, NEW t \in Tasks, TaskStep(t), pc[t] = "insert",
         Kind[EventOf(t)] = "valid", StoreRow(EventOf(t)),
         misses' = misses \/ misses' = [misses EXCEPT ![EventOf(t)] = @ + 1],
         committed' = committed, Dead' = Dead, Excused' = Excused
  PROVE  LedgerStep
<1>0. PICK e \in Events : e = EventOf(t)
  BY TaskOpen
<1>1. e \in Open /\ (Open' = Open \/ Open' = Open \ {e})
  BY <1>0, TaskOpen DEF Undecided
<1>2. Cardinality(Inserting(e)) >= 1
  <2>1. t \in Inserting(e)
    BY <1>0 DEF Inserting
  <2>2. Inserting(e) \subseteq Tasks
    BY DEF Inserting
  <2>3. /\ Cardinality(Inserting(e)) \in Nat
        /\ Cardinality(Inserting(e) \ {t}) \in Nat
        /\ Cardinality(Inserting(e) \ {t}) = Cardinality(Inserting(e)) - 1
    <3>1. /\ Cardinality(Inserting(e)) \in Nat
          /\ Cardinality(Inserting(e) \ {t})
               = Cardinality(Inserting(e)) - (IF t \in Inserting(e) THEN 1 ELSE 0)
      BY <2>2, CountTasks
    <3>2. IsFiniteSet(Inserting(e) \ {t})
      BY <2>2, FS_Subset, ConstantsAssumption
    <3>3. Cardinality(Inserting(e) \ {t}) \in Nat
      BY <3>2, FS_CardinalityType
    <3> QED
      BY <2>1, <3>1, <3>3
  <2> HIDE DEF Inserting
  <2> QED
    BY <2>3
<1>3. rows[e] + 1 <= 1 + misses[e]
  <2>1. rows[e] + Cardinality(Inserting(e)) <= (IF e \in keys THEN 1 ELSE 0) + misses[e]
    BY DEF ClaimsCharged
  <2>2. rows[e] \in Nat /\ misses[e] \in Nat
    BY DEF TypeOK
  <2>3. Cardinality(Inserting(e)) \in Nat
    BY FS_Subset, FS_CardinalityType, ConstantsAssumption DEF Inserting
  <2> QED
    BY <1>2, <2>1, <2>2, <2>3
<1>4. rows' = [rows EXCEPT ![e] = @ + 1] /\ rows'[e] <= 1 + misses'[e]
  BY <1>0, <1>3 DEF StoreRow, TypeOK
<1>5. Ledger!Store(e)
  BY <1>0, <1>1, <1>4 DEF Ledger!Store, Ledger!MayClose, Open, Dead, Excused
<1> QED
  BY <1>5 DEF LedgerStep, Ledger!Next

\* A task that takes a dead letter to a sink, or finds no sink that takes it.
LEMMA DeadLetterStep ==
  ASSUME TypeOK, LossInv, Next, NEW t \in Tasks,
         ProcessRaises(t) \/ PublishDeadLetter(t) \/ RecordDeadLetter(t)
  PROVE  LedgerStep
<1>0. PICK e \in Events : e = EventOf(t)
  BY TaskOpen DEF TaskStep
<1>1. TaskStep(t) /\ pc[t] \in Undecided
  BY DEF TaskStep, ProcessRaises, PublishDeadLetter, RecordDeadLetter, Undecided
<1>2. e \in Open /\ (Open' = Open \/ Open' = Open \ {e})
  BY <1>0, <1>1, TaskOpen
<1>3. committed' = committed /\ rows' = rows /\ misses' = misses
  BY DEF ProcessRaises, PublishDeadLetter, RecordDeadLetter, groupVars, sinkVars, historyVars
<1>4. CASE Dead' = Dead \cup {e} /\ Excused' = Excused
  <2>1. Ledger!Bury(e)
    BY <1>2, <1>3, <1>4 DEF Ledger!Bury, Ledger!MayClose, Open, Dead, Excused
  <2> QED
    BY <2>1 DEF LedgerStep, Ledger!Next
<1>5. CASE Dead' = Dead /\ Excused' = Excused \cup {e}
  <2>1. Ledger!GiveUp({e})
    BY <1>2, <1>3, <1>5 DEF Ledger!GiveUp, Open, Dead, Excused
  <2>2. {e} \in SUBSET Open
    BY <1>2
  <2> QED
    BY <2>1, <2>2 DEF LedgerStep, Ledger!Next, Open
<1>6. CASE Dead' = Dead /\ Excused' = Excused
  BY <1>1, <1>3, <1>6, QuietTaskStep DEF Quiet
<1>7. /\ dlqTopic' = dlqTopic \/ dlqTopic' = dlqTopic \cup {Envelope(t)}
      /\ dlqTable' = dlqTable \/ dlqTable' = dlqTable \cup {Envelope(t)}
      /\ dlqTopic' = dlqTopic \/ dlqTable' = dlqTable
  BY DEF ProcessRaises, PublishDeadLetter, RecordDeadLetter, dlqVars
<1>8. Dead' = Dead \/ Dead' = Dead \cup {e}
  BY <1>0, <1>7, MoreDead
<1>9. CASE ProcessRaises(t)
  <2>1. Dead' = Dead
    BY <1>9 DEF ProcessRaises, dlqVars, Dead, DeadLettered, In
  <2>2. Excused' = Excused \cup {e}
    BY <1>0, <1>9 DEF ProcessRaises, Excused
  <2> QED
    BY <1>5, <2>1, <2>2
<1>10. CASE PublishDeadLetter(t)
  <2>1. Excused' = Excused
    BY <1>10 DEF PublishDeadLetter, historyVars, Excused
  <2> QED
    BY <1>4, <1>6, <1>8, <2>1
<1>11. CASE RecordDeadLetter(t)
  <2>1. CASE Excused' = Excused
    BY <1>4, <1>6, <1>8, <2>1
  <2>2. CASE Excused' # Excused
    <3>1. Excused' = Excused \cup {e} /\ ~In(dlqTopic, e) /\ ~In(dlqTable', e)
      BY <1>0, <1>11, <2>2 DEF RecordDeadLetter, Abandon, Excused
    <3>2. Envelope(t).event = e
      BY <1>0 DEF Envelope
    <3>3. dlqTable' = dlqTable /\ dlqTopic' = dlqTopic
      BY <1>11, <3>1, <3>2 DEF RecordDeadLetter, In
    <3>4. Dead' = Dead
      BY <3>3 DEF Dead, DeadLettered, In
    <3> QED
      BY <1>5, <3>1, <3>4
  <2> QED
    BY <2>1, <2>2
<1> QED
  BY <1>9, <1>10, <1>11

\* Every step of a task is a step of the ledger.
LEMMA TaskLedgerStep ==
  ASSUME TypeOK, LossInv, ClaimsCharged, Next, NEW t \in Tasks, TaskStep(t)
  PROVE  LedgerStep
<1> USE DEF groupVars, sinkVars, dlqVars, historyVars
<1>1. EventOf(t) \in Events
  BY TaskOpen
<1>2. ASSUME UNCHANGED <<committed, rows, dlqVars, historyVars>>
      PROVE  LedgerStep
  <2>1. Quiet
    BY <1>2 DEF Quiet, Dead, DeadLettered, In, Excused
  <2> QED
    BY <2>1, QuietTaskStep
<1>3. CASE SkipCheck(t) \/ Claim(t) \/ SkipDuplicate(t) \/ InsertRejected(t)
        \/ EnsureDevice(t) \/ UpsertState(t)
  BY <1>2, <1>3 DEF SkipCheck, Claim, SkipDuplicate, InsertRejected, EnsureDevice,
       UpsertState
<1>10. CASE ReleaseKey(t)
  <2>1. /\ pc[t] \in Undecided /\ pc'[t] \in Undecided
        /\ committed' = committed /\ rows' = rows /\ Dead' = Dead /\ Excused' = Excused
    BY <1>10 DEF ReleaseKey, Goto, Undecided, TypeOK, Dead, DeadLettered, In, Excused
  <2>2. Open' = Open
    BY <2>1, TaskOpen
  <2>3. CASE DropKey(EventOf(t)) /\ misses' # misses
    <3>1. Upper[EventOf(t)] \in Events
      BY <1>1, ConstantsAssumption
    <3>2. misses' = [misses EXCEPT ![Upper[EventOf(t)]] = @ + 1]
      BY <2>3 DEF DropKey
    <3>3. Ledger!Charge(Upper[EventOf(t)])
      BY <2>1, <2>2, <3>2 DEF Ledger!Charge, Open, Dead, Excused
    <3> QED
      BY <3>1, <3>3 DEF LedgerStep, Ledger!Next
  <2>4. CASE misses' = misses
    BY <2>1, <2>2, <2>4, Stutters
  <2> QED
    BY <1>10, <2>3, <2>4 DEF ReleaseKey
<1>4. CASE CheckFailsOpen(t)
  <2>1. pc[t] \in Undecided /\ pc'[t] \in Undecided
    BY <1>1, <1>4, NextLabel DEF CheckFailsOpen, Goto, Undecided, TypeOK
  <2>2. Open' = Open
    BY <2>1, TaskOpen
  <2>3. /\ committed' = committed /\ rows' = rows /\ Dead' = Dead /\ Excused' = Excused
        /\ misses' = [misses EXCEPT ![EventOf(t)] = @ + 1]
    BY <1>4 DEF CheckFailsOpen, Dead, DeadLettered, In, Excused
  <2>4. Ledger!Charge(EventOf(t))
    BY <2>2, <2>3 DEF Ledger!Charge, Open, Dead, Excused
  <2> QED
    BY <1>1, <2>4 DEF LedgerStep, Ledger!Next
<1>5. CASE InsertSucceeds(t)
  <2>1. Dead' = Dead /\ Excused' = Excused
    BY <1>5 DEF InsertSucceeds, Dead, DeadLettered, In, Excused
  <2> QED
    BY <1>5, <2>1, StoreStep DEF InsertSucceeds
<1>6. CASE InsertFails(t)
  <2>1. Dead' = Dead /\ Excused' = Excused /\ committed' = committed
    BY <1>6 DEF InsertFails, Dead, DeadLettered, In, Excused
  <2>2. CASE UNCHANGED <<rows, misses>>
    BY <1>2, <1>6, <2>2 DEF InsertFails
  <2>3. CASE /\ Kind[EventOf(t)] = "valid" /\ StoreRow(EventOf(t))
             /\ misses' = [misses EXCEPT ![EventOf(t)] = @ + 1]
    BY <1>6, <2>1, <2>3, StoreStep DEF InsertFails
  <2> QED
    BY <1>6, <2>2, <2>3 DEF InsertFails
<1>7. CASE ProcessRaises(t) \/ PublishDeadLetter(t) \/ RecordDeadLetter(t)
  BY <1>7, DeadLetterStep
<1>8. CASE CommitOffset(t)
  BY <1>8, CommitStep DEF CommitOffset
<1>9. CASE CommitFails(t)
  <2>1. CASE SetCommitted(t)
    BY <1>9, <2>1, CommitStep
  <2>2. CASE committed' = committed
    BY <1>2, <1>9, <2>2 DEF CommitFails
  <2> QED
    BY <1>9, <2>1, <2>2 DEF CommitFails
<1> QED
  BY <1>3, <1>4, <1>5, <1>6, <1>7, <1>8, <1>9, <1>10 DEF TaskStep

\* Every step of the specification is a step of the ledger.
LEMMA NextLedgerStep ==
  ASSUME TypeOK, LossInv, ClaimsCharged, [Next]_vars
  PROVE  LedgerStep
<1> USE DEF groupVars, loopVars, taskVars, sinkVars, dlqVars, historyVars
<1>1. CASE JoinGroup \/ Rebalance \/ UNCHANGED vars
  <2>1. UNCHANGED <<committed, held, pc, job, sinkVars, dlqVars, historyVars>>
    BY <1>1 DEF JoinGroup, Rebalance, Assign, vars
  <2>2. Open' = Open
    BY <2>1 DEF Open, Pending, AtWork, HeldEvents, EventOf, EventAt
  <2>3. Dead' = Dead /\ Excused' = Excused
    BY <2>1 DEF Dead, DeadLettered, In, Excused
  <2> QED
    BY <2>1, <2>2, <2>3, Stutters
<1>2. ASSUME NEW w \in Workers, Crash(w) \/ FetchFails(w) \/ LoopStep(w) PROVE LedgerStep
  BY <1>2, ExitStep, PollStep, SpawnStep DEF Crash, FetchFails, LoopStep, PollPoison
<1>3. ASSUME NEW e \in Events, EvictKey(e) PROVE LedgerStep
  <2>1. Open' = Open
    BY <1>3 DEF EvictKey, Open, Pending, AtWork, HeldEvents, EventOf, EventAt
  <2>2. /\ committed' = committed /\ rows' = rows /\ Dead' = Dead /\ Excused' = Excused
        /\ misses' = [misses EXCEPT ![e] = @ + 1]
    BY <1>3 DEF EvictKey, Dead, DeadLettered, In, Excused
  <2>3. Ledger!Charge(e)
    BY <2>1, <2>2 DEF Ledger!Charge, Open, Dead, Excused
  <2> QED
    BY <2>3 DEF LedgerStep, Ledger!Next
<1>4. ASSUME NEW t \in Tasks, TaskStep(t), Next PROVE LedgerStep
  BY <1>4, TaskLedgerStep
<1> QED
  BY <1>1, <1>2, <1>3, <1>4 DEF Next

\* The initial state of the workers is one of the ledger.
LEMMA InitLedger == Init => Ledger!Init
<1> SUFFICES ASSUME Init PROVE Ledger!Init
  OBVIOUS
<1>1. \A e \in Events : ~Pending(e) /\ ~DeadLettered(e)
  BY DEF Init, Pending, AtWork, HeldEvents, DeadLettered, In, Undecided
<1> QED
  BY <1>1 DEF Init, Ledger!Init

\* The workers keep what the ledger promises about every event, whatever the
\* interleaving of their tasks, the rebalances, the crashes and the faults of
\* Redis, PostgreSQL and Kafka: each step is a step of the ledger or a stutter.
THEOREM WorkerImplementsLedger == Spec => ImplementsLedger
<1>1. TypeOK /\ LossInv /\ ClaimsCharged /\ [Next]_vars => [Ledger!Next]_(Ledger!vars)
  BY NextLedgerStep DEF LedgerStep
<1>2. Spec => []LossInv
  BY TypeCorrect, LossInvInit, LossInvStays, PTL DEF Spec
<1> QED
  BY <1>1, <1>2, InitLedger, TypeCorrect, ClaimsAlwaysCharged, PTL
     DEF Spec, ImplementsLedger, Ledger!Spec

-----------------------------------------------------------------------------
(***************************************************************************)
(* What the ledger promises, carried over to what implements it.           *)
(***************************************************************************)
Book == INSTANCE DeliveryLedgerProofs WITH
  Storable <- {e \in Events : Kind[e] = "valid"},
  open <- {e \in Events : Pending(e)},
  copies <- rows,
  dead <- {e \in Events : DeadLettered(e)},
  excused <- orphans \cup abandoned,
  charges <- misses

\* Book is Ledger with its theorems.
LEMMA BookSteps == [Ledger!Next]_(Ledger!vars) => [Book!Next]_(Book!vars)
BY Zenon
   DEF Ledger!vars, Book!vars, Ledger!Next, Book!Next, Ledger!Take, Book!Take,
       Ledger!Store, Book!Store, Ledger!Bury, Book!Bury, Ledger!Close, Book!Close,
       Ledger!Charge, Book!Charge, Ledger!GiveUp, Book!GiveUp, Ledger!Commit, Book!Commit,
       Ledger!MayClose, Book!MayClose, Ledger!Resolved, Book!Resolved

\* What implements the ledger is honest in the tables, topics and tasks of the
\* workers: whatever the group committed past is in flight, has its outcome or an excuse,
\* an event that is invalid or that PostgreSQL rejects never has a row, and no
\* event has a row that no fault pays for (consumer.py:5, idempotency.py:44).
THEOREM ImplementationHonest == ImplementsLedger => []Ledger!Honest
<1>1. Ledger!Init => Book!TypeOK /\ Book!Honest
  BY DEF Ledger!Init, Book!TypeOK, Book!Honest
<1>2. Book!TypeOK /\ Book!Honest /\ [Ledger!Next]_(Ledger!vars) => (Book!TypeOK /\ Book!Honest)'
  BY BookSteps, Book!HonestStays, ConstantsAssumption
<1>3. Book!Honest => Ledger!Honest
  BY DEF Book!Honest, Ledger!Honest, Book!Resolved, Ledger!Resolved
<1> QED
  BY <1>1, <1>2, <1>3, PTL DEF ImplementsLedger, Ledger!Spec

\* The workers keep the ledger's promise.
THEOREM WorkerHonest == Spec => []Ledger!Honest
BY ImplementationHonest, WorkerImplementsLedger, PTL
=============================================================================
