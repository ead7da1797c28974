--------------------------- MODULE IngestionProofs ---------------------------
(***************************************************************************)
(* Proofs about Ingestion, for any pods, devices, messages, sizes, limits  *)
(* and budgets of faults.                                                  *)
(***************************************************************************)
EXTENDS Ingestion, SequenceTheorems, FiniteSetTheorems, TLAPS

-----------------------------------------------------------------------------
(***************************************************************************)
(* Type correctness.                                                       *)
(***************************************************************************)

\* A fault that is spent leaves a budget.
LEMMA SpendType ==
  ASSUME TypeOK, NEW fault \in Faults, Spend(fault)
  PROVE  budget' \in [Faults -> Nat]
BY DEF TypeOK, Spend

\* What is dropped joins the messages of its reason.
LEMMA DropType ==
  ASSUME TypeOK, NEW r \in Reasons, NEW S \in SUBSET Messages, Drop(r, S)
  PROVE  gone' \in [Reasons -> SUBSET Messages]
BY DEF TypeOK, Drop

\* A call to the limiter counts for a device.
LEMMA CountType ==
  ASSUME TypeOK, NEW m \in Messages, CountCall(m)
  PROVE  count' \in [Devices -> Nat]
BY IngestionAssumption DEF TypeOK, CountCall, LimiterKey

LEMMA StoreType ==
  ASSUME TypeOK, NEW m \in Messages, Store(m)
  PROVE  topic' \in Seq(Messages)
BY DEF TypeOK, Store

\* What a pod has is messages; outside the handlers it has no current one.
LEMMA PodTypes ==
  ASSUME TypeOK, NEW p \in Pods
  PROVE  /\ inbox[p] \in Seq(Messages) /\ queue[p] \in Seq(Messages)
         /\ Unread(p) \in SUBSET Messages /\ ToSet(queue[p]) \in SUBSET Messages
         /\ stage[p] \in {"get", "limit", "produce"}
         /\ stage[p] # "get" <=> current[p] \in Messages
         /\ stage[p] = "get" <=> current[p] = NoMsg
BY IngestionAssumption DEF TypeOK, Unread, ToSet

LEMMA DoneType ==
  ASSUME TypeOK, NEW p \in Pods, Done(p)
  PROVE  /\ stage' \in [Pods -> {"get", "limit", "produce"}]
         /\ current' \in [Pods -> Messages \cup {NoMsg}]
         /\ \A q \in Pods : stage'[q] = "get" <=> current'[q] = NoMsg
BY DEF TypeOK, Done

LEMMA AdmitType ==
  ASSUME TypeOK, NEW p \in Pods, stage[p] = "limit", Admit(p)
  PROVE  /\ stage' \in [Pods -> {"get", "limit", "produce"}]
         /\ current' \in [Pods -> Messages \cup {NoMsg}]
         /\ \A q \in Pods : stage'[q] = "get" <=> current'[q] = NoMsg
BY DEF TypeOK, Admit

\* A connection that ends takes only its inbox.
LEMMA DisconnectType ==
  ASSUME TypeOK, NEW ps \in SUBSET Pods, Disconnect(ps)
  PROVE  /\ inbox' \in [Pods -> Seq(Messages)]
         /\ gone' \in [Reasons -> SUBSET Messages]
<1>1. UNION {Unread(p) : p \in ps} \in SUBSET Messages
  BY PodTypes
<1>2. gone' \in [Reasons -> SUBSET Messages]
  BY <1>1, DropType DEF Disconnect, Reasons
<1> QED
  BY <1>2 DEF Disconnect, TypeOK

LEMMA InitType == Init => TypeOK
BY IngestionAssumption DEF Init, TypeOK

\* TypeOK is inductive.
LEMMA TypeStep == TypeOK /\ [Next]_vars => TypeOK'
<1> SUFFICES ASSUME TypeOK, [Next]_vars PROVE TypeOK'
  OBVIOUS
<1>1. CASE UNCHANGED vars
  BY <1>1 DEF vars, loopVars, dispatchVars, TypeOK
<1>2. ASSUME NEW p \in Pods, Connect(p) PROVE TypeOK'
  <2>1. link' \in [Pods -> {"connecting", "connected", "open", "sleeping"}]
    BY <1>2 DEF Connect, TypeOK
  <2>2. /\ inbox' \in [Pods -> Seq(Messages)]
        /\ gone' \in [Reasons -> SUBSET Messages]
    BY <1>2, DisconnectType DEF Connect
  <2>3. delay' \in [Pods -> DelayMin..DelayMax]
    BY <1>2, IngestionAssumption DEF Connect, TypeOK
  <2> QED
    BY <1>2, <2>1, <2>2, <2>3 DEF Connect, TypeOK, dispatchVars
<1>3. ASSUME NEW p \in Pods, Subscribe(p) PROVE TypeOK'
  BY <1>3 DEF Subscribe, TypeOK, dispatchVars
<1>4. ASSUME NEW p \in Pods, Wake(p) PROVE TypeOK'
  <2>1. delay' \in [Pods -> DelayMin..DelayMax]
    BY <1>4, IngestionAssumption DEF Wake, TypeOK
  <2> QED
    BY <1>4, <2>1 DEF Wake, TypeOK, dispatchVars
<1>5. ASSUME NEW p \in Pods, Receive(p) PROVE TypeOK'
  <2>1. Head(inbox[p]) \in Messages /\ Tail(inbox[p]) \in Seq(Messages)
    BY <1>5, PodTypes, HeadTailProperties DEF Receive
  <2>2. inbox' \in [Pods -> Seq(Messages)]
    BY <1>5, <2>1 DEF Receive, TypeOK
  <2>3. CASE Len(queue[p]) < QueueSize
    <3>1. queue' = [queue EXCEPT ![p] = Append(@, Head(inbox[p]))] /\ UNCHANGED gone
      BY <1>5, <2>3, PodTypes, IngestionAssumption DEF Receive, Enqueue
    <3>2. Append(queue[p], Head(inbox[p])) \in Seq(Messages)
          /\ Len(Append(queue[p], Head(inbox[p]))) = Len(queue[p]) + 1
      BY <2>1, PodTypes, AppendProperties
    <3>3. Len(queue[p]) + 1 <= QueueSize
      BY <2>3, PodTypes, LenProperties, IngestionAssumption
    <3>4. queue' \in [Pods -> Seq(Messages)] /\ \A q \in Pods : Len(queue'[q]) <= QueueSize
      BY <3>1, <3>2, <3>3 DEF TypeOK
    <3> QED
      BY <1>5, <2>2, <3>1, <3>4 DEF Receive, TypeOK, loopVars
  <2>4. CASE ~(Len(queue[p]) < QueueSize)
    <3>1. UNCHANGED queue /\ Drop("queue_full", {Head(inbox[p])})
      BY <1>5, <2>4 DEF Receive, Enqueue
    <3>2. gone' \in [Reasons -> SUBSET Messages]
      BY <2>1, <3>1, DropType DEF Reasons
    <3> QED
      BY <1>5, <2>2, <3>1, <3>2 DEF Receive, TypeOK, loopVars
  <2> QED
    BY <2>3, <2>4
<1>6. ASSUME NEW p \in Pods, Take(p) PROVE TypeOK'
  <2> DEFINE m == Head(queue[p])
  <2>1. m \in Messages /\ Tail(queue[p]) \in Seq(Messages)
        /\ Len(Tail(queue[p])) = Len(queue[p]) - 1 /\ Len(queue[p]) \in Nat
    BY <1>6, PodTypes, HeadTailProperties, LenProperties DEF Take
  <2>2. queue' \in [Pods -> Seq(Messages)] /\ \A q \in Pods : Len(queue'[q]) <= QueueSize
    BY <1>6, <2>1, IngestionAssumption DEF Take, TypeOK
  <2>3. UNCHANGED <<published, link, delay, inbox, count, topic, budget>>
    BY <1>6 DEF Take, loopVars
  <2>4. CASE \E r \in Reasons : Drop(r, {m}) /\ UNCHANGED <<stage, current>>
    <3>1. gone' \in [Reasons -> SUBSET Messages]
      BY <2>1, <2>4, DropType
    <3> QED
      BY <2>2, <2>3, <2>4, <3>1 DEF TypeOK
  <2>5. CASE /\ stage' = [stage EXCEPT ![p] = "limit"]
             /\ current' = [current EXCEPT ![p] = m]
             /\ UNCHANGED gone
    BY <2>1, <2>2, <2>3, <2>5, IngestionAssumption DEF TypeOK
  <2> QED
    BY <1>6, <2>4, <2>5 DEF Take, Raise, Reasons
<1>7. ASSUME NEW p \in Pods, CheckLimit(p) PROVE TypeOK'
  <2>1. current[p] \in Messages
    BY <1>7, PodTypes DEF CheckLimit
  <2>2. count' \in [Devices -> Nat]
    BY <1>7, <2>1, CountType DEF CheckLimit
  <2>3. CASE Admit(p)
    BY <1>7, <2>2, <2>3, AdmitType DEF CheckLimit, Admit, TypeOK, loopVars
  <2>4. CASE Drop("rate_limited", {current[p]}) /\ Done(p)
    <3>1. gone' \in [Reasons -> SUBSET Messages]
      BY <2>1, <2>4, DropType DEF Reasons
    <3> QED
      BY <1>7, <2>2, <2>4, <3>1, DoneType DEF CheckLimit, TypeOK, loopVars
  <2> QED
    BY <1>7, <2>3, <2>4 DEF CheckLimit
<1>8. ASSUME NEW p \in Pods, CheckFailsOpen(p) PROVE TypeOK'
  <2>1. current[p] \in Messages
    BY <1>8, PodTypes DEF CheckFailsOpen
  <2>2. count' \in [Devices -> Nat]
    BY <1>8, <2>1, CountType DEF CheckFailsOpen, TypeOK
  <2>3. budget' \in [Faults -> Nat]
    BY <1>8, SpendType DEF CheckFailsOpen, Faults
  <2> QED
    BY <1>8, <2>2, <2>3, AdmitType DEF CheckFailsOpen, Admit, TypeOK, loopVars
<1>9. ASSUME NEW p \in Pods, Produce(p) PROVE TypeOK'
  <2>1. topic' \in Seq(Messages)
    BY <1>9, PodTypes, StoreType DEF Produce
  <2> QED
    BY <1>9, <2>1, DoneType DEF Produce, TypeOK, loopVars
<1>10. ASSUME NEW p \in Pods, ProduceFails(p) PROVE TypeOK'
  <2>1. current[p] \in Messages
    BY <1>10, PodTypes DEF ProduceFails
  <2>2. topic' \in Seq(Messages)
    BY <1>10, <2>1, StoreType DEF ProduceFails, TypeOK
  <2>3. budget' \in [Faults -> Nat] /\ gone' \in [Reasons -> SUBSET Messages]
    BY <1>10, <2>1, SpendType, DropType DEF ProduceFails, Faults, Reasons
  <2> QED
    BY <1>10, <2>2, <2>3, DoneType DEF ProduceFails, TypeOK, loopVars
<1>11. ASSUME NEW p \in Pods, LinkFails(p) PROVE TypeOK'
  <2>1. link' \in [Pods -> {"connecting", "connected", "open", "sleeping"}]
    BY <1>11 DEF LinkFails, TypeOK
  <2>2. budget' \in [Faults -> Nat]
    BY <1>11, SpendType DEF LinkFails, Faults
  <2> QED
    BY <1>11, <2>1, <2>2, DisconnectType DEF LinkFails, TypeOK, dispatchVars
<1>12. ASSUME NEW p \in Pods, Stop(p) PROVE TypeOK'
  <2>1. budget' \in [Faults -> Nat]
    BY <1>12, SpendType DEF Stop, Faults
  <2>2. gone' \in [Reasons -> SUBSET Messages]
    <3>1. Unread(p) \cup ToSet(queue[p]) \cup ({current[p]} \ {NoMsg}) \in SUBSET Messages
      BY PodTypes
    <3> QED
      BY <1>12, <3>1, DropType DEF Stop, Reasons
  <2>3. count' \in [Devices -> Nat] /\ topic' \in Seq(Messages)
    BY <1>12, PodTypes, CountType, StoreType DEF Stop, TypeOK
  <2>4. /\ link' \in [Pods -> {"connecting", "connected", "open", "sleeping"}]
        /\ delay' \in [Pods -> DelayMin..DelayMax]
    BY <1>12, IngestionAssumption DEF Stop, TypeOK
  <2>5. /\ inbox' \in [Pods -> Seq(Messages)] /\ queue' \in [Pods -> Seq(Messages)]
        /\ \A q \in Pods : Len(queue'[q]) <= QueueSize
    BY <1>12, IngestionAssumption DEF Stop, TypeOK
  <2> QED
    BY <1>12, <2>1, <2>2, <2>3, <2>4, <2>5, DoneType DEF Stop, TypeOK
<1>13. ASSUME NEW m \in Messages, Publish(m) PROVE TypeOK'
  <2>1. published' \in Seq(Messages)
    BY <1>13 DEF Publish, TypeOK
  <2>2. CASE UNCHANGED inbox
    <3>1. gone' \in [Reasons -> SUBSET Messages]
      BY <1>13, <2>2, DropType DEF Publish, Reasons, TypeOK
    <3> QED
      BY <1>13, <2>1, <2>2, <3>1 DEF Publish, TypeOK, loopVars, dispatchVars
  <2>3. CASE UNCHANGED gone /\ \E p \in Pods : inbox' = [inbox EXCEPT ![p] = Append(@, m)]
    <3>1. inbox' \in [Pods -> Seq(Messages)]
      BY <2>3 DEF TypeOK
    <3> QED
      BY <1>13, <2>1, <2>3, <3>1 DEF Publish, TypeOK, loopVars, dispatchVars
  <2> QED
    BY <1>13, <2>2, <2>3 DEF Publish
<1>14. ASSUME NEW d \in Devices, WindowEnds(d) PROVE TypeOK'
  BY <1>14 DEF WindowEnds, TypeOK, loopVars, dispatchVars
<1> QED
  BY <1>1, <1>2, <1>3, <1>4, <1>5, <1>6, <1>7, <1>8, <1>9, <1>10, <1>11, <1>12, <1>13, <1>14
     DEF Next, LoopStep, DispatcherStep

\* Every variable has its type; no queue passes its size, and no delay its bounds.
THEOREM IngestionTypeCorrect == Spec => []TypeOK
<1>1. Init => TypeOK
  BY InitType
<1>2. TypeOK /\ [Next]_vars => TypeOK'
  BY TypeStep
<1> QED
  BY <1>1, <1>2, PTL DEF Spec

-----------------------------------------------------------------------------
(***************************************************************************)
(* Sequences as sets.                                                      *)
(***************************************************************************)

\* <<>> holds nothing, and nothing twice.
LEMMA EmptyHolds == ToSet(<<>>) = {} /\ IsInjective(<<>>)
BY DEF ToSet, IsInjective

\* Append adds its element, and repeats none that is new.
LEMMA AppendHolds ==
  ASSUME NEW S, NEW s \in Seq(S), NEW e \in S
  PROVE  /\ ToSet(Append(s, e)) = ToSet(s) \cup {e}
         /\ IsInjective(s) /\ e \notin ToSet(s) => IsInjective(Append(s, e))
<1> DEFINE t == Append(s, e)
<1>1. /\ t \in Seq(S) /\ Len(t) = Len(s) + 1 /\ Len(s) \in Nat
      /\ \A i \in 1..Len(s) : t[i] = s[i]
      /\ t[Len(s) + 1] = e
  BY AppendProperties, LenProperties
<1>2. DOMAIN s = 1..Len(s) /\ DOMAIN t = 1..(Len(s) + 1)
  BY <1>1, LenProperties
<1> HIDE DEF t
<1>3. ToSet(t) = ToSet(s) \cup {e}
  <2>1. ASSUME NEW x \in ToSet(t) PROVE x \in ToSet(s) \cup {e}
    <3>1. PICK i \in 1..(Len(s) + 1) : x = t[i]
      BY <2>1, <1>2 DEF ToSet
    <3>2. CASE i = Len(s) + 1
      BY <3>1, <3>2, <1>1
    <3>3. CASE i # Len(s) + 1
      <4>1. i \in 1..Len(s)
        BY <3>3, <1>1
      <4> QED
        BY <3>1, <4>1, <1>1, <1>2 DEF ToSet
    <3> QED
      BY <3>2, <3>3
  <2>2. ASSUME NEW x \in ToSet(s) PROVE x \in ToSet(t)
    <3>1. PICK i \in 1..Len(s) : x = s[i]
      BY <2>2, <1>2 DEF ToSet
    <3>2. i \in 1..(Len(s) + 1)
      BY <1>1
    <3> QED
      BY <3>1, <3>2, <1>1, <1>2 DEF ToSet
  <2>3. e \in ToSet(t)
    <3>1. Len(s) + 1 \in 1..(Len(s) + 1)
      BY <1>1
    <3> QED
      BY <3>1, <1>1, <1>2 DEF ToSet
  <2> QED
    BY <2>1, <2>2, <2>3
<1>4. ASSUME IsInjective(s), e \notin ToSet(s) PROVE IsInjective(t)
  <2> SUFFICES ASSUME NEW i \in 1..(Len(s) + 1), NEW j \in 1..(Len(s) + 1), t[i] = t[j]
               PROVE  i = j
    BY <1>2 DEF IsInjective
  <2>1. \A k \in 1..Len(s) : t[k] = s[k] /\ t[k] # e
    BY <1>1, <1>2, <1>4 DEF ToSet
  <2>2. CASE i \in 1..Len(s) /\ j \in 1..Len(s)
    BY <2>1, <2>2, <1>2, <1>4 DEF IsInjective
  <2>3. CASE i = Len(s) + 1
    BY <2>1, <2>3, <1>1
  <2>4. CASE j = Len(s) + 1
    BY <2>1, <2>4, <1>1
  <2> QED
    BY <2>2, <2>3, <2>4, <1>1
<1> QED
  BY <1>3, <1>4 DEF t

\* A sequence holds its head and what its tail holds, and its tail repeats
\* nothing if it repeats nothing.
LEMMA TailHolds ==
  ASSUME NEW S, NEW s \in Seq(S), s # <<>>
  PROVE  /\ ToSet(s) = ToSet(Tail(s)) \cup {Head(s)}
         /\ IsInjective(s) => IsInjective(Tail(s)) /\ Head(s) \notin ToSet(Tail(s))
<1> DEFINE t == Tail(s)
<1>1. /\ t \in Seq(S) /\ Len(t) = Len(s) - 1 /\ Len(s) \in Nat \ {0}
      /\ \A i \in 1..Len(t) : t[i] = s[i + 1]
  BY HeadTailProperties, EmptySeq
<1>2. DOMAIN s = 1..Len(s) /\ DOMAIN t = 1..(Len(s) - 1) /\ Head(s) = s[1]
  BY <1>1, LenProperties
<1> HIDE DEF t
<1>3. ToSet(s) = ToSet(t) \cup {Head(s)}
  <2>1. ASSUME NEW x \in ToSet(s) PROVE x \in ToSet(t) \cup {Head(s)}
    <3>1. PICK i \in 1..Len(s) : x = s[i]
      BY <2>1, <1>2 DEF ToSet
    <3>2. CASE i = 1
      BY <3>1, <3>2, <1>2
    <3>3. CASE i # 1
      <4>1. i - 1 \in 1..(Len(s) - 1) /\ t[i - 1] = s[i]
        BY <3>3, <1>1
      <4> QED
        BY <3>1, <4>1, <1>2 DEF ToSet
    <3> QED
      BY <3>2, <3>3
  <2>2. ASSUME NEW x \in ToSet(t) PROVE x \in ToSet(s)
    <3>1. PICK i \in 1..(Len(s) - 1) : x = t[i]
      BY <2>2, <1>2 DEF ToSet
    <3>2. i + 1 \in 1..Len(s) /\ t[i] = s[i + 1]
      BY <1>1
    <3> QED
      BY <3>1, <3>2, <1>2 DEF ToSet
  <2>3. Head(s) \in ToSet(s)
    BY <1>1, <1>2 DEF ToSet
  <2> QED
    BY <2>1, <2>2, <2>3
<1>4. ASSUME IsInjective(s) PROVE IsInjective(t) /\ Head(s) \notin ToSet(t)
  <2>1. ASSUME NEW i \in 1..(Len(s) - 1), NEW j \in 1..(Len(s) - 1), t[i] = t[j]
        PROVE  i = j
    <3>1. i + 1 \in 1..Len(s) /\ j + 1 \in 1..Len(s) /\ s[i + 1] = s[j + 1]
      BY <2>1, <1>1
    <3>2. i + 1 = j + 1
      BY <3>1, <1>2, <1>4 DEF IsInjective
    <3> QED
      BY <3>2
  <2>2. ASSUME NEW i \in 1..(Len(s) - 1) PROVE t[i] # Head(s)
    <3>1. i + 1 \in 1..Len(s) /\ 1 \in 1..Len(s) /\ i + 1 # 1 /\ t[i] = s[i + 1]
      BY <1>1
    <3> QED
      BY <3>1, <1>2, <1>4 DEF IsInjective
  <2> QED
    BY <2>1, <2>2, <1>2 DEF IsInjective, ToSet
<1> QED
  BY <1>3, <1>4 DEF t

-----------------------------------------------------------------------------
(***************************************************************************)
(* No message is repeated or missing: PlaceInv is inductive.               *)
(***************************************************************************)

\* What a pod has is messages, and none of them has ended.
LEMMA HasMessages ==
  ASSUME TypeOK, NEW p \in Pods
  PROVE  Has(p) \in SUBSET Messages
BY PodTypes DEF Has

(***************************************************************************)
(* Whatever leaves the pods is accounted for.  The messages S go: those of *)
(* T are reported, and the others, at most one, are stored.                *)
(***************************************************************************)
LEMMA Leave ==
  ASSUME TypeOK, PlaceInv, UNCHANGED published,
         NEW r \in Reasons, NEW S, NEW T \in SUBSET S,
         S \subseteq UNION {Has(p) : p \in Pods},
         \A p \in Pods : Has(p)' = Has(p) \ S,
         Drop(r, T),
         \/ UNCHANGED topic /\ S = T
         \/ \E m \in Messages : /\ Store(m) /\ m \in S /\ S = T \cup {m}
                                /\ T = {} \/ r \in {"kafka_error", "shutdown"}
  PROVE  (OnlyPublished /\ OnePod /\ EndedOnce /\ NoneMissing)'
<1>1. PICK M \in SUBSET S :
        /\ ToSet(topic') = ToSet(topic) \cup M /\ S = T \cup M
        /\ M = {} \/ T = {} \/ r \in {"kafka_error", "shutdown"}
        /\ IsInjective(topic')
  <2>1. CASE UNCHANGED topic /\ S = T
    <3>1. ToSet(topic') = ToSet(topic) \cup {} /\ S = T \cup {} /\ {} \in SUBSET S
      BY <2>1
    <3>2. IsInjective(topic')
      BY <2>1 DEF PlaceInv, EndedOnce
    <3> QED
      BY <3>1, <3>2
  <2>2. ASSUME NEW m \in Messages, Store(m), m \in S, S = T \cup {m},
               T = {} \/ r \in {"kafka_error", "shutdown"}
        PROVE  /\ ToSet(topic') = ToSet(topic) \cup {m}
               /\ IsInjective(topic')
    <3>1. \E p \in Pods : m \in Has(p)
      BY <2>2
    <3>2. m \notin ToSet(topic)
      BY <3>1 DEF PlaceInv, EndedOnce
    <3> QED
      BY <2>2, <3>2, AppendHolds DEF Store, TypeOK, PlaceInv, EndedOnce
  <2> QED
    BY <2>1, <2>2
<1>2. \A q \in Reasons : gone'[q] = IF q = r THEN gone[q] \cup T ELSE gone[q]
  BY DEF Drop, TypeOK
<1>3. /\ \A p \in Pods : Has(p) \subseteq ToSet(published)
      /\ ToSet(topic) \subseteq ToSet(published)
      /\ \A q \in Reasons : gone[q] \subseteq ToSet(published)
  BY DEF PlaceInv, OnlyPublished
<1>4. /\ \A q, s \in Reasons : q # s => gone[q] \cap gone[s] = {}
      /\ \A q \in Reasons \ {"kafka_error", "shutdown"} : gone[q] \cap ToSet(topic) = {}
      /\ \A p \in Pods : Has(p) \cap ToSet(topic) = {}
      /\ \A p \in Pods : \A q \in Reasons : Has(p) \cap gone[q] = {}
  BY DEF PlaceInv, EndedOnce
<1>5. S \cap ToSet(topic) = {} /\ \A q \in Reasons : S \cap gone[q] = {}
  BY <1>4
<1>6. OnlyPublished'
  <2>1. S \subseteq ToSet(published)
    BY <1>3
  <2>2. \A p \in Pods : Has(p)' \subseteq ToSet(published)
    BY <1>3
  <2>3. ToSet(topic') \subseteq ToSet(published)
    BY <1>1, <1>3, <2>1
  <2>4. \A q \in Reasons : gone'[q] \subseteq ToSet(published)
    BY <1>2, <1>3, <2>1
  <2> QED
    BY <2>2, <2>3, <2>4 DEF OnlyPublished
<1>7. OnePod'
  BY DEF PlaceInv, OnePod
<1>8. EndedOnce'
  <2>1. \A q, s \in Reasons : q # s => gone'[q] \cap gone'[s] = {}
    BY <1>2, <1>4, <1>5
  <2>2. \A q \in Reasons \ {"kafka_error", "shutdown"} : gone'[q] \cap ToSet(topic') = {}
    BY <1>1, <1>2, <1>4, <1>5
  <2>3. \A p \in Pods : Has(p)' \cap ToSet(topic') = {}
    BY <1>1, <1>4
  <2>4. \A p \in Pods : \A q \in Reasons : Has(p)' \cap gone'[q] = {}
    BY <1>2, <1>4
  <2> QED
    BY <2>1, <2>2, <2>3, <2>4, <1>1 DEF EndedOnce
<1>9. NoneMissing'
  <2> SUFFICES ASSUME NEW m \in ToSet(published)
               PROVE  \/ \E p \in Pods : m \in Has(p)'
                      \/ m \in ToSet(topic')
                      \/ \E q \in Reasons : m \in gone'[q]
    BY DEF NoneMissing, InTopic, EndsOf
  <2>1. \/ \E p \in Pods : m \in Has(p)
        \/ m \in ToSet(topic)
        \/ \E q \in Reasons : m \in gone[q]
    BY DEF PlaceInv, NoneMissing, InTopic, EndsOf
  <2>2. CASE m \in S
    BY <2>2, <1>1, <1>2
  <2>3. CASE m \notin S
    BY <2>1, <2>3, <1>1, <1>2
  <2> QED
    BY <2>2, <2>3
<1> QED
  BY <1>6, <1>7, <1>8, <1>9

\* Nothing moves.
LEMMA PlaceSame ==
  ASSUME PlaceInv, UNCHANGED <<published, inbox, queue, current, topic, gone>>
  PROVE  PlaceInv'
BY DEF PlaceInv, OnlyPublished, OnceInPod, OnceIn, OnePod, EndedOnce, NoneMissing, Has,
       Unread, InTopic, EndsOf

\* Dropping nothing changes nothing.
LEMMA DropNothing ==
  ASSUME TypeOK, UNCHANGED gone
  PROVE  Drop("link", {})
BY DEF TypeOK, Drop, Reasons

\* Leave, for messages of one pod.
LEMMA PodLeave ==
  ASSUME TypeOK, PlaceInv, UNCHANGED published,
         NEW p \in Pods,
         \A q \in Pods \ {p} :
           inbox'[q] = inbox[q] /\ queue'[q] = queue[q] /\ current'[q] = current[q],
         OnceIn(p)',
         NEW r \in Reasons, NEW S, NEW T \in SUBSET S,
         S \subseteq Has(p), Has(p)' = Has(p) \ S,
         Drop(r, T),
         \/ UNCHANGED topic /\ S = T
         \/ \E m \in Messages : /\ Store(m) /\ m \in S /\ S = T \cup {m}
                                /\ T = {} \/ r \in {"kafka_error", "shutdown"}
  PROVE  PlaceInv'
<1>1. ASSUME NEW q \in Pods \ {p}
      PROVE  OnceIn(q)' /\ Has(q)' = Has(q)
  <2>1. inbox'[q] = inbox[q] /\ queue'[q] = queue[q] /\ current'[q] = current[q]
    OBVIOUS
  <2>2. OnceIn(q)
    BY DEF PlaceInv, OnceInPod
  <2> QED
    BY <2>1, <2>2 DEF OnceIn, Has, Unread
<1>2. OnceInPod'
  BY <1>1 DEF OnceInPod
<1>3. \A q \in Pods : Has(q)' = Has(q) \ S
  <2>1. \A q \in Pods \ {p} : Has(q) \cap Has(p) = {}
    BY DEF PlaceInv, OnePod
  <2> QED
    BY <1>1, <2>1
<1>4. S \subseteq UNION {Has(q) : q \in Pods}
  OBVIOUS
<1>5. (OnlyPublished /\ OnePod /\ EndedOnce /\ NoneMissing)'
  BY <1>3, <1>4, Leave
<1> QED
  BY <1>2, <1>5 DEF PlaceInv

\* A message moves from the inbox to the queue, or is dropped before it.
LEMMA ReceivePlace ==
  ASSUME TypeOK, PlaceInv, NEW p \in Pods, Receive(p)
  PROVE  PlaceInv'
<1> DEFINE m == Head(inbox[p])
<1>1. /\ inbox[p] \in Seq(Messages) /\ inbox[p] # <<>> /\ queue[p] \in Seq(Messages)
      /\ m \in Messages
  BY PodTypes, HeadTailProperties DEF Receive
<1>2. OnceIn(p)
  BY DEF PlaceInv, OnceInPod
<1>3. /\ Unread(p) = ToSet(Tail(inbox[p])) \cup {m}
      /\ m \notin ToSet(Tail(inbox[p])) /\ IsInjective(Tail(inbox[p]))
  BY <1>1, <1>2, TailHolds DEF OnceIn, Unread
<1>4. /\ inbox'[p] = Tail(inbox[p]) /\ UNCHANGED <<published, current, topic>>
      /\ \A q \in Pods \ {p} : inbox'[q] = inbox[q]
  BY DEF Receive, TypeOK
<1>5. m \notin ToSet(queue[p]) /\ m # current[p]
  BY <1>2, <1>3 DEF OnceIn
<1>6. CASE queue' = [queue EXCEPT ![p] = Append(@, m)] /\ UNCHANGED gone
  <2>1. queue'[p] = Append(queue[p], m) /\ \A q \in Pods \ {p} : queue'[q] = queue[q]
    BY <1>6 DEF TypeOK
  <2>2. ToSet(queue'[p]) = ToSet(queue[p]) \cup {m} /\ IsInjective(queue'[p])
    BY <2>1, <1>1, <1>2, <1>5, AppendHolds DEF OnceIn
  <2>3. OnceIn(p)'
    BY <2>2, <1>2, <1>3, <1>4, <1>5 DEF OnceIn, Unread
  <2>4. Has(p)' = Has(p) \ {}
    BY <2>2, <1>3, <1>4 DEF Has, Unread
  <2> QED
    BY <2>1, <2>3, <2>4, <1>4, <1>6, DropNothing, PodLeave DEF Reasons
<1>7. CASE Drop("queue_full", {m}) /\ UNCHANGED queue
  <2>1. OnceIn(p)'
    BY <1>2, <1>3, <1>4, <1>7 DEF OnceIn, Unread
  <2>2. Has(p)' = Has(p) \ {m}
    BY <1>1, <1>3, <1>4, <1>5, <1>7 DEF Has, Unread
  <2>3. {m} \subseteq Has(p)
    BY <1>3 DEF Has
  <2> QED
    BY <2>1, <2>2, <2>3, <1>4, <1>7, PodLeave DEF Reasons
<1> QED
  BY <1>6, <1>7 DEF Receive, Enqueue

\* The first message of the queue goes to the handlers, or ends there.
LEMMA TakePlace ==
  ASSUME TypeOK, PlaceInv, NEW p \in Pods, Take(p)
  PROVE  PlaceInv'
<1> DEFINE m == Head(queue[p])
<1>1. /\ queue[p] \in Seq(Messages) /\ queue[p] # <<>> /\ m \in Messages
      /\ current[p] = NoMsg /\ m # NoMsg
  BY PodTypes, HeadTailProperties, IngestionAssumption DEF Take
<1>2. OnceIn(p)
  BY DEF PlaceInv, OnceInPod
<1>3. /\ ToSet(queue[p]) = ToSet(Tail(queue[p])) \cup {m}
      /\ m \notin ToSet(Tail(queue[p])) /\ IsInjective(Tail(queue[p]))
  BY <1>1, <1>2, TailHolds DEF OnceIn
<1>4. /\ queue'[p] = Tail(queue[p]) /\ UNCHANGED <<published, inbox, topic>>
      /\ \A q \in Pods \ {p} : queue'[q] = queue[q]
  BY DEF Take, TypeOK
<1>5. m \notin Unread(p) /\ {m} \subseteq Has(p)
  BY <1>2, <1>3 DEF OnceIn, Has
<1>6. CASE \E r \in Reasons : Drop(r, {m}) /\ UNCHANGED current
  <2>1. PICK r \in Reasons : Drop(r, {m}) /\ UNCHANGED current
    BY <1>6
  <2>2. OnceIn(p)'
    BY <2>1, <1>2, <1>3, <1>4 DEF OnceIn, Unread
  <2>3. Has(p)' = Has(p) \ {m}
    BY <2>1, <1>1, <1>3, <1>4, <1>5 DEF Has, Unread
  <2> QED
    BY <2>1, <2>2, <2>3, <1>4, <1>5, PodLeave
<1>7. CASE current' = [current EXCEPT ![p] = m] /\ UNCHANGED gone
  <2>1. current'[p] = m /\ \A q \in Pods \ {p} : current'[q] = current[q]
    BY <1>7 DEF TypeOK
  <2>2. OnceIn(p)'
    BY <2>1, <1>2, <1>3, <1>4, <1>5 DEF OnceIn, Unread
  <2>3. Has(p)' = Has(p) \ {}
    BY <2>1, <1>1, <1>3, <1>4 DEF Has, Unread
  <2> QED
    BY <2>1, <2>2, <2>3, <1>4, <1>7, DropNothing, PodLeave DEF Reasons
<1> QED
  BY <1>6, <1>7 DEF Take, Raise, Reasons

\* The handlers are done with a message, and it is stored, reported, or both.
LEMMA DonePlace ==
  ASSUME TypeOK, PlaceInv, NEW p \in Pods, stage[p] # "get", Done(p),
         UNCHANGED <<published, inbox, queue>>,
         NEW r \in Reasons, NEW T \in SUBSET {current[p]}, Drop(r, T),
         \/ UNCHANGED topic /\ T = {current[p]}
         \/ Store(current[p]) /\ (T = {} \/ r \in {"kafka_error", "shutdown"})
  PROVE  PlaceInv'
<1> DEFINE m == current[p]
<1>1. m \in Messages /\ m # NoMsg
  BY PodTypes, IngestionAssumption
<1>2. OnceIn(p)
  BY DEF PlaceInv, OnceInPod
<1>3. current'[p] = NoMsg /\ \A q \in Pods \ {p} : current'[q] = current[q]
  BY DEF Done, TypeOK
<1>4. NoMsg \notin Unread(p) \cup ToSet(queue[p])
  BY PodTypes, IngestionAssumption
<1>5. OnceIn(p)'
  BY <1>2, <1>3, <1>4 DEF OnceIn, Unread
<1>6. Has(p)' = Has(p) \ {m} /\ {m} \subseteq Has(p)
  BY <1>1, <1>2, <1>3 DEF OnceIn, Has, Unread
<1>7. \/ UNCHANGED topic /\ {m} = T
      \/ \E n \in Messages : /\ Store(n) /\ n \in {m} /\ {m} = T \cup {n}
                             /\ T = {} \/ r \in {"kafka_error", "shutdown"}
  BY <1>1
<1> QED
  BY <1>3, <1>5, <1>6, <1>7, PodLeave

LEMMA CheckLimitPlace ==
  ASSUME TypeOK, PlaceInv, NEW p \in Pods, CheckLimit(p)
  PROVE  PlaceInv'
<1>1. CASE Admit(p)
  BY <1>1, PlaceSame DEF Admit, CheckLimit
<1>2. CASE Drop("rate_limited", {current[p]}) /\ Done(p)
  BY <1>2, DonePlace DEF CheckLimit, Reasons
<1> QED
  BY <1>1, <1>2 DEF CheckLimit

LEMMA ProducePlace ==
  ASSUME TypeOK, PlaceInv, NEW p \in Pods, Produce(p) \/ ProduceFails(p)
  PROVE  PlaceInv'
<1>1. CASE Produce(p)
  <2>1. Drop("link", {})
    BY <1>1, DropNothing DEF Produce
  <2> QED
    BY <1>1, <2>1, DonePlace DEF Produce, Reasons
<1>2. CASE ProduceFails(p)
  BY <1>2, DonePlace DEF ProduceFails, Reasons
<1> QED
  BY <1>1, <1>2

\* Connections end: what their clients had not read is reported.
LEMMA DisconnectPlace ==
  ASSUME TypeOK, PlaceInv, NEW ps \in SUBSET Pods, Disconnect(ps),
         UNCHANGED <<published, queue, current, topic>>
  PROVE  PlaceInv'
<1> DEFINE S == UNION {Unread(p) : p \in ps}
<1>1. \A p \in Pods : OnceIn(p)
  BY DEF PlaceInv, OnceInPod
<1>2. \A p \in Pods : inbox'[p] = IF p \in ps THEN <<>> ELSE inbox[p]
  BY DEF Disconnect
<1>3. \A p \in Pods : Unread(p)' = IF p \in ps THEN {} ELSE Unread(p)
  BY <1>2, EmptyHolds DEF Unread
<1>4. OnceInPod'
  <2> SUFFICES ASSUME NEW p \in Pods PROVE OnceIn(p)'
    BY DEF OnceInPod
  <2>1. IsInjective(inbox'[p])
    BY <1>1, <1>2, EmptyHolds DEF OnceIn
  <2> QED
    BY <2>1, <1>1, <1>3 DEF OnceIn
<1>5. \A p \in Pods : Has(p)' = Has(p) \ S
  <2> SUFFICES ASSUME NEW p \in Pods PROVE Has(p)' = Has(p) \ S
    OBVIOUS
  <2>1. \A q \in Pods \ {p} : Has(p) \cap Unread(q) = {}
    BY DEF PlaceInv, OnePod, Has
  <2>2. Has(p)' = Unread(p)' \cup ToSet(queue[p]) \cup ({current[p]} \ {NoMsg})
    BY DEF Has
  <2>3. CASE p \in ps
    <3>1. Has(p) \ S = (Has(p) \ Unread(p))
      BY <2>1, <2>3
    <3>2. Has(p) \ Unread(p) = ToSet(queue[p]) \cup ({current[p]} \ {NoMsg})
      BY <1>1 DEF Has, OnceIn
    <3> QED
      BY <3>1, <3>2, <2>2, <2>3, <1>3
  <2>4. CASE p \notin ps
    <3>1. Has(p) \ S = Has(p)
      BY <2>1, <2>4
    <3> QED
      BY <3>1, <2>2, <2>4, <1>3 DEF Has
  <2> QED
    BY <2>3, <2>4
<1>6. S \subseteq UNION {Has(p) : p \in Pods}
  BY DEF Has
<1>7. Drop("link", S)
  BY DEF Disconnect
<1> HIDE DEF S
<1>8. (OnlyPublished /\ OnePod /\ EndedOnce /\ NoneMissing)'
  BY <1>5, <1>6, <1>7, Leave DEF Reasons
<1> QED
  BY <1>4, <1>8 DEF PlaceInv

\* A pod ends: what it has is reported; the message it was storing may be stored.
LEMMA StopPlace ==
  ASSUME TypeOK, PlaceInv, NEW p \in Pods, Stop(p)
  PROVE  PlaceInv'
<1>1. /\ inbox'[p] = <<>> /\ queue'[p] = <<>> /\ current'[p] = NoMsg
      /\ \A q \in Pods \ {p} :
           inbox'[q] = inbox[q] /\ queue'[q] = queue[q] /\ current'[q] = current[q]
  BY DEF Stop, Done, TypeOK
<1>2. OnceIn(p)'
  BY <1>1, EmptyHolds DEF OnceIn, Unread
<1>3. Has(p)' = Has(p) \ Has(p)
  BY <1>1, EmptyHolds DEF Has, Unread
<1>4. UNCHANGED published /\ Drop("shutdown", Has(p))
  BY DEF Stop, Has
<1>5. CASE UNCHANGED topic
  BY <1>1, <1>2, <1>3, <1>4, <1>5, PodLeave DEF Reasons
<1>6. CASE stage[p] = "produce" /\ Store(current[p])
  <2>1. current[p] \in Messages /\ current[p] \in Has(p)
    BY <1>6, PodTypes, IngestionAssumption DEF Has
  <2>2. Has(p) = Has(p) \cup {current[p]}
    BY <2>1
  <2> QED
    BY <1>1, <1>2, <1>3, <1>4, <1>6, <2>1, <2>2, PodLeave DEF Reasons
<1> QED
  BY <1>5, <1>6 DEF Stop

\* A new message goes to one inbox, or ends at once.
LEMMA PublishPlace ==
  ASSUME TypeOK, PlaceInv, NEW m \in Messages, Publish(m)
  PROVE  PlaceInv'
<1>1. m \notin ToSet(published) /\ UNCHANGED <<queue, current, topic>>
  BY DEF Publish, dispatchVars
<1>2. ToSet(published') = ToSet(published) \cup {m}
  BY AppendHolds DEF Publish, TypeOK
<1>3. /\ \A p \in Pods : m \notin Has(p)
      /\ m \notin ToSet(topic)
      /\ \A r \in Reasons : m \notin gone[r]
  BY <1>1 DEF PlaceInv, OnlyPublished
<1>4. m # NoMsg
  BY IngestionAssumption
<1>5. ASSUME NEW p \in Pods, inbox' = [inbox EXCEPT ![p] = Append(@, m)], UNCHANGED gone
      PROVE  PlaceInv'
  <2>1. inbox'[p] = Append(inbox[p], m) /\ \A q \in Pods \ {p} : inbox'[q] = inbox[q]
    BY <1>5 DEF TypeOK
  <2>2. \A q \in Pods : OnceIn(q)
    BY DEF PlaceInv, OnceInPod
  <2>3. Unread(p)' = Unread(p) \cup {m} /\ IsInjective(inbox'[p])
    BY <2>1, <2>2, <1>3, AppendHolds DEF TypeOK, Unread, Has, OnceIn
  <2>4. \A q \in Pods \ {p} : Unread(q)' = Unread(q)
    BY <2>1 DEF Unread
  <2>5. \A q \in Pods : Has(q)' = IF q = p THEN Has(q) \cup {m} ELSE Has(q)
    BY <2>3, <2>4, <1>1 DEF Has
  <2>6. OnceInPod'
    <3> SUFFICES ASSUME NEW q \in Pods PROVE OnceIn(q)'
      BY DEF OnceInPod
    <3>1. m \notin ToSet(queue[q]) /\ m # current[q]
      BY <1>3, <1>4 DEF Has
    <3>2. CASE q = p
      BY <3>1, <3>2, <2>2, <2>3, <1>1 DEF OnceIn
    <3>3. CASE q # p
      BY <3>3, <2>1, <2>2, <2>4, <1>1 DEF OnceIn
    <3> QED
      BY <3>2, <3>3
  <2>7. OnlyPublished'
    BY <2>5, <1>1, <1>2, <1>5 DEF PlaceInv, OnlyPublished
  <2>8. OnePod'
    <3>1. \A q \in Pods : m \notin Has(q)
      BY <1>3
    <3> QED
      BY <2>5, <3>1 DEF PlaceInv, OnePod
  <2>9. EndedOnce'
    BY <2>5, <1>1, <1>3, <1>5 DEF PlaceInv, EndedOnce
  <2>10. NoneMissing'
    <3> SUFFICES ASSUME NEW n \in ToSet(published')
                 PROVE  (\E q \in Pods : n \in Has(q)') \/ n \in ToSet(topic)
                          \/ \E r \in Reasons : n \in gone[r]
      BY <1>1, <1>5 DEF NoneMissing, InTopic, EndsOf
    <3>1. CASE n = m
      BY <3>1, <2>5
    <3>2. CASE n # m
      <4>1. (\E q \in Pods : n \in Has(q)) \/ n \in ToSet(topic)
              \/ \E r \in Reasons : n \in gone[r]
        BY <3>2, <1>2 DEF PlaceInv, NoneMissing, InTopic, EndsOf
      <4> QED
        BY <4>1, <2>5
    <3> QED
      BY <3>1, <3>2
  <2> QED
    BY <2>6, <2>7, <2>8, <2>9, <2>10 DEF PlaceInv
<1>6. CASE Drop("offline", {m}) /\ UNCHANGED inbox
  <2>1. \A r \in Reasons : gone'[r] = IF r = "offline" THEN gone[r] \cup {m} ELSE gone[r]
    BY <1>6 DEF Drop, TypeOK, Reasons
  <2>2. \A q \in Pods : Has(q)' = Has(q) /\ OnceIn(q)'
    BY <1>1, <1>6 DEF Has, Unread, PlaceInv, OnceInPod, OnceIn
  <2>3. OnceInPod' /\ OnePod'
    BY <2>2 DEF PlaceInv, OnceInPod, OnePod
  <2>4. OnlyPublished'
    BY <2>1, <2>2, <1>1, <1>2 DEF PlaceInv, OnlyPublished
  <2>5. EndedOnce'
    <3>1. ASSUME NEW r \in Reasons, NEW s \in Reasons, r # s PROVE gone'[r] \cap gone'[s] = {}
      <4>1. gone[r] \cap gone[s] = {}
        BY <3>1 DEF PlaceInv, EndedOnce
      <4>2. m \notin gone[r] /\ m \notin gone[s]
        BY <1>3
      <4>3. gone'[r] \subseteq gone[r] \cup {m} /\ gone'[s] \subseteq gone[s] \cup {m}
        BY <2>1
      <4>4. gone'[r] = gone[r] \/ gone'[s] = gone[s]
        BY <2>1, <3>1
      <4> QED
        BY <4>1, <4>2, <4>3, <4>4
    <3>2. \A r \in Reasons \ {"kafka_error", "shutdown"} : gone'[r] \cap ToSet(topic) = {}
      BY <2>1, <1>3 DEF PlaceInv, EndedOnce
    <3>3. \A q \in Pods : \A r \in Reasons : Has(q) \cap gone'[r] = {}
      BY <2>1, <1>3 DEF PlaceInv, EndedOnce
    <3> QED
      BY <3>1, <3>2, <3>3, <2>2, <1>1 DEF PlaceInv, EndedOnce
  <2>6. NoneMissing'
    <3> SUFFICES ASSUME NEW n \in ToSet(published')
                 PROVE  (\E q \in Pods : n \in Has(q)) \/ n \in ToSet(topic)
                          \/ \E r \in Reasons : n \in gone'[r]
      BY <2>2, <1>1 DEF NoneMissing, InTopic, EndsOf
    <3>1. CASE n = m
      BY <3>1, <2>1 DEF Reasons
    <3>2. CASE n # m
      BY <3>2, <2>1, <1>2 DEF PlaceInv, NoneMissing, InTopic, EndsOf
    <3> QED
      BY <3>1, <3>2
  <2> QED
    BY <2>3, <2>4, <2>5, <2>6 DEF PlaceInv
<1> QED
  BY <1>5, <1>6 DEF Publish

LEMMA PlaceInit == Init => PlaceInv
<1> SUFFICES ASSUME Init PROVE PlaceInv
  OBVIOUS
<1>1. ToSet(published) = {} /\ ToSet(topic) = {} /\ IsInjective(topic)
  BY EmptyHolds DEF Init
<1>2. \A p \in Pods : /\ Unread(p) = {} /\ ToSet(queue[p]) = {} /\ current[p] = NoMsg
                      /\ IsInjective(inbox[p]) /\ IsInjective(queue[p])
  BY EmptyHolds DEF Init, Unread
<1>3. \A p \in Pods : Has(p) = {}
  BY <1>2 DEF Has
<1>4. \A r \in Reasons : gone[r] = {}
  BY DEF Init
<1> QED
  BY <1>1, <1>2, <1>3, <1>4
     DEF PlaceInv, OnlyPublished, OnceInPod, OnceIn, OnePod, EndedOnce, NoneMissing

\* PlaceInv is inductive.
LEMMA PlaceStep == TypeOK /\ PlaceInv /\ [Next]_vars => PlaceInv'
<1> SUFFICES ASSUME TypeOK, PlaceInv, [Next]_vars PROVE PlaceInv'
  OBVIOUS
<1>1. CASE UNCHANGED vars
  BY <1>1, PlaceSame DEF vars, dispatchVars
<1>2. ASSUME NEW p \in Pods, Connect(p) PROVE PlaceInv'
  <2>1. PICK ps \in SUBSET Pods : Disconnect(ps)
    BY <1>2 DEF Connect
  <2> QED
    BY <1>2, <2>1, DisconnectPlace DEF Connect, dispatchVars
<1>3. ASSUME NEW p \in Pods, Subscribe(p) \/ Wake(p) PROVE PlaceInv'
  BY <1>3, PlaceSame DEF Subscribe, Wake, dispatchVars
<1>4. ASSUME NEW p \in Pods, LinkFails(p) PROVE PlaceInv'
  BY <1>4, DisconnectPlace DEF LinkFails, dispatchVars
<1>5. ASSUME NEW p \in Pods, CheckFailsOpen(p) PROVE PlaceInv'
  BY <1>5, PlaceSame DEF CheckFailsOpen, Admit
<1>6. ASSUME NEW d \in Devices, WindowEnds(d) PROVE PlaceInv'
  BY <1>6, PlaceSame DEF WindowEnds, dispatchVars
<1> QED
  BY <1>1, <1>2, <1>3, <1>4, <1>5, <1>6, ReceivePlace, TakePlace, CheckLimitPlace,
     ProducePlace, StopPlace, PublishPlace
     DEF Next, LoopStep, DispatcherStep

\* A message is in one pod, or none, and ends for one reason, or none.
LEMMA PlaceOne == TypeOK /\ PlaceInv => OnePlace
<1> SUFFICES ASSUME TypeOK, PlaceInv PROVE OnePlace
  OBVIOUS
<1>1. \A i, j \in 1..Len(topic) : topic[i] = topic[j] => i = j
  <2>1. DOMAIN topic = 1..Len(topic)
    BY LenProperties DEF TypeOK
  <2> QED
    BY <2>1 DEF PlaceInv, EndedOnce, IsInjective
<1>2. ASSUME NEW m \in ToSet(published)
      PROVE  /\ Cardinality(PodsWith(m)) + Cardinality(EndsOf(m)) =
                  (IF InTopic(m) /\ EndsOf(m) = {} THEN 0 ELSE 1)
             /\ InTopic(m) => EndsOf(m) \subseteq {"kafka_error", "shutdown"}
  <2>1. m # NoMsg
    BY IngestionAssumption DEF TypeOK, ToSet
  <2>2. PodsWith(m) = {p \in Pods : m \in Has(p)}
    BY <2>1 DEF PodsWith, Has
  <2>3. \A p, q \in PodsWith(m) : p = q
    BY <2>2 DEF PlaceInv, OnePod
  <2>4. \A r, s \in EndsOf(m) : r = s
    BY DEF EndsOf, PlaceInv, EndedOnce
  <2>5. PodsWith(m) = {} \/ (EndsOf(m) = {} /\ ~InTopic(m))
    BY <2>2 DEF EndsOf, InTopic, PlaceInv, EndedOnce
  <2>6. PodsWith(m) # {} \/ EndsOf(m) # {} \/ InTopic(m)
    BY <2>2 DEF PlaceInv, NoneMissing
  <2>7. InTopic(m) => EndsOf(m) \subseteq {"kafka_error", "shutdown"}
    BY DEF EndsOf, InTopic, PlaceInv, EndedOnce
  <2>8. PodsWith(m) = {} \/ \E p : PodsWith(m) = {p}
    BY <2>3
  <2>9. EndsOf(m) = {} \/ \E r : EndsOf(m) = {r}
    BY <2>4
  <2>10. /\ Cardinality(PodsWith(m)) = IF PodsWith(m) = {} THEN 0 ELSE 1
         /\ Cardinality(EndsOf(m)) = IF EndsOf(m) = {} THEN 0 ELSE 1
    BY <2>8, <2>9, FS_EmptySet, FS_Singleton
  <2> QED
    BY <2>5, <2>6, <2>7, <2>10
<1> QED
  BY <1>1, <1>2 DEF OnePlace

\* Every published message is in exactly one pod, or stored once, or ended for
\* exactly one reason, across reconnects, takeovers and restarts.
THEOREM OnePlaceAlways == Spec => []OnePlace
<1>1. Init => TypeOK /\ PlaceInv
  BY InitType, PlaceInit
<1>2. TypeOK /\ PlaceInv /\ [Next]_vars => (TypeOK /\ PlaceInv)'
  BY TypeStep, PlaceStep
<1>3. TypeOK /\ PlaceInv => OnePlace
  BY PlaceOne
<1> QED
  BY <1>1, <1>2, <1>3, PTL DEF Spec

-----------------------------------------------------------------------------
(***************************************************************************)
(* No device pays for another: LimitInv is inductive.                      *)
(***************************************************************************)

\* What is stored or has ended stays so.
LEMMA EndsGrow ==
  ASSUME TypeOK, [Next]_vars
  PROVE  /\ ToSet(topic) \subseteq ToSet(topic')
         /\ \A r \in Reasons : gone[r] \subseteq gone'[r]
<1>1. ASSUME NEW m \in Messages, Store(m) PROVE ToSet(topic) \subseteq ToSet(topic')
  BY <1>1, AppendHolds DEF Store, TypeOK
<1>2. ASSUME NEW q \in Reasons, NEW S, Drop(q, S)
      PROVE  \A r \in Reasons : gone[r] \subseteq gone'[r]
  BY <1>2 DEF Drop, TypeOK
<1>3. CASE UNCHANGED <<topic, gone>>
  BY <1>3
<1>4. ASSUME NEW p \in Pods, Connect(p) \/ LinkFails(p) PROVE UNCHANGED topic /\ \E S : Drop("link", S)
  BY <1>4 DEF Connect, LinkFails, Disconnect
<1>5. ASSUME NEW p \in Pods, Subscribe(p) \/ Wake(p) PROVE UNCHANGED <<topic, gone>>
  BY <1>5 DEF Subscribe, Wake
<1>6. ASSUME NEW p \in Pods, Receive(p)
      PROVE  UNCHANGED topic /\ (UNCHANGED gone \/ \E S : Drop("queue_full", S))
  BY <1>6 DEF Receive, Enqueue
<1>7. ASSUME NEW p \in Pods, Take(p)
      PROVE  UNCHANGED topic /\ (UNCHANGED gone \/ \E r \in Reasons : \E S : Drop(r, S))
  BY <1>7 DEF Take, Raise, Reasons
<1>8. ASSUME NEW p \in Pods, CheckLimit(p)
      PROVE  UNCHANGED topic /\ (UNCHANGED gone \/ \E S : Drop("rate_limited", S))
  BY <1>8 DEF CheckLimit, Admit
<1>9. ASSUME NEW p \in Pods, CheckFailsOpen(p) PROVE UNCHANGED <<topic, gone>>
  BY <1>9 DEF CheckFailsOpen, Admit
<1>10. ASSUME NEW p \in Pods, Produce(p)
       PROVE  UNCHANGED gone /\ Store(current[p]) /\ current[p] \in Messages
  BY <1>10, PodTypes DEF Produce
<1>11. ASSUME NEW p \in Pods, ProduceFails(p)
       PROVE  /\ \E S : Drop("kafka_error", S)
              /\ UNCHANGED topic \/ (Store(current[p]) /\ current[p] \in Messages)
  BY <1>11, PodTypes DEF ProduceFails
<1>12. ASSUME NEW p \in Pods, Stop(p)
       PROVE  /\ \E S : Drop("shutdown", S)
              /\ UNCHANGED topic \/ (Store(current[p]) /\ current[p] \in Messages)
  BY <1>12, PodTypes DEF Stop
<1>13. ASSUME NEW m \in Messages, Publish(m)
       PROVE  UNCHANGED topic /\ (UNCHANGED gone \/ \E S : Drop("offline", S))
  BY <1>13 DEF Publish
<1>14. ASSUME NEW d \in Devices, WindowEnds(d) PROVE UNCHANGED <<topic, gone>>
  BY <1>14 DEF WindowEnds
<1>15. CASE UNCHANGED vars
  BY <1>3, <1>15 DEF vars
<1>16. \A r \in {"link", "queue_full", "rate_limited", "kafka_error", "shutdown", "offline"} :
         r \in Reasons
  BY DEF Reasons
<1>17. UNCHANGED topic \/ \E m \in Messages : Store(m)
  BY <1>4, <1>5, <1>6, <1>7, <1>8, <1>9, <1>10, <1>11, <1>12, <1>13, <1>14, <1>15
     DEF Next, LoopStep, DispatcherStep, vars
<1>18. UNCHANGED gone \/ \E r \in Reasons : \E S : Drop(r, S)
  BY <1>4, <1>5, <1>6, <1>7, <1>8, <1>9, <1>10, <1>11, <1>12, <1>13, <1>14, <1>15, <1>16
     DEF Next, LoopStep, DispatcherStep, vars
<1> QED
  BY <1>1, <1>2, <1>17, <1>18

\* A message that got past the limiter stays past it.
LEMMA GotPastGrows ==
  ASSUME TypeOK, [Next]_vars, NEW m \in Messages, GotPast(m)
  PROVE  GotPast(m)'
<1>1. InTopic(m) => InTopic(m)'
  BY EndsGrow DEF InTopic
<1>2. m \in gone["kafka_error"] \cup gone["shutdown"] => m \in gone'["kafka_error"] \cup gone'["shutdown"]
  BY EndsGrow DEF Reasons
<1>3. \A p \in Pods : current[p] = m /\ stage[p] = "produce" /\ ~(current'[p] = m /\ stage'[p] = "produce")
        => InTopic(m)' \/ m \in gone'["kafka_error"] \cup gone'["shutdown"]
  <2> SUFFICES ASSUME NEW p \in Pods, current[p] = m, stage[p] = "produce",
                      ~(current'[p] = m /\ stage'[p] = "produce")
               PROVE  InTopic(m)' \/ m \in gone'["kafka_error"] \cup gone'["shutdown"]
    OBVIOUS
  <2>1. PICK q \in Pods : LoopStep(q) \/ DispatcherStep(q) \/ LinkFails(q) \/ Stop(q)
    BY DEF Next, vars, dispatchVars, Publish, WindowEnds
  <2>2. Take(q) \/ CheckLimit(q) \/ CheckFailsOpen(q) \/ Produce(q) \/ ProduceFails(q) \/ Stop(q)
    BY <2>1 DEF LoopStep, DispatcherStep, Connect, Subscribe, Wake, Receive, LinkFails, dispatchVars
  <2>3. q = p
    BY <2>2 DEF Take, CheckLimit, CheckFailsOpen, Produce, ProduceFails, Stop, Raise, Admit, Done, TypeOK
  <2>4. Produce(p) \/ ProduceFails(p) \/ Stop(p)
    BY <2>2, <2>3 DEF Take, CheckLimit, CheckFailsOpen
  <2>5. CASE Produce(p)
    BY <2>5, AppendHolds DEF Produce, Store, InTopic, TypeOK
  <2>6. CASE ProduceFails(p)
    BY <2>6 DEF ProduceFails, Drop, TypeOK, Reasons
  <2>7. CASE Stop(p)
    BY <2>7, IngestionAssumption DEF Stop, Drop, TypeOK, Reasons
  <2> QED
    BY <2>4, <2>5, <2>6, <2>7
<1> QED
  BY <1>1, <1>2, <1>3 DEF GotPast, EndsOf, Reasons

PastIsFinite ==
  \A d \in Devices : IsFiniteSet(PastLimiter(d)) /\ Cardinality(PastLimiter(d)) \in Nat

\* What got past the limiter is finite: it was published.
LEMMA PastFinite == TypeOK /\ PlaceInv => PastIsFinite
<1> SUFFICES ASSUME TypeOK, PlaceInv, NEW d \in Devices
             PROVE  IsFiniteSet(PastLimiter(d)) /\ Cardinality(PastLimiter(d)) \in Nat
  BY DEF PastIsFinite
<1>1. published \in Surjection(1..Len(published), ToSet(published)) /\ Len(published) \in Nat
  <2>1. published \in Seq(Messages)
    BY DEF TypeOK
  <2>2. published \in [1..Len(published) -> Messages] /\ Len(published) \in Nat
    BY <2>1, LenProperties
  <2>3. \A j \in 1..Len(published) : published[j] \in ToSet(published)
    BY <2>2 DEF ToSet
  <2>4. \A x \in ToSet(published) : \E j \in 1..Len(published) : published[j] = x
    BY <2>2 DEF ToSet
  <2>5. published \in [1..Len(published) -> ToSet(published)]
    BY <2>2, <2>3
  <2> QED
    BY <2>2, <2>4, <2>5 DEF Surjection
<1>2. IsFiniteSet(ToSet(published))
  BY <1>1, FS_Interval, FS_Surjection
<1>3. PastLimiter(d) \subseteq ToSet(published)
  <2> SUFFICES ASSUME NEW m \in Messages, GotPast(m) PROVE m \in ToSet(published)
    BY DEF PastLimiter
  <2>1. m # NoMsg
    BY IngestionAssumption
  <2> QED
    BY <2>1 DEF GotPast, InTopic, EndsOf, PlaceInv, OnlyPublished, Has
<1> QED
  BY <1>2, <1>3, FS_Subset, FS_CardinalityType

LEMMA PastGrows ==
  ASSUME TypeOK, PlaceInv, [Next]_vars, NEW d \in Devices
  PROVE  /\ PastLimiter(d) \subseteq PastLimiter(d)'
         /\ IsFiniteSet(PastLimiter(d)') /\ Cardinality(PastLimiter(d)') \in Nat
         /\ Cardinality(PastLimiter(d)) <= Cardinality(PastLimiter(d)')
<1>1. PastLimiter(d) \subseteq PastLimiter(d)'
  BY GotPastGrows DEF PastLimiter
<1>2. TypeOK' /\ PlaceInv'
  BY TypeStep, PlaceStep
<1>3. PastIsFinite'
  BY <1>2, PastFinite, PTL
<1> QED
  BY <1>1, <1>3, FS_Subset DEF PastIsFinite

\* The counter grows by a message that gets past the limiter, or is at it.
LEMMA CountStep ==
  ASSUME TypeOK, PlaceInv, [Next]_vars, NEW d \in Devices
  PROVE  \/ count'[d] <= count[d]
         \/ Limit <= count[d]
         \/ /\ count'[d] = count[d] + 1
            /\ \E m \in Messages : TopicDevice[m] = d /\ ~GotPast(m) /\ GotPast(m)'
<1> DEFINE New == \E m \in Messages : TopicDevice[m] = d /\ ~GotPast(m) /\ GotPast(m)'
<1>1. ASSUME NEW p \in Pods, NEW m \in Messages, m = current[p], CountCall(m),
             stage[p] = "limit", GotPast(m)'
      PROVE  count'[d] = count[d] \/ (count'[d] = count[d] + 1 /\ New)
  <2>1. m \in Has(p)
    BY <1>1, IngestionAssumption DEF Has
  <2>2. ~GotPast(m)
    <3>1. \A q \in Pods \ {p} : current[q] # m
      BY <2>1, IngestionAssumption DEF PlaceInv, OnePod, Has
    <3>2. ~InTopic(m) /\ EndsOf(m) = {}
      BY <2>1 DEF InTopic, EndsOf, PlaceInv, EndedOnce
    <3> QED
      BY <1>1, <3>1, <3>2 DEF GotPast
  <2>3. CASE d = TopicDevice[m]
    BY <1>1, <2>2, <2>3 DEF CountCall, LimiterKey, TypeOK
  <2>4. CASE d # TopicDevice[m]
    BY <1>1, <2>4 DEF CountCall, LimiterKey, TypeOK
  <2> QED
    BY <2>3, <2>4
<1>2. CASE UNCHANGED count
  BY <1>2 DEF TypeOK
<1>3. ASSUME NEW e \in Devices, WindowEnds(e) PROVE count'[d] <= count[d]
  BY <1>3 DEF WindowEnds, TypeOK
<1>4. ASSUME NEW p \in Pods, CheckLimit(p)
      PROVE  count'[d] = count[d] \/ (count'[d] = count[d] + 1 /\ New) \/ Limit <= count[d]
  <2>1. stage[p] = "limit" /\ CountCall(current[p]) /\ current[p] \in Messages
    BY <1>4, PodTypes DEF CheckLimit
  <2>2. CASE Admit(p)
    <3>1. PICK m \in Messages : m = current[p]
      BY <2>1
    <3>2. GotPast(m)'
      BY <2>1, <2>2, <3>1 DEF Admit, GotPast, TypeOK
    <3> QED
      BY <1>1, <2>1, <3>1, <3>2
  <2>3. CASE count[LimiterKey(current[p])] >= Limit
    BY <2>1, <2>3, IngestionAssumption DEF CountCall, LimiterKey, TypeOK
  <2> QED
    BY <1>4, <2>2, <2>3 DEF CheckLimit
<1>5. ASSUME NEW p \in Pods, CheckFailsOpen(p)
      PROVE  count'[d] = count[d] \/ (count'[d] = count[d] + 1 /\ New)
  <2>1. stage[p] = "limit" /\ Admit(p)
    BY <1>5 DEF CheckFailsOpen
  <2>2. PICK m \in Messages : m = current[p]
    BY <2>1, PodTypes
  <2>3. GotPast(m)'
    BY <2>1, <2>2 DEF Admit, GotPast, TypeOK
  <2> QED
    BY <1>1, <1>2, <1>5, <2>1, <2>2, <2>3 DEF CheckFailsOpen
<1>6. ASSUME NEW p \in Pods, Stop(p)
      PROVE  count'[d] = count[d] \/ (count'[d] = count[d] + 1 /\ New)
  <2>1. CASE UNCHANGED count
    BY <2>1
  <2>2. CASE stage[p] = "limit" /\ CountCall(current[p])
    <3>1. PICK m \in Messages : m = current[p] /\ m # NoMsg
      BY <2>2, PodTypes, IngestionAssumption
    <3>2. m \in gone'["shutdown"]
      BY <1>6, <3>1 DEF Stop, Drop, TypeOK, Reasons
    <3>3. GotPast(m)'
      BY <3>2 DEF GotPast, EndsOf, Reasons
    <3> QED
      BY <1>1, <2>2, <3>1, <3>3
  <2> QED
    BY <1>6, <2>1, <2>2 DEF Stop
<1>7. ASSUME NEW p \in Pods, LoopStep(p) \/ Take(p) \/ Produce(p) \/ ProduceFails(p) \/ LinkFails(p)
      PROVE  UNCHANGED count
  BY <1>7 DEF LoopStep, Connect, Subscribe, Wake, Receive, Take, Produce, ProduceFails, LinkFails
<1>8. ASSUME NEW m \in Messages, Publish(m) PROVE UNCHANGED count
  BY <1>8 DEF Publish
<1> HIDE DEF New
<1>9. /\ count[d] \in Nat /\ count'[d] \in Nat
  BY TypeStep DEF TypeOK
<1>10. count'[d] <= count[d] \/ (count'[d] = count[d] + 1 /\ New) \/ Limit <= count[d]
  BY <1>2, <1>3, <1>4, <1>5, <1>6, <1>7, <1>8, <1>9 DEF Next, DispatcherStep, vars
<1> QED
  BY <1>10 DEF New

\* LimitInv is inductive.
LEMMA LimitStep == TypeOK /\ PlaceInv /\ LimitInv /\ [Next]_vars => LimitInv'
<1> SUFFICES ASSUME TypeOK, PlaceInv, LimitInv, [Next]_vars PROVE LimitInv'
  OBVIOUS
<1> DEFINE Past(d) == Cardinality(PastLimiter(d))
           PastNow(d) == Cardinality(PastLimiter(d)')
<1>1. Limit \in Nat /\ \A d \in Devices : count[d] \in Nat /\ count'[d] \in Nat
  BY IngestionAssumption, TypeStep DEF TypeOK
<1>2. \A d \in Devices : Past(d) \in Nat /\ PastNow(d) \in Nat /\ Past(d) <= PastNow(d)
  BY PastGrows, PastFinite DEF PastIsFinite
<1>3. ASSUME NEW d \in Devices,
             NEW m \in Messages, TopicDevice[m] = d, ~GotPast(m), GotPast(m)'
      PROVE  Past(d) + 1 <= PastNow(d)
  <2>1. IsFiniteSet(PastLimiter(d)) /\ IsFiniteSet(PastLimiter(d)')
    BY PastGrows, PastFinite DEF PastIsFinite
  <2>2. m \notin PastLimiter(d) /\ PastLimiter(d) \cup {m} \subseteq PastLimiter(d)'
    BY <1>3, PastGrows DEF PastLimiter
  <2>3. Cardinality(PastLimiter(d) \cup {m}) = Past(d) + 1
    BY <2>1, <2>2, FS_AddElement
  <2> QED
    BY <2>1, <2>2, <2>3, FS_Subset
<1>4. ASSUME NEW d \in Devices PROVE count'[d] <= PastNow(d) \/ Limit <= PastNow(d)
  <2> HIDE DEF Past, PastNow
  <2>1. count[d] <= Past(d) \/ Limit <= Past(d)
    BY DEF LimitInv, Past
  <2>2. \/ count'[d] <= count[d]
        \/ Limit <= count[d]
        \/ count'[d] = count[d] + 1 /\ Past(d) + 1 <= PastNow(d)
    BY CountStep, <1>3
  <2> QED
    BY <1>1, <1>2, <2>1, <2>2
<1>5. LimitedAfterLimit'
  <2> SUFFICES ASSUME NEW m \in gone'["rate_limited"]
               PROVE  Limit <= PastNow(TopicDevice[m])
    BY <1>1, <1>2, TypeStep, IngestionAssumption DEF LimitedAfterLimit, TypeOK, Reasons
  <2>1. m \in Messages /\ TopicDevice[m] \in Devices
    BY TypeStep, IngestionAssumption DEF TypeOK, Reasons
  <2>2. CASE m \in gone["rate_limited"]
    BY <2>1, <2>2, <1>1, <1>2 DEF LimitInv, LimitedAfterLimit
  <2>3. CASE m \notin gone["rate_limited"]
    <3>1. PICK p \in Pods : CheckLimit(p)
      <4>1. ASSUME NEW p \in Pods, LoopStep(p) PROVE m \in gone["rate_limited"]
        BY <4>1 DEF LoopStep, Connect, Subscribe, Wake, Receive, Enqueue, Disconnect, Drop, TypeOK,
           Reasons
      <4>2. ASSUME NEW p \in Pods, DispatcherStep(p), ~CheckLimit(p) PROVE m \in gone["rate_limited"]
        BY <4>2 DEF DispatcherStep, Take, Raise, CheckFailsOpen, Admit, Produce, ProduceFails, Drop,
           TypeOK, Reasons
      <4>3. ASSUME NEW p \in Pods, LinkFails(p) \/ Stop(p) PROVE m \in gone["rate_limited"]
        BY <4>3 DEF LinkFails, Stop, Disconnect, Drop, TypeOK, Reasons
      <4>4. ASSUME NEW n \in Messages, Publish(n) PROVE m \in gone["rate_limited"]
        BY <4>4 DEF Publish, Drop, TypeOK, Reasons
      <4>5. ASSUME \E d \in Devices : WindowEnds(d) PROVE m \in gone["rate_limited"]
        BY <4>5 DEF WindowEnds
      <4>6. ASSUME UNCHANGED vars PROVE m \in gone["rate_limited"]
        BY <4>6 DEF vars
      <4> QED
        BY <2>3, <4>1, <4>2, <4>3, <4>4, <4>5, <4>6 DEF Next
    <3>2. /\ count[TopicDevice[m]] >= Limit
      BY <3>1, <2>3 DEF CheckLimit, Admit, Drop, TypeOK, Reasons, LimiterKey
    <3>3. Limit <= Past(TopicDevice[m])
      BY <3>2, <2>1, <1>1, <1>2 DEF LimitInv
    <3> QED
      BY <3>3, <2>1, <1>1, <1>2
  <2> QED
    BY <2>2, <2>3
<1> QED
  BY <1>4, <1>5 DEF LimitInv

\* An event is rate limited only after Limit other events of its topic got
\* through the limiter: the counters of the devices are apart.
THEOREM LimitedAfterLimitAlways == Spec => []LimitedAfterLimit
<1>1. Init => TypeOK /\ PlaceInv /\ LimitInv
  <2>1. ASSUME Init PROVE LimitInv
    <3>1. TypeOK /\ PlaceInv
      BY <2>1, InitType, PlaceInit
    <3>2. gone["rate_limited"] = {} /\ \A d \in Devices : count[d] = 0
      BY <2>1 DEF Init, Reasons
    <3>3. \A d \in Devices : 0 <= Cardinality(PastLimiter(d))
      BY <3>1, PastFinite DEF PastIsFinite
    <3> QED
      BY <3>2, <3>3 DEF LimitInv, LimitedAfterLimit
  <2> QED
    BY <2>1, InitType, PlaceInit
<1>2. TypeOK /\ PlaceInv /\ LimitInv /\ [Next]_vars => (TypeOK /\ PlaceInv /\ LimitInv)'
  BY TypeStep, PlaceStep, LimitStep
<1>3. LimitInv => LimitedAfterLimit
  BY DEF LimitInv
<1> QED
  BY <1>1, <1>2, <1>3, PTL DEF Spec

-----------------------------------------------------------------------------
(***************************************************************************)
(* A pod is a line of Relay: the message in the handlers, the queue and    *)
(* the inbox, one after the other.                                         *)
(***************************************************************************)

Row(c, q, i) == (IF c = NoMsg THEN <<>> ELSE <<c>>) \o q \o i
InHandlers(c) == IF c = NoMsg THEN 0 ELSE 1

LEMMA RowFacts ==
  ASSUME NEW c \in Messages \cup {NoMsg}, NEW q \in Seq(Messages), NEW i \in Seq(Messages)
  PROVE  /\ Row(c, q, i) \in Seq(Messages)
         /\ Len(q) \in Nat /\ Len(i) \in Nat
         /\ Len(Row(c, q, i)) = InHandlers(c) + Len(q) + Len(i)
         /\ \A k \in 1..(InHandlers(c) + Len(q) + Len(i)) :
              Row(c, q, i)[k] = IF k <= InHandlers(c) THEN c
                                ELSE IF k <= InHandlers(c) + Len(q) THEN q[k - InHandlers(c)]
                                ELSE i[k - InHandlers(c) - Len(q)]
<1> DEFINE h == IF c = NoMsg THEN <<>> ELSE <<c>>
           hq == h \o q
<1>1. h \in Seq(Messages) /\ Len(h) = InHandlers(c) /\ \A k \in 1..Len(h) : h[k] = c
  <2>1. CASE c = NoMsg
    BY <2>1, EmptySeq DEF InHandlers
  <2>2. CASE c # NoMsg
    BY <2>2 DEF InHandlers
  <2> QED
    BY <2>1, <2>2
<1>2. Len(q) \in Nat /\ Len(i) \in Nat /\ InHandlers(c) \in Nat
  BY LenProperties DEF InHandlers
<1> HIDE DEF h
<1>3. /\ hq \in Seq(Messages) /\ Len(hq) = Len(h) + Len(q)
      /\ \A k \in 1..(Len(h) + Len(q)) : hq[k] = IF k <= Len(h) THEN h[k] ELSE q[k - Len(h)]
  BY <1>1, ConcatProperties
<1> HIDE DEF hq
<1> DEFINE r == hq \o i
<1>8. hq \in Seq(Messages)
  BY <1>3
<1>4. /\ r \in Seq(Messages) /\ Len(r) = Len(hq) + Len(i)
      /\ \A k \in 1..(Len(hq) + Len(i)) : r[k] = IF k <= Len(hq) THEN hq[k] ELSE i[k - Len(hq)]
  BY <1>8, ConcatProperties
<1>5. Row(c, q, i) = r
  BY DEF Row, r, hq, h
<1> HIDE DEF r
<1>6. ASSUME NEW k \in 1..(InHandlers(c) + Len(q) + Len(i))
      PROVE  r[k] = IF k <= InHandlers(c) THEN c
                    ELSE IF k <= InHandlers(c) + Len(q) THEN q[k - InHandlers(c)]
                    ELSE i[k - InHandlers(c) - Len(q)]
  <2>1. CASE k <= InHandlers(c)
    <3>1. k \in 1..(Len(h) + Len(q)) /\ k \in 1..Len(h) /\ k <= Len(hq) /\ k \in 1..(Len(hq) + Len(i))
      BY <2>1, <1>1, <1>2, <1>3
    <3>2. r[k] = hq[k] /\ hq[k] = h[k] /\ h[k] = c
      BY <3>1, <1>1, <1>3, <1>4
    <3> QED
      BY <2>1, <3>2
  <2>2. CASE InHandlers(c) < k /\ k <= InHandlers(c) + Len(q)
    <3>1. k \in 1..(Len(h) + Len(q)) /\ ~(k <= Len(h)) /\ k <= Len(hq) /\ k \in 1..(Len(hq) + Len(i))
      BY <2>2, <1>1, <1>2, <1>3
    <3>2. r[k] = hq[k] /\ hq[k] = q[k - Len(h)]
      BY <3>1, <1>3, <1>4
    <3> QED
      BY <2>2, <3>2, <1>1, <1>2
  <2>3. CASE InHandlers(c) + Len(q) < k
    <3>1. ~(k <= Len(hq)) /\ k \in 1..(Len(hq) + Len(i))
      BY <2>3, <1>1, <1>2, <1>3
    <3>2. r[k] = i[k - Len(hq)]
      BY <3>1, <1>4
    <3>3. k - Len(hq) = k - InHandlers(c) - Len(q)
      BY <1>1, <1>2, <1>3
    <3> QED
      BY <2>3, <3>2, <3>3, <1>2
  <2> QED
    BY <2>1, <2>2, <2>3, <1>2
<1>7. Len(r) = InHandlers(c) + Len(q) + Len(i)
  BY <1>1, <1>2, <1>3, <1>4
<1> QED
  BY <1>2, <1>4, <1>5, <1>6, <1>7

\* A message before a sequence is its head.
LEMMA HeadTailCons ==
  ASSUME NEW m \in Messages, NEW s \in Seq(Messages)
  PROVE  <<m>> \o s # <<>> /\ Head(<<m>> \o s) = m /\ Tail(<<m>> \o s) = s
<1> DEFINE r == <<m>> \o s
<1>1. <<m>> \in Seq(Messages) /\ Len(<<m>>) = 1 /\ <<m>>[1] = m
  OBVIOUS
<1>2. /\ r \in Seq(Messages) /\ Len(r) = 1 + Len(s) /\ Len(s) \in Nat
      /\ \A k \in 1..(1 + Len(s)) : r[k] = IF k <= 1 THEN <<m>>[k] ELSE s[k - 1]
  BY <1>1, ConcatProperties, LenProperties
<1> HIDE DEF r
<1>3. r # <<>> /\ Head(r) = m
  BY <1>1, <1>2
<1>4. /\ Tail(r) \in Seq(Messages) /\ Len(Tail(r)) = Len(s)
      /\ \A k \in 1..Len(Tail(r)) : Tail(r)[k] = r[k + 1]
  BY <1>2, <1>3, HeadTailProperties
<1>5. ASSUME NEW k \in 1..Len(s) PROVE Tail(r)[k] = s[k]
  <2>1. k + 1 \in 1..(1 + Len(s)) /\ ~(k + 1 <= 1) /\ k + 1 - 1 = k
    BY <1>2
  <2> QED
    BY <2>1, <1>2, <1>4
<1>6. Tail(r) = s
  BY <1>4, <1>5, SeqEqual
<1> QED
  BY <1>3, <1>6 DEF r

\* A message that ends in the handlers, or leaves them, was the first.
LEMMA RowHandled ==
  ASSUME NEW c \in Messages, NEW q \in Seq(Messages), NEW i \in Seq(Messages)
  PROVE  /\ Row(c, q, i) # <<>>
         /\ Head(Row(c, q, i)) = c
         /\ Tail(Row(c, q, i)) = Row(NoMsg, q, i)
<1>1. <<c>> \in Seq(Messages) /\ q \o i \in Seq(Messages) /\ c # NoMsg
  BY ConcatProperties, IngestionAssumption
<1>2. (<<c>> \o q) \o i = <<c>> \o (q \o i)
  BY <1>1, ConcatAssociative
<1>3. <<>> \o q = q
  BY ConcatEmptySeq
<1>4. Row(NoMsg, q, i) = q \o i /\ Row(c, q, i) = <<c>> \o (q \o i)
  BY <1>1, <1>2, <1>3 DEF Row
<1> QED
  BY <1>1, <1>4, HeadTailCons

\* A message moves from the queue to the handlers, or from the inbox to the queue.
LEMMA RowMoves ==
  ASSUME NEW q \in Seq(Messages), NEW i \in Seq(Messages)
  PROVE  /\ q # <<>> => Row(NoMsg, q, i) = Row(Head(q), Tail(q), i)
         /\ \A c \in Messages \cup {NoMsg} :
              i # <<>> => Row(c, q, i) = Row(c, Append(q, Head(i)), Tail(i))
<1>1. ASSUME q # <<>> PROVE Row(NoMsg, q, i) = Row(Head(q), Tail(q), i)
  <2> DEFINE t == Tail(q)
  <2>1. /\ Head(q) \in Messages /\ Head(q) = q[1] /\ t \in Seq(Messages) /\ Len(t) = Len(q) - 1
        /\ \A k \in 1..Len(t) : t[k] = q[k + 1]
    BY <1>1, HeadTailProperties
  <2>2. InHandlers(Head(q)) = 1 /\ InHandlers(NoMsg) = 0
    BY <2>1, IngestionAssumption DEF InHandlers
  <2> HIDE DEF t
  <2>3. <<Head(q)>> \o t = q
    BY <1>1, <2>1
  <2>4. <<>> \o q = q
    BY ConcatEmptySeq
  <2>5. Head(q) # NoMsg
    BY <2>1, IngestionAssumption
  <2> QED
    BY <2>3, <2>4, <2>5 DEF Row, t
<1>2. ASSUME NEW c \in Messages \cup {NoMsg}, i # <<>>
      PROVE  Row(c, q, i) = Row(c, Append(q, Head(i)), Tail(i))
  <2> DEFINE h == IF c = NoMsg THEN <<>> ELSE <<c>>
  <2>1. h \in Seq(Messages)
    <3>1. CASE c = NoMsg
      BY <3>1, EmptySeq
    <3>2. CASE c # NoMsg
      BY <3>2
    <3> QED
      BY <3>1, <3>2
  <2>2. Head(i) \in Messages /\ Tail(i) \in Seq(Messages)
    BY <1>2, HeadTailProperties
  <2>3. <<Head(i)>> \o Tail(i) = i
    BY <1>2, <2>2
  <2>4. Append(q, Head(i)) = q \o <<Head(i)>>
    BY <2>2, AppendIsConcat
  <2> HIDE DEF h
  <2>5. <<Head(i)>> \in Seq(Messages)
    BY <2>2
  <2>6. h \o (q \o <<Head(i)>>) = (h \o q) \o <<Head(i)>>
    BY <2>1, <2>5, ConcatAssociative
  <2>7. h \o q \in Seq(Messages)
    BY <2>1, ConcatProperties
  <2>8. ((h \o q) \o <<Head(i)>>) \o Tail(i) = (h \o q) \o (<<Head(i)>> \o Tail(i))
    BY <2>2, <2>5, <2>7, ConcatAssociative
  <2>9. Row(c, q, i) = (h \o q) \o i
    BY DEF Row, h
  <2>10. Row(c, Append(q, Head(i)), Tail(i)) = (h \o (q \o <<Head(i)>>)) \o Tail(i)
    BY <2>4 DEF Row, h
  <2> QED
    BY <2>3, <2>6, <2>8, <2>9, <2>10
<1> QED
  BY <1>1, <1>2

\* What is cut out of a sequence leaves a sequence.
LEMMA WithoutFacts ==
  ASSUME NEW s \in Seq(Messages), NEW i \in 1..Len(s), NEW j \in i..Len(s)
  PROVE  /\ Line!Without(s, i, j) \in Seq(Messages)
         /\ Len(Line!Without(s, i, j)) = Len(s) - (j + 1 - i)
         /\ \A k \in 1..(Len(s) - (j + 1 - i)) :
              /\ Line!Without(s, i, j)[k] = IF k < i THEN s[k] ELSE s[k + (j + 1 - i)]
              /\ k \in 1..Len(s) /\ k + (j + 1 - i) \in 1..Len(s)
<1> DEFINE n == j + 1 - i
           w == [k \in 1..(Len(s) - n) |-> IF k < i THEN s[k] ELSE s[k + n]]
<1>1. Line!Without(s, i, j) = w
  BY DEF Line!Without
<1>2. Len(s) \in Nat /\ n \in 1..Len(s) /\ Len(s) - n \in Nat
  BY LenProperties
<1> HIDE DEF n
<1>3. \A k \in 1..(Len(s) - n) : k \in 1..Len(s) /\ k + n \in 1..Len(s)
  BY <1>2
<1>4. \A k \in 1..Len(s) : s[k] \in Messages
  BY ElementOfSeq
<1>5. w \in [1..(Len(s) - n) -> Messages]
  BY <1>3, <1>4
<1>6. w \in Seq(Messages)
  BY <1>2, <1>5, IsASeq
<1>7. DOMAIN w = 1..(Len(s) - n) /\ \A k \in 1..(Len(s) - n) : w[k] = IF k < i THEN s[k] ELSE s[k + n]
  OBVIOUS
<1> HIDE DEF w
<1>8. Len(w) = Len(s) - n
  BY <1>2, <1>6, <1>7, LenProperties
<1> QED
  BY <1>1, <1>3, <1>6, <1>7, <1>8 DEF n

\* The head of a line is lost.
LEMMA HeadLost ==
  ASSUME NEW s \in Seq(Messages), s # <<>>
  PROVE  /\ 1 \in 1..Len(s)
         /\ Line!Without(s, 1, 1) = Tail(s)
         /\ {s[k] : k \in 1..1} = {Head(s)}
<1> DEFINE w == Line!Without(s, 1, 1)
<1>1. Len(s) \in Nat /\ 1 \in 1..Len(s) /\ Head(s) = s[1]
  BY EmptySeq, LenProperties
<1>2. /\ Tail(s) \in Seq(Messages) /\ Len(Tail(s)) = Len(s) - 1
      /\ \A k \in 1..Len(Tail(s)) : Tail(s)[k] = s[k + 1]
  BY HeadTailProperties
<1>3. 1 \in 1..Len(s) /\ 1 + 1 - 1 = 1
  BY <1>1
<1>4. /\ w \in Seq(Messages) /\ Len(w) = Len(s) - 1
      /\ \A k \in 1..(Len(s) - 1) : w[k] = IF k < 1 THEN s[k] ELSE s[k + 1]
  BY <1>3, WithoutFacts
<1> HIDE DEF w
<1>5. \A k \in 1..(Len(s) - 1) : w[k] = Tail(s)[k]
  BY <1>1, <1>2, <1>4
<1>6. w = Tail(s)
  BY <1>1, <1>2, <1>4, <1>5, SeqEqual
<1>7. {s[k] : k \in 1..1} = {s[1]}
  OBVIOUS
<1> QED
  BY <1>1, <1>6, <1>7 DEF w

\* The head of the inbox is lost.
LEMMA InboxHeadLost ==
  ASSUME NEW c \in Messages \cup {NoMsg}, NEW q \in Seq(Messages),
         NEW i \in Seq(Messages), i # <<>>
  PROVE  \E n \in 1..Len(Row(c, q, i)) :
           /\ Row(c, q, Tail(i)) = Line!Without(Row(c, q, i), n, n)
           /\ {Row(c, q, i)[k] : k \in n..n} = {Head(i)}
<1> DEFINE r == Row(c, q, i)
           t == Row(c, q, Tail(i))
           h == InHandlers(c)
           n == h + Len(q) + 1
           w == Line!Without(r, n, n)
<1>1. /\ Tail(i) \in Seq(Messages) /\ Len(Tail(i)) = Len(i) - 1
      /\ \A k \in 1..Len(Tail(i)) : Tail(i)[k] = i[k + 1]
      /\ Head(i) = i[1]
  BY HeadTailProperties
<1>2. h \in Nat /\ Len(q) \in Nat /\ Len(i) \in Nat \ {0}
  BY LenProperties, EmptySeq DEF InHandlers
<1>3. /\ r \in Seq(Messages) /\ Len(r) = h + Len(q) + Len(i)
      /\ \A k \in 1..(h + Len(q) + Len(i)) :
           r[k] = IF k <= h THEN c ELSE IF k <= h + Len(q) THEN q[k - h] ELSE i[k - h - Len(q)]
  BY RowFacts
<1>4. /\ t \in Seq(Messages) /\ Len(t) = h + Len(q) + Len(Tail(i))
      /\ \A k \in 1..(h + Len(q) + Len(Tail(i))) :
           t[k] = IF k <= h THEN c ELSE IF k <= h + Len(q) THEN q[k - h] ELSE Tail(i)[k - h - Len(q)]
  BY <1>1, RowFacts
<1> HIDE DEF r, t, h
<1>5. n \in 1..Len(r) /\ n \in n..Len(r) /\ n + 1 - n = 1
  BY <1>2, <1>3
<1>6. /\ w \in Seq(Messages) /\ Len(w) = Len(r) - 1
      /\ \A k \in 1..(Len(r) - 1) : w[k] = IF k < n THEN r[k] ELSE r[k + 1]
  <2> HIDE DEF n
  <2>1. /\ w \in Seq(Messages) /\ Len(w) = Len(r) - (n + 1 - n)
        /\ \A k \in 1..(Len(r) - (n + 1 - n)) : w[k] = IF k < n THEN r[k] ELSE r[k + (n + 1 - n)]
    BY <1>3, <1>5, WithoutFacts
  <2> QED
    BY <1>5, <2>1
<1> HIDE DEF w
<1>7. ASSUME NEW k \in 1..Len(t) PROVE t[k] = w[k]
  <2>1. Len(t) = Len(r) - 1 /\ k \in 1..(Len(r) - 1) /\ k \in 1..(h + Len(q) + Len(i))
        /\ k + 1 \in 1..(h + Len(q) + Len(i)) /\ k \in 1..(h + Len(q) + Len(Tail(i)))
    BY <1>1, <1>2, <1>3, <1>4
  <2>2. CASE k < n
    <3>1. w[k] = r[k]
      BY <2>1, <2>2, <1>6
    <3>2. k <= h \/ (~(k <= h) /\ k <= h + Len(q))
      BY <2>2, <1>2
    <3> QED
      BY <2>1, <3>1, <3>2, <1>3, <1>4
  <2>3. CASE ~(k < n)
    <3>1. w[k] = r[k + 1]
      BY <2>1, <2>3, <1>6
    <3>2. ~(k <= h) /\ ~(k <= h + Len(q)) /\ ~(k + 1 <= h) /\ ~(k + 1 <= h + Len(q))
      BY <2>3, <1>2
    <3>3. r[k + 1] = i[k + 1 - h - Len(q)]
      BY <2>1, <3>2, <1>2, <1>3
    <3>4. t[k] = Tail(i)[k - h - Len(q)]
      BY <2>1, <3>2, <1>2, <1>4
    <3>5. k - h - Len(q) \in 1..Len(Tail(i)) /\ k - h - Len(q) + 1 = k + 1 - h - Len(q)
      BY <2>1, <3>2, <1>1, <1>2
    <3> QED
      BY <3>1, <3>3, <3>4, <3>5, <1>1
  <2> QED
    BY <2>2, <2>3
<1>8. t = w
  <2>1. Len(t) = Len(w)
    BY <1>1, <1>2, <1>3, <1>4, <1>6
  <2> QED
    BY <2>1, <1>4, <1>6, <1>7, SeqEqual
<1>9. r[n] = Head(i)
  <2>1. n \in 1..(h + Len(q) + Len(i)) /\ ~(n <= h) /\ ~(n <= h + Len(q)) /\ n - h - Len(q) = 1
    BY <1>2
  <2> QED
    BY <2>1, <1>1, <1>3
<1>10. {r[k] : k \in n..n} = {r[n]}
  BY <1>5
<1> QED
  BY <1>5, <1>8, <1>9, <1>10 DEF r, t, w

\* The inbox is lost.
LEMMA InboxLost ==
  ASSUME NEW c \in Messages \cup {NoMsg}, NEW q \in Seq(Messages),
         NEW i \in Seq(Messages), i # <<>>
  PROVE  \E n \in 1..Len(Row(c, q, i)) :
           /\ Len(Row(c, q, i)) \in n..Len(Row(c, q, i))
           /\ Row(c, q, <<>>) = Line!Without(Row(c, q, i), n, Len(Row(c, q, i)))
           /\ {Row(c, q, i)[k] : k \in n..Len(Row(c, q, i))} = ToSet(i)
<1> DEFINE r == Row(c, q, i)
           none == <<>>
           t == Row(c, q, none)
           h == InHandlers(c)
           n == h + Len(q) + 1
           w == Line!Without(r, n, Len(r))
<1>1. none \in Seq(Messages) /\ Len(none) = 0
  BY EmptySeq
<1> HIDE DEF none
<1>2. h \in Nat /\ Len(q) \in Nat /\ Len(i) \in Nat \ {0} /\ DOMAIN i = 1..Len(i)
  BY LenProperties, EmptySeq DEF InHandlers
<1>3. /\ r \in Seq(Messages) /\ Len(r) = h + Len(q) + Len(i)
      /\ \A k \in 1..(h + Len(q) + Len(i)) :
           r[k] = IF k <= h THEN c ELSE IF k <= h + Len(q) THEN q[k - h] ELSE i[k - h - Len(q)]
  BY RowFacts
<1>4. /\ t \in Seq(Messages) /\ Len(t) = h + Len(q) + Len(none)
      /\ \A k \in 1..(h + Len(q) + Len(none)) :
           t[k] = IF k <= h THEN c ELSE IF k <= h + Len(q) THEN q[k - h] ELSE none[k - h - Len(q)]
  BY <1>1, RowFacts
<1> HIDE DEF r, t, h
<1>5. n \in 1..Len(r) /\ Len(r) \in n..Len(r) /\ Len(r) - (Len(r) + 1 - n) = n - 1
  BY <1>2, <1>3
<1>6. /\ w \in Seq(Messages) /\ Len(w) = n - 1
      /\ \A k \in 1..(n - 1) : w[k] = IF k < n THEN r[k] ELSE r[k + (Len(r) + 1 - n)]
  <2>1. PICK x \in 1..Len(r) : x = n
    BY <1>5
  <2>2. PICK y \in x..Len(r) : y = Len(r)
    BY <1>5, <2>1
  <2>3. /\ Line!Without(r, x, y) \in Seq(Messages)
        /\ Len(Line!Without(r, x, y)) = Len(r) - (y + 1 - x)
        /\ \A k \in 1..(Len(r) - (y + 1 - x)) :
             Line!Without(r, x, y)[k] = IF k < x THEN r[k] ELSE r[k + (y + 1 - x)]
    BY <1>3, WithoutFacts
  <2> QED
    BY <1>5, <2>1, <2>2, <2>3
<1> HIDE DEF w
<1>7. ASSUME NEW k \in 1..Len(t) PROVE t[k] = w[k]
  <2>1. k \in 1..(n - 1) /\ k < n /\ k \in 1..(h + Len(q) + Len(i)) /\ k \in 1..(h + Len(q) + Len(none))
        /\ k <= h + Len(q)
    BY <1>1, <1>2, <1>4
  <2>2. w[k] = r[k]
    BY <2>1, <1>6
  <2> QED
    BY <2>1, <2>2, <1>3, <1>4
<1>8. t = w
  <2>1. Len(t) = Len(w)
    BY <1>1, <1>2, <1>4, <1>6
  <2> QED
    BY <2>1, <1>4, <1>6, <1>7, SeqEqual
<1>9. \A k \in n..Len(r) : k - h - Len(q) \in 1..Len(i) /\ r[k] = i[k - h - Len(q)]
  <2> TAKE k \in n..Len(r)
  <2>1. k \in 1..(h + Len(q) + Len(i)) /\ ~(k <= h) /\ ~(k <= h + Len(q)) /\ k - h - Len(q) \in 1..Len(i)
    BY <1>2, <1>3
  <2> QED
    BY <2>1, <1>3
<1>10. \A k \in 1..Len(i) : \E l \in n..Len(r) : r[l] = i[k]
  <2> TAKE k \in 1..Len(i)
  <2>1. PICK l \in n..Len(r) : l - h - Len(q) = k
    <3>1. h + Len(q) + k \in n..Len(r) /\ (h + Len(q) + k) - h - Len(q) = k
      BY <1>2, <1>3
    <3> QED
      BY <3>1
  <2> QED
    BY <2>1, <1>9
<1>11. {r[k] : k \in n..Len(r)} = ToSet(i)
  BY <1>2, <1>9, <1>10 DEF ToSet
<1> QED
  BY <1>5, <1>8, <1>11 DEF r, t, w, none

\* A message joins the inbox.
LEMMA RowAppend ==
  ASSUME NEW c \in Messages \cup {NoMsg}, NEW q \in Seq(Messages),
         NEW i \in Seq(Messages), NEW m \in Messages
  PROVE  Row(c, q, Append(i, m)) = Append(Row(c, q, i), m)
<1> DEFINE hq == (IF c = NoMsg THEN <<>> ELSE <<c>>) \o q
<1>1. hq \in Seq(Messages)
  <2>1. CASE c = NoMsg
    BY <2>1, ConcatEmptySeq
  <2>2. CASE c # NoMsg
    <3>1. <<c>> \in Seq(Messages)
      BY <2>2
    <3>2. <<c>> \o q \in Seq(Messages)
      BY <3>1, ConcatProperties
    <3> QED
      BY <2>2, <3>2
  <2> QED
    BY <2>1, <2>2
<1>2. Row(c, q, i) = hq \o i /\ Row(c, q, Append(i, m)) = hq \o Append(i, m)
  BY DEF Row
<1> HIDE DEF hq
<1>3. <<m>> \in Seq(Messages) /\ Append(i, m) = i \o <<m>>
  BY AppendIsConcat
<1>4. hq \o i \in Seq(Messages)
  BY <1>1, ConcatProperties
<1>5. Append(hq \o i, m) = (hq \o i) \o <<m>>
  BY <1>4, AppendIsConcat
<1>6. (hq \o i) \o <<m>> = hq \o (i \o <<m>>)
  BY <1>1, <1>3, ConcatAssociative
<1> QED
  BY <1>2, <1>3, <1>5, <1>6

\* What a line holds is what its pod has.
LEMMA RowHolds ==
  ASSUME NEW c \in Messages \cup {NoMsg}, NEW q \in Seq(Messages), NEW i \in Seq(Messages)
  PROVE  ToSet(Row(c, q, i)) = ToSet(i) \cup ToSet(q) \cup ({c} \ {NoMsg})
<1> DEFINE r == Row(c, q, i)
           h == InHandlers(c)
<1>1. /\ r \in Seq(Messages) /\ Len(r) = h + Len(q) + Len(i)
      /\ \A k \in 1..(h + Len(q) + Len(i)) :
           r[k] = IF k <= h THEN c ELSE IF k <= h + Len(q) THEN q[k - h] ELSE i[k - h - Len(q)]
  BY RowFacts
<1>2. h = IF c = NoMsg THEN 0 ELSE 1
  BY DEF InHandlers
<1>3. Len(q) \in Nat /\ Len(i) \in Nat /\ DOMAIN q = 1..Len(q) /\ DOMAIN i = 1..Len(i)
  BY LenProperties
<1> HIDE DEF r, h
<1>4. DOMAIN r = 1..(h + Len(q) + Len(i)) /\ h \in Nat
  BY <1>1, <1>2, LenProperties
<1>5. ASSUME NEW x \in ToSet(r) PROVE x \in ToSet(i) \cup ToSet(q) \cup ({c} \ {NoMsg})
  <2>1. PICK k \in 1..(h + Len(q) + Len(i)) : x = r[k]
    BY <1>4, <1>5 DEF ToSet
  <2>2. CASE k <= h
    <3>1. x = c
      BY <2>1, <2>2, <1>1
    <3>2. c # NoMsg
      BY <2>2, <1>2, <1>4
    <3> QED
      BY <3>1, <3>2
  <2>3. CASE ~(k <= h) /\ k <= h + Len(q)
    <3>1. x = q[k - h]
      BY <2>1, <2>3, <1>1, <1>4
    <3>2. k - h \in 1..Len(q)
      BY <2>3, <1>3, <1>4
    <3> QED
      BY <3>1, <3>2, <1>3 DEF ToSet
  <2>4. CASE ~(k <= h) /\ ~(k <= h + Len(q))
    <3>1. x = i[k - h - Len(q)]
      BY <2>1, <2>4, <1>1, <1>3, <1>4
    <3>2. k - h - Len(q) \in 1..Len(i)
      BY <2>4, <1>3, <1>4
    <3> QED
      BY <3>1, <3>2, <1>3 DEF ToSet
  <2> QED
    BY <2>2, <2>3, <2>4
<1>6. ASSUME NEW x \in ToSet(i) PROVE x \in ToSet(r)
  <2>1. PICK k \in 1..Len(i) : x = i[k]
    BY <1>3, <1>6 DEF ToSet
  <2>2. PICK l \in 1..(h + Len(q) + Len(i)) : l - h - Len(q) = k /\ ~(l <= h) /\ ~(l <= h + Len(q))
    BY <1>3, <1>4
  <2>3. r[l] = i[k]
    BY <2>2, <1>1
  <2> QED
    BY <2>1, <2>3, <1>4 DEF ToSet
<1>7. ASSUME NEW x \in ToSet(q) PROVE x \in ToSet(r)
  <2>1. PICK k \in 1..Len(q) : x = q[k]
    BY <1>3, <1>7 DEF ToSet
  <2>2. PICK l \in 1..(h + Len(q) + Len(i)) : l - h = k /\ ~(l <= h) /\ l <= h + Len(q)
    BY <1>3, <1>4
  <2>3. r[l] = q[k]
    BY <2>2, <1>1
  <2> QED
    BY <2>1, <2>3, <1>4 DEF ToSet
<1>8. ASSUME c # NoMsg PROVE c \in ToSet(r)
  <2>1. 1 \in 1..(h + Len(q) + Len(i)) /\ 1 <= h
    BY <1>8, <1>2, <1>3
  <2>2. r[1] = c
    BY <2>1, <1>1
  <2> QED
    BY <2>1, <2>2, <1>4 DEF ToSet
<1> QED
  BY <1>5, <1>6, <1>7, <1>8 DEF r

\* A whole line is lost.
LEMMA WholeLost ==
  ASSUME NEW s \in Seq(Messages), s # <<>>
  PROVE  /\ 1 \in 1..Len(s) /\ Len(s) \in 1..Len(s)
         /\ Line!Without(s, 1, Len(s)) = <<>>
         /\ {s[k] : k \in 1..Len(s)} = ToSet(s)
<1>1. Len(s) \in Nat \ {0} /\ DOMAIN s = 1..Len(s)
  BY EmptySeq, LenProperties
<1>2. 1 \in 1..Len(s) /\ Len(s) \in 1..Len(s)
  BY <1>1
<1>3. Line!Without(s, 1, Len(s)) \in Seq(Messages)
      /\ Len(Line!Without(s, 1, Len(s))) = Len(s) - (Len(s) + 1 - 1)
  BY <1>2, WithoutFacts
<1>4. Len(s) - (Len(s) + 1 - 1) = 0
  BY <1>1
<1>5. Line!Without(s, 1, Len(s)) = <<>>
  BY <1>3, <1>4, EmptySeq
<1> QED
  BY <1>1, <1>2, <1>5 DEF ToSet

-----------------------------------------------------------------------------
(***************************************************************************)
(* Ingestion implements Relay: every step of a pod is a step of its line,  *)
(* or leaves the lines alone.                                              *)
(***************************************************************************)

LEMMA PodRow ==
  ASSUME TypeOK, NEW p \in Pods
  PROVE  /\ OnTheWay(p) = Row(current[p], queue[p], inbox[p])
         /\ current[p] \in Messages \cup {NoMsg}
         /\ queue[p] \in Seq(Messages) /\ inbox[p] \in Seq(Messages)
         /\ OnTheWay(p) \in Seq(Messages)
         /\ ToSet(OnTheWay(p)) = Has(p)
<1>1. OnTheWay(p) = Row(current[p], queue[p], inbox[p])
  BY DEF OnTheWay, Row
<1>2. /\ current[p] \in Messages \cup {NoMsg}
      /\ queue[p] \in Seq(Messages) /\ inbox[p] \in Seq(Messages)
  BY DEF TypeOK
<1>3. Row(current[p], queue[p], inbox[p]) \in Seq(Messages)
  BY <1>2, RowFacts
<1>4. ToSet(Row(current[p], queue[p], inbox[p])) = Has(p)
  BY <1>2, RowHolds DEF Has, Unread
<1> QED
  BY <1>1, <1>2, <1>3, <1>4

LEMMA DropLost ==
  ASSUME TypeOK, NEW r \in Reasons, NEW S, Drop(r, S)
  PROVE  Lost' = Lost \cup S
<1>1. \A q \in Reasons : gone'[q] = IF q = r THEN gone[q] \cup S ELSE gone[q]
  BY DEF Drop, TypeOK
<1> QED
  BY <1>1 DEF Lost

\* Only the line of one pod changes.
LEMMA OneWay ==
  ASSUME NEW p \in Pods,
         \A q \in Pods \ {p} :
           inbox'[q] = inbox[q] /\ queue'[q] = queue[q] /\ current'[q] = current[q]
  PROVE  Ways' = [Ways EXCEPT ![p] = OnTheWay(p)']
<1>1. \A q \in Pods \ {p} : OnTheWay(q)' = OnTheWay(q)
  BY DEF OnTheWay
<1> QED
  BY <1>1 DEF Ways

LEMMA SameWays ==
  ASSUME UNCHANGED <<published, inbox, queue, current, topic, gone>>
  PROVE  UNCHANGED Line!vars
BY DEF Line!vars, Ways, OnTheWay, Lost

\* A segment of one line is lost.
LEMMA LineLoses ==
  ASSUME TypeOK, NEW p \in Pods,
         \A q \in Pods \ {p} :
           inbox'[q] = inbox[q] /\ queue'[q] = queue[q] /\ current'[q] = current[q],
         UNCHANGED <<published, topic>>,
         NEW i \in 1..Len(OnTheWay(p)), NEW j \in i..Len(OnTheWay(p)),
         OnTheWay(p)' = Line!Without(OnTheWay(p), i, j),
         NEW r \in Reasons, Drop(r, {OnTheWay(p)[k] : k \in i..j})
  PROVE  Line!Lose(p)
<1>1. Ways[p] = OnTheWay(p)
  BY DEF Ways
<1>2. Ways' = [Ways EXCEPT ![p] = Line!Without(Ways[p], i, j)]
  BY <1>1, OneWay
<1>3. Lost' = Lost \cup {Ways[p][k] : k \in i..j}
  BY <1>1, DropLost
<1> QED
  BY <1>1, <1>2, <1>3 DEF Line!Lose

LEMMA ReceiveRelays ==
  ASSUME TypeOK, NEW p \in Pods, Receive(p)
  PROVE  Line!Lose(p) \/ UNCHANGED Line!vars
<1> DEFINE m == Head(inbox[p])
<1>1. /\ inbox[p] # <<>>
      /\ inbox'[p] = Tail(inbox[p]) /\ UNCHANGED <<published, current, topic>>
      /\ \A q \in Pods \ {p} : inbox'[q] = inbox[q]
  BY DEF Receive, TypeOK
<1>2. CASE queue' = [queue EXCEPT ![p] = Append(@, m)] /\ UNCHANGED gone
  <2>1. queue'[p] = Append(queue[p], m) /\ \A q \in Pods \ {p} : queue'[q] = queue[q]
    BY <1>2 DEF TypeOK
  <2>2. OnTheWay(p)' = Row(current[p], Append(queue[p], m), Tail(inbox[p]))
    BY <2>1, <1>1 DEF OnTheWay, Row
  <2>3. OnTheWay(p)' = OnTheWay(p)
    BY <2>2, <1>1, PodRow, RowMoves
  <2>4. Ways' = [Ways EXCEPT ![p] = OnTheWay(p)]
    BY <2>1, <2>3, <1>1, OneWay
  <2> QED
    BY <2>4, <1>1, <1>2 DEF Line!vars, Ways, Lost
<1>3. CASE Drop("queue_full", {m}) /\ UNCHANGED queue
  <2>1. OnTheWay(p)' = Row(current[p], queue[p], Tail(inbox[p]))
    BY <1>1, <1>3 DEF OnTheWay, Row
  <2>2. PICK n \in 1..Len(OnTheWay(p)) :
          /\ OnTheWay(p)' = Line!Without(OnTheWay(p), n, n)
          /\ {OnTheWay(p)[k] : k \in n..n} = {m}
    <3>1. /\ current[p] \in Messages \cup {NoMsg} /\ queue[p] \in Seq(Messages)
          /\ inbox[p] \in Seq(Messages) /\ OnTheWay(p) = Row(current[p], queue[p], inbox[p])
      BY PodRow
    <3>2. \E n \in 1..Len(Row(current[p], queue[p], inbox[p])) :
            /\ Row(current[p], queue[p], Tail(inbox[p])) =
                 Line!Without(Row(current[p], queue[p], inbox[p]), n, n)
            /\ {Row(current[p], queue[p], inbox[p])[k] : k \in n..n} = {Head(inbox[p])}
      <4>1. inbox[p] # <<>>
        BY <1>1
      <4>2. ASSUME NEW c \in Messages \cup {NoMsg}, NEW q \in Seq(Messages),
                   NEW i \in Seq(Messages), i # <<>>
            PROVE  \E n \in 1..Len(Row(c, q, i)) :
                     /\ Row(c, q, Tail(i)) = Line!Without(Row(c, q, i), n, n)
                     /\ {Row(c, q, i)[k] : k \in n..n} = {Head(i)}
        BY <4>2, InboxHeadLost
      <4> QED
        <5>1. PICK c \in Messages \cup {NoMsg}, q \in Seq(Messages), i \in Seq(Messages) :
                 c = current[p] /\ q = queue[p] /\ i = inbox[p]
          BY <3>1
        <5>2. i # <<>>
          BY <4>1, <5>1
        <5>3. \E n \in 1..Len(Row(c, q, i)) :
                 /\ Row(c, q, Tail(i)) = Line!Without(Row(c, q, i), n, n)
                 /\ {Row(c, q, i)[k] : k \in n..n} = {Head(i)}
          BY <4>2, <5>2
        <5> QED
          BY <5>1, <5>3
    <3> QED
      BY <2>1, <3>1, <3>2
  <2>3. n \in n..Len(OnTheWay(p))
    BY PodRow, LenProperties
  <2> QED
    BY <2>2, <2>3, <1>1, <1>3, LineLoses DEF Reasons
<1> QED
  BY <1>2, <1>3 DEF Receive, Enqueue

LEMMA TakeRelays ==
  ASSUME TypeOK, NEW p \in Pods, Take(p)
  PROVE  Line!Lose(p) \/ UNCHANGED Line!vars
<1> DEFINE m == Head(queue[p])
<1>1. /\ queue[p] # <<>> /\ current[p] = NoMsg
      /\ queue'[p] = Tail(queue[p]) /\ UNCHANGED <<published, inbox, topic>>
      /\ \A q \in Pods \ {p} : queue'[q] = queue[q]
  BY PodTypes DEF Take, TypeOK
<1>2. m \in Messages /\ Tail(queue[p]) \in Seq(Messages)
  BY <1>1, PodRow, HeadTailProperties
<1>3. OnTheWay(p) = Row(m, Tail(queue[p]), inbox[p])
  BY <1>1, PodRow, RowMoves
<1>4. CASE \E r \in Reasons : Drop(r, {m}) /\ UNCHANGED current
  <2>1. PICK r \in Reasons : Drop(r, {m}) /\ UNCHANGED current
    BY <1>4
  <2>2. OnTheWay(p)' = Row(NoMsg, Tail(queue[p]), inbox[p])
    BY <2>1, <1>1 DEF OnTheWay, Row
  <2>3. OnTheWay(p) # <<>> /\ Head(OnTheWay(p)) = m /\ OnTheWay(p)' = Tail(OnTheWay(p))
    <3>1. inbox[p] \in Seq(Messages)
      BY PodRow
    <3>2. m \in Messages /\ Tail(queue[p]) \in Seq(Messages)
      BY <1>2
    <3> HIDE DEF m
    <3>3. /\ Row(m, Tail(queue[p]), inbox[p]) # <<>>
          /\ Head(Row(m, Tail(queue[p]), inbox[p])) = m
          /\ Tail(Row(m, Tail(queue[p]), inbox[p])) = Row(NoMsg, Tail(queue[p]), inbox[p])
      BY <3>1, <3>2, RowHandled
    <3> QED
      BY <2>2, <3>3, <1>3
  <2>4. /\ 1 \in 1..Len(OnTheWay(p)) /\ OnTheWay(p)' = Line!Without(OnTheWay(p), 1, 1)
        /\ {OnTheWay(p)[k] : k \in 1..1} = {m}
    BY <2>3, PodRow, HeadLost
  <2> QED
    BY <2>1, <2>4, <1>1, LineLoses
<1>5. CASE current' = [current EXCEPT ![p] = m] /\ UNCHANGED gone
  <2>1. current'[p] = m /\ \A q \in Pods \ {p} : current'[q] = current[q]
    BY <1>5 DEF TypeOK
  <2>2. OnTheWay(p)' = OnTheWay(p)
    BY <2>1, <1>1, <1>3 DEF OnTheWay, Row
  <2>3. Ways' = [Ways EXCEPT ![p] = OnTheWay(p)]
    BY <2>1, <2>2, <1>1, OneWay
  <2> QED
    BY <2>3, <1>1, <1>5 DEF Line!vars, Ways, Lost
<1> QED
  BY <1>4, <1>5 DEF Take, Raise, Reasons

\* The handlers are done with a message: it arrives, or it is lost.
LEMMA DoneRelays ==
  ASSUME TypeOK, NEW p \in Pods, stage[p] # "get", Done(p),
         UNCHANGED <<published, inbox, queue>>,
         \/ Store(current[p]) /\ (UNCHANGED gone \/ \E r \in Reasons : Drop(r, {current[p]}))
         \/ UNCHANGED topic /\ \E r \in Reasons : Drop(r, {current[p]})
  PROVE  Line!Arrive(p) \/ Line!Lose(p)
<1>1. current'[p] = NoMsg /\ \A q \in Pods \ {p} : current'[q] = current[q]
  BY DEF Done, TypeOK
<1>2. current[p] \in Messages
  BY PodTypes
<1>3. OnTheWay(p)' = Row(NoMsg, queue[p], inbox[p])
  BY <1>1 DEF OnTheWay, Row
<1>4. /\ OnTheWay(p) # <<>> /\ Head(OnTheWay(p)) = current[p]
      /\ OnTheWay(p)' = Tail(OnTheWay(p))
  <2>1. queue[p] \in Seq(Messages) /\ inbox[p] \in Seq(Messages)
        /\ OnTheWay(p) = Row(current[p], queue[p], inbox[p])
    BY PodRow
  <2> QED
    BY <1>2, <1>3, <2>1, RowHandled
<1>5. CASE Store(current[p]) /\ (UNCHANGED gone \/ \E r \in Reasons : Drop(r, {current[p]}))
  <2>1. Ways[p] = OnTheWay(p) /\ Ways' = [Ways EXCEPT ![p] = Tail(Ways[p])]
    BY <1>1, <1>4, OneWay DEF Ways
  <2>2. Lost' \in {Lost, Lost \cup {Head(Ways[p])}}
    <3>1. CASE UNCHANGED gone
      BY <3>1 DEF Lost
    <3>2. CASE \E r \in Reasons : Drop(r, {current[p]})
      BY <3>2, <2>1, <1>4, DropLost
    <3> QED
      BY <1>5, <3>1, <3>2
  <2> QED
    BY <2>1, <2>2, <1>4, <1>5 DEF Line!Arrive, Store
<1>6. CASE UNCHANGED topic /\ \E r \in Reasons : Drop(r, {current[p]})
  <2>1. PICK r \in Reasons : Drop(r, {current[p]})
    BY <1>6
  <2>2. /\ 1 \in 1..Len(OnTheWay(p)) /\ OnTheWay(p)' = Line!Without(OnTheWay(p), 1, 1)
        /\ {OnTheWay(p)[k] : k \in 1..1} = {current[p]}
    BY <1>4, PodRow, HeadLost
  <2> QED
    BY <2>1, <2>2, <1>1, <1>6, LineLoses
<1> QED
  BY <1>5, <1>6

\* A connection ends: the inbox of its pod is lost.
LEMMA InboxRelays ==
  ASSUME TypeOK, NEW p \in Pods, Disconnect({p}),
         UNCHANGED <<published, queue, current, topic>>
  PROVE  Line!Lose(p) \/ UNCHANGED Line!vars
<1>1. inbox'[p] = <<>> /\ \A q \in Pods \ {p} : inbox'[q] = inbox[q]
  BY DEF Disconnect
<1>2. Drop("link", Unread(p))
  BY DEF Disconnect
<1>3. CASE inbox[p] = <<>>
  <2>1. Unread(p) = {}
    BY <1>3, EmptyHolds DEF Unread
  <2>2. UNCHANGED Lost
    BY <1>2, <2>1, DropLost DEF Reasons
  <2>3. UNCHANGED Ways
    BY <1>1, <1>3 DEF Ways, OnTheWay
  <2> QED
    BY <2>2, <2>3 DEF Line!vars
<1>4. CASE inbox[p] # <<>>
  <2>1. /\ current[p] \in Messages \cup {NoMsg} /\ queue[p] \in Seq(Messages)
        /\ inbox[p] \in Seq(Messages) /\ OnTheWay(p) = Row(current[p], queue[p], inbox[p])
    BY PodRow
  <2>2. OnTheWay(p)' = Row(current[p], queue[p], <<>>)
    BY <1>1 DEF OnTheWay, Row
  <2>3. ASSUME NEW c \in Messages \cup {NoMsg}, NEW q \in Seq(Messages),
               NEW i \in Seq(Messages), i # <<>>
        PROVE  \E n \in 1..Len(Row(c, q, i)) :
                 /\ Len(Row(c, q, i)) \in n..Len(Row(c, q, i))
                 /\ Row(c, q, <<>>) = Line!Without(Row(c, q, i), n, Len(Row(c, q, i)))
                 /\ {Row(c, q, i)[k] : k \in n..Len(Row(c, q, i))} = ToSet(i)
    BY <2>3, InboxLost
  <2> DEFINE r == Row(current[p], queue[p], inbox[p])
  <2>4. PICK n \in 1..Len(r) :
          /\ Len(r) \in n..Len(r)
          /\ Row(current[p], queue[p], <<>>) = Line!Without(r, n, Len(r))
          /\ {r[k] : k \in n..Len(r)} = ToSet(inbox[p])
    <3>1. PICK c \in Messages \cup {NoMsg}, q \in Seq(Messages), i \in Seq(Messages) :
             c = current[p] /\ q = queue[p] /\ i = inbox[p]
      BY <2>1
    <3>2. i # <<>>
      BY <1>4, <3>1
    <3>3. \E n \in 1..Len(Row(c, q, i)) :
             /\ Len(Row(c, q, i)) \in n..Len(Row(c, q, i))
             /\ Row(c, q, <<>>) = Line!Without(Row(c, q, i), n, Len(Row(c, q, i)))
             /\ {Row(c, q, i)[k] : k \in n..Len(Row(c, q, i))} = ToSet(i)
      BY <2>3, <3>2
    <3> QED
      BY <3>1, <3>3
  <2> DEFINE s == OnTheWay(p)
  <2>5. /\ n \in 1..Len(s) /\ Len(s) \in n..Len(s) /\ s' = Line!Without(s, n, Len(s))
        /\ {s[k] : k \in n..Len(s)} = Unread(p)
    BY <2>1, <2>2, <2>4 DEF Unread
  <2>6. Drop("link", {s[k] : k \in n..Len(s)})
    BY <1>2, <2>5
  <2> QED
    BY <1>1, <2>5, <2>6, LineLoses DEF Reasons
<1> QED
  BY <1>3, <1>4

LEMMA ConnectRelays ==
  ASSUME TypeOK, OneSession, NEW p \in Pods, Connect(p)
  PROVE  (\E q \in Pods : Line!Lose(q)) \/ UNCHANGED Line!vars
<1> DEFINE others == {q \in Pods : HasSession(q)}
<1>1. Disconnect(others) /\ UNCHANGED <<published, queue, current, topic>>
  BY DEF Connect, dispatchVars
<1>2. CASE others = {}
  <2>1. Drop("link", {}) /\ UNCHANGED inbox
    BY <1>1, <1>2 DEF Disconnect, TypeOK
  <2>2. UNCHANGED Lost
    BY <2>1, DropLost DEF Reasons
  <2> QED
    BY <1>1, <2>1, <2>2 DEF Line!vars, Ways, OnTheWay
<1>3. CASE others # {}
  <2>1. PICK q \in Pods : HasSession(q)
    BY <1>3
  <2>2. others = {q}
    BY <2>1 DEF OneSession
  <2> QED
    BY <1>1, <2>2, InboxRelays
<1> QED
  BY <1>2, <1>3

\* A pod ends: its line is lost, or cut while its first message arrives.
LEMMA StopRelays ==
  ASSUME TypeOK, NEW p \in Pods, Stop(p)
  PROVE  Line!Lose(p) \/ Line!Cut(p) \/ UNCHANGED Line!vars
<1>1. /\ inbox'[p] = <<>> /\ queue'[p] = <<>> /\ current'[p] = NoMsg
      /\ \A q \in Pods \ {p} :
           inbox'[q] = inbox[q] /\ queue'[q] = queue[q] /\ current'[q] = current[q]
      /\ UNCHANGED published
  BY DEF Stop, Done, TypeOK
<1>2. OnTheWay(p)' = <<>>
  BY <1>1 DEF OnTheWay
<1>3. Drop("shutdown", ToSet(OnTheWay(p)))
  BY PodRow DEF Stop, Has
<1>4. Ways[p] = OnTheWay(p) /\ Ways' = [Ways EXCEPT ![p] = <<>>]
  BY <1>1, <1>2, OneWay DEF Ways
<1>5. Lost' = Lost \cup ToSet(OnTheWay(p))
  BY <1>3, DropLost DEF Reasons
<1>6. CASE UNCHANGED topic /\ OnTheWay(p) = <<>>
  <2>1. UNCHANGED Lost
    BY <1>5, <1>6, EmptyHolds
  <2>2. Ways \in [Pods -> Seq(Messages)]
    BY PodRow DEF Ways
  <2>3. UNCHANGED Ways
    BY <1>4, <1>6, <2>2
  <2> QED
    BY <1>1, <1>6, <2>1, <2>3 DEF Line!vars
<1>7. CASE UNCHANGED topic /\ OnTheWay(p) # <<>>
  <2> DEFINE s == OnTheWay(p)
  <2>1. /\ 1 \in 1..Len(s) /\ Len(s) \in 1..Len(s)
        /\ Line!Without(s, 1, Len(s)) = <<>>
        /\ {s[k] : k \in 1..Len(s)} = ToSet(s)
    BY <1>7, PodRow, WholeLost
  <2> QED
    BY <1>1, <1>2, <1>3, <1>7, <2>1, LineLoses DEF Reasons
<1>8. CASE stage[p] = "produce" /\ Store(current[p])
  <2>1. /\ current[p] \in Messages
        /\ queue[p] \in Seq(Messages) /\ inbox[p] \in Seq(Messages)
        /\ OnTheWay(p) = Row(current[p], queue[p], inbox[p])
    BY <1>8, PodTypes, PodRow
  <2>2. OnTheWay(p) # <<>> /\ Head(OnTheWay(p)) = current[p]
    BY <2>1, RowHandled
  <2>3. ToSet(OnTheWay(p)) = Line!ToSet(Ways[p])
    BY <1>4 DEF ToSet, Line!ToSet
  <2> QED
    BY <1>1, <1>4, <1>5, <1>8, <2>2, <2>3 DEF Line!Cut, Store
<1> QED
  BY <1>6, <1>7, <1>8 DEF Stop

LEMMA PublishRelays ==
  ASSUME TypeOK, NEW m \in Messages, Publish(m)
  PROVE  Line!Send(m)
<1>1. /\ m \notin Line!ToSet(published) /\ published' = Append(published, m)
      /\ UNCHANGED <<queue, current, topic>>
  BY DEF Publish, dispatchVars, ToSet, Line!ToSet
<1>2. CASE UNCHANGED inbox /\ Drop("offline", {m})
  <2>1. Lost' = Lost \cup {m}
    BY <1>2, DropLost DEF Reasons
  <2>2. UNCHANGED Ways
    BY <1>1, <1>2 DEF Ways, OnTheWay
  <2> QED
    BY <1>1, <2>1, <2>2 DEF Line!Send
<1>3. ASSUME NEW p \in Pods, inbox' = [inbox EXCEPT ![p] = Append(@, m)], UNCHANGED gone
      PROVE  Line!Send(m)
  <2>1. inbox'[p] = Append(inbox[p], m) /\ \A q \in Pods \ {p} : inbox'[q] = inbox[q]
    BY <1>3 DEF TypeOK
  <2>2. OnTheWay(p)' = Row(current[p], queue[p], Append(inbox[p], m))
    BY <2>1, <1>1 DEF OnTheWay, Row
  <2>3. /\ current[p] \in Messages \cup {NoMsg} /\ queue[p] \in Seq(Messages)
        /\ inbox[p] \in Seq(Messages) /\ OnTheWay(p) = Row(current[p], queue[p], inbox[p])
    BY PodRow
  <2>4. Row(current[p], queue[p], Append(inbox[p], m)) = Append(Row(current[p], queue[p], inbox[p]), m)
    BY <2>3, RowAppend
  <2>5. Ways[p] = OnTheWay(p) /\ Ways' = [Ways EXCEPT ![p] = Append(Ways[p], m)]
    BY <2>1, <2>2, <2>3, <2>4, <1>1, OneWay DEF Ways
  <2>6. UNCHANGED Lost
    BY <1>3 DEF Lost
  <2> QED
    BY <1>1, <2>5, <2>6 DEF Line!Send
<1> QED
  BY <1>2, <1>3 DEF Publish

\* Every step of Ingestion is a step of Relay, or changes none of its variables.
LEMMA StepRelays == TypeOK /\ OneSession /\ [Next]_vars => [Line!Next]_(Line!vars)
<1> SUFFICES ASSUME TypeOK, OneSession, [Next]_vars PROVE [Line!Next]_(Line!vars)
  OBVIOUS
<1>1. CASE UNCHANGED vars
  BY <1>1, SameWays DEF vars, dispatchVars
<1>2. ASSUME NEW p \in Pods, Subscribe(p) \/ Wake(p) PROVE UNCHANGED Line!vars
  BY <1>2, SameWays DEF Subscribe, Wake, dispatchVars
<1>3. ASSUME NEW p \in Pods, LinkFails(p) PROVE Line!Lose(p) \/ UNCHANGED Line!vars
  BY <1>3, InboxRelays DEF LinkFails, dispatchVars
<1>4. ASSUME NEW p \in Pods, CheckLimit(p)
      PROVE  Line!Arrive(p) \/ Line!Lose(p) \/ UNCHANGED Line!vars
  <2>1. CASE Admit(p)
    BY <1>4, <2>1, SameWays DEF Admit, CheckLimit
  <2>2. CASE Drop("rate_limited", {current[p]}) /\ Done(p)
    BY <1>4, <2>2, DoneRelays DEF CheckLimit, Reasons
  <2> QED
    BY <1>4, <2>1, <2>2 DEF CheckLimit
<1>5. ASSUME NEW p \in Pods, CheckFailsOpen(p) PROVE UNCHANGED Line!vars
  BY <1>5, SameWays DEF CheckFailsOpen, Admit
<1>6. ASSUME NEW p \in Pods, Produce(p) \/ ProduceFails(p) PROVE Line!Arrive(p) \/ Line!Lose(p)
  BY <1>6, DoneRelays DEF Produce, ProduceFails, Reasons
<1>7. ASSUME NEW d \in Devices, WindowEnds(d) PROVE UNCHANGED Line!vars
  BY <1>7, SameWays DEF WindowEnds, dispatchVars
<1>8. ASSUME NEW p \in Pods, LoopStep(p)
      PROVE  (\E q \in Pods : Line!Lose(q)) \/ UNCHANGED Line!vars
  BY <1>2, <1>8, ConnectRelays, ReceiveRelays DEF LoopStep
<1>9. ASSUME NEW p \in Pods, DispatcherStep(p)
      PROVE  Line!Arrive(p) \/ Line!Lose(p) \/ UNCHANGED Line!vars
  BY <1>4, <1>5, <1>6, <1>9, TakeRelays DEF DispatcherStep
<1>10. ASSUME NEW p \in Pods, Stop(p)
       PROVE  Line!Lose(p) \/ Line!Cut(p) \/ UNCHANGED Line!vars
  BY <1>10, StopRelays
<1>11. ASSUME NEW m \in Messages, Publish(m) PROVE Line!Send(m)
  BY <1>11, PublishRelays
<1> QED
  BY <1>1, <1>3, <1>7, <1>8, <1>9, <1>10, <1>11 DEF Next, Line!Next

\* A connection is the only one.
LEMMA SessionStep == TypeOK /\ OneSession /\ [Next]_vars => OneSession'
<1> SUFFICES ASSUME TypeOK, OneSession, [Next]_vars PROVE OneSession'
  OBVIOUS
<1>1. ASSUME NEW p \in Pods, Connect(p) PROVE OneSession'
  <2>1. \A q \in Pods : q # p => ~(link'[q] \in {"connected", "open"})
    BY <1>1 DEF Connect, HasSession, TypeOK
  <2> QED
    BY <2>1 DEF OneSession, HasSession
<1>2. ASSUME \A q \in Pods : HasSession(q)' => HasSession(q) PROVE OneSession'
  BY <1>2 DEF OneSession
<1>3. CASE UNCHANGED link
  BY <1>2, <1>3 DEF HasSession
<1>4. ASSUME NEW p \in Pods, Subscribe(p) \/ Wake(p) \/ LinkFails(p) \/ Stop(p)
      PROVE  \A q \in Pods : HasSession(q)' => HasSession(q)
  BY <1>4 DEF Subscribe, Wake, LinkFails, Stop, HasSession, TypeOK
<1>5. CASE UNCHANGED vars
  BY <1>3, <1>5 DEF vars, loopVars
<1>6. ASSUME NEW p \in Pods, Receive(p) \/ DispatcherStep(p) PROVE UNCHANGED link
  BY <1>6 DEF Receive, DispatcherStep, Take, CheckLimit, CheckFailsOpen, Produce, ProduceFails, loopVars
<1>7. ASSUME NEW m \in Messages, Publish(m) PROVE UNCHANGED link
  BY <1>7 DEF Publish, loopVars
<1>8. ASSUME NEW d \in Devices, WindowEnds(d) PROVE UNCHANGED link
  BY <1>8 DEF WindowEnds, loopVars
<1> QED
  BY <1>1, <1>2, <1>3, <1>4, <1>5, <1>6, <1>7, <1>8 DEF Next, LoopStep

\* The pods are lines that lose messages, but repeat none and keep their order.
THEOREM IngestionImplementsRelay == Spec => ImplementsRelay
<1>1. Init => OneSession /\ Line!Init
  <2> SUFFICES ASSUME Init PROVE OneSession /\ Line!Init
    OBVIOUS
  <2>1. OneSession
    BY DEF Init, OneSession, HasSession
  <2>2. \A p \in Pods : OnTheWay(p) = <<>>
    BY DEF Init, OnTheWay
  <2>3. Ways = [p \in Pods |-> <<>>]
    BY <2>2 DEF Ways
  <2>4. Lost = {}
    BY DEF Init, Lost
  <2> QED
    BY <2>1, <2>3, <2>4 DEF Init, Line!Init
<1>2. TypeOK /\ OneSession /\ [Next]_vars => [Line!Next]_(Line!vars)
  BY StepRelays
<1>3. TypeOK /\ OneSession /\ [Next]_vars => (TypeOK /\ OneSession)'
  BY TypeStep, SessionStep
<1> QED
  BY <1>1, <1>2, <1>3, InitType, PTL DEF Spec, ImplementsRelay, Line!Spec

-----------------------------------------------------------------------------
(***************************************************************************)
(* With one pod the topic is in the order of publication: Relay never      *)
(* reorders a line, and there is only one.                                 *)
(***************************************************************************)

\* Publishing keeps the order, and puts the new message last.
LEMMA BeforeAppend ==
  ASSUME NEW s \in Seq(Messages), NEW m \in Messages
  PROVE  /\ \A x, y : Before(s, x, y) => Before(Append(s, m), x, y)
         /\ \A x \in ToSet(s) : Before(Append(s, m), x, m)
<1> DEFINE t == Append(s, m)
<1>1. /\ Len(t) = Len(s) + 1 /\ Len(s) \in Nat /\ DOMAIN s = 1..Len(s)
      /\ \A i \in 1..Len(s) : t[i] = s[i]
      /\ t[Len(s) + 1] = m
  BY AppendProperties, LenProperties
<1> HIDE DEF t
<1>2. ASSUME NEW x, NEW y, Before(s, x, y) PROVE Before(t, x, y)
  <2>1. PICK i \in 1..Len(s), j \in 1..Len(s) : i < j /\ s[i] = x /\ s[j] = y
    BY <1>2 DEF Before
  <2>2. i \in 1..Len(t) /\ j \in 1..Len(t) /\ t[i] = x /\ t[j] = y
    BY <2>1, <1>1
  <2> QED
    BY <2>1, <2>2 DEF Before
<1>3. ASSUME NEW x \in ToSet(s) PROVE Before(t, x, m)
  <2>1. PICK i \in 1..Len(s) : s[i] = x
    BY <1>1, <1>3 DEF ToSet
  <2>2. i \in 1..Len(t) /\ Len(s) + 1 \in 1..Len(t) /\ i < Len(s) + 1 /\ t[i] = x
    BY <2>1, <1>1
  <2> QED
    BY <2>2, <1>1 DEF Before
<1> QED
  BY <1>2, <1>3 DEF t

\* What holds of the elements of a sequence and of one more holds of all of them.
LEMMA AppendElements ==
  ASSUME NEW s \in Seq(Messages), NEW m \in Messages, NEW k \in 1..Len(Append(s, m))
  PROVE  \/ k \in 1..Len(s) /\ Append(s, m)[k] = s[k]
         \/ k = Len(s) + 1 /\ Append(s, m)[k] = m
BY AppendProperties, LenProperties

Ordered(P, T, W) ==
  /\ \A i, j \in 1..Len(T) : i < j => Before(P, T[i], T[j])
  /\ \A i, j \in 1..Len(W) : i < j => Before(P, W[i], W[j])
  /\ \A i \in 1..Len(T), j \in 1..Len(W) : Before(P, T[i], W[j])

LEMMA OrderedSend ==
  ASSUME NEW P \in Seq(Messages), NEW T \in Seq(Messages), NEW W \in Seq(Messages),
         NEW m \in Messages, Ordered(P, T, W),
         ToSet(T) \subseteq ToSet(P), ToSet(W) \subseteq ToSet(P)
  PROVE  Ordered(Append(P, m), T, W) /\ Ordered(Append(P, m), T, Append(W, m))
<1> DEFINE Q == Append(P, m)
           V == Append(W, m)
<1>1. Ordered(Q, T, W)
  BY BeforeAppend DEF Ordered
<1>2. \A x \in ToSet(T) \cup ToSet(W) : Before(Q, x, m)
  BY BeforeAppend
<1>3. /\ \A i \in 1..Len(T) : T[i] \in ToSet(T)
      /\ \A i \in 1..Len(W) : W[i] \in ToSet(W)
  BY LenProperties DEF ToSet
<1>4. \A k \in 1..Len(V) : (k \in 1..Len(W) /\ V[k] = W[k]) \/ (k = Len(W) + 1 /\ V[k] = m)
  BY AppendElements
<1>5. Len(V) = Len(W) + 1 /\ Len(W) \in Nat
  BY AppendProperties, LenProperties
<1> HIDE DEF Q, V
<1>6. ASSUME NEW i \in 1..Len(V), NEW j \in 1..Len(V), i < j PROVE Before(Q, V[i], V[j])
  <2>1. i \in 1..Len(W) /\ V[i] = W[i]
    BY <1>4, <1>5, <1>6
  <2>2. CASE j \in 1..Len(W) /\ V[j] = W[j]
    BY <2>1, <2>2, <1>1, <1>6 DEF Ordered
  <2>3. CASE V[j] = m
    BY <2>1, <2>3, <1>2, <1>3
  <2> QED
    BY <2>2, <2>3, <1>4
<1>7. ASSUME NEW i \in 1..Len(T), NEW j \in 1..Len(V) PROVE Before(Q, T[i], V[j])
  <2>1. CASE j \in 1..Len(W) /\ V[j] = W[j]
    BY <2>1, <1>1 DEF Ordered
  <2>2. CASE V[j] = m
    BY <2>2, <1>2, <1>3
  <2> QED
    BY <2>1, <2>2, <1>4
<1> QED
  BY <1>1, <1>6, <1>7 DEF Ordered, Q, V

LEMMA OrderedArrive ==
  ASSUME NEW P \in Seq(Messages), NEW T \in Seq(Messages), NEW W \in Seq(Messages),
         W # <<>>, Ordered(P, T, W)
  PROVE  Ordered(P, Append(T, Head(W)), Tail(W)) /\ Ordered(P, Append(T, Head(W)), <<>>)
<1> DEFINE U == Append(T, Head(W))
           V == Tail(W)
<1>1. /\ Head(W) \in Messages /\ Head(W) = W[1] /\ Len(V) = Len(W) - 1 /\ Len(W) \in Nat \ {0}
      /\ \A k \in 1..Len(V) : V[k] = W[k + 1]
  BY HeadTailProperties, EmptySeq
<1>2. \A k \in 1..Len(U) : (k \in 1..Len(T) /\ U[k] = T[k]) \/ (k = Len(T) + 1 /\ U[k] = W[1])
  BY <1>1, AppendElements
<1>3. Len(U) = Len(T) + 1 /\ Len(T) \in Nat
  BY <1>1, AppendProperties, LenProperties
<1>4. Len(<<>>) = 0
  OBVIOUS
<1> HIDE DEF U, V
<1>5. \A k \in 1..Len(V) : k + 1 \in 1..Len(W)
  BY <1>1
<1>6. ASSUME NEW i \in 1..Len(U), NEW j \in 1..Len(U), i < j PROVE Before(P, U[i], U[j])
  <2>1. i \in 1..Len(T) /\ U[i] = T[i]
    BY <1>2, <1>3, <1>6
  <2>2. 1 \in 1..Len(W)
    BY <1>1
  <2> QED
    BY <2>1, <2>2, <1>2, <1>6 DEF Ordered
<1>7. ASSUME NEW i \in 1..Len(V), NEW j \in 1..Len(V), i < j PROVE Before(P, V[i], V[j])
  <2>1. i + 1 < j + 1 /\ V[i] = W[i + 1] /\ V[j] = W[j + 1]
    BY <1>1, <1>7
  <2> QED
    BY <2>1, <1>5 DEF Ordered
<1>8. ASSUME NEW i \in 1..Len(U), NEW j \in 1..Len(V) PROVE Before(P, U[i], V[j])
  <2>1. V[j] = W[j + 1] /\ j + 1 \in 1..Len(W) /\ 1 \in 1..Len(W) /\ 1 < j + 1
    BY <1>1, <1>5
  <2> QED
    BY <2>1, <1>2 DEF Ordered
<1> QED
  BY <1>4, <1>6, <1>7, <1>8 DEF Ordered, U, V

LEMMA OrderedLose ==
  ASSUME NEW P \in Seq(Messages), NEW T \in Seq(Messages), NEW W \in Seq(Messages),
         NEW a \in 1..Len(W), NEW b \in a..Len(W), Ordered(P, T, W)
  PROVE  Ordered(P, T, Line!Without(W, a, b))
<1> DEFINE V == Line!Without(W, a, b)
           n == b + 1 - a
<1>1. /\ Len(V) = Len(W) - n
      /\ \A k \in 1..(Len(W) - n) :
           V[k] = (IF k < a THEN W[k] ELSE W[k + n]) /\ k \in 1..Len(W) /\ k + n \in 1..Len(W)
  BY WithoutFacts
<1>2. n \in Nat /\ Len(W) \in Nat
  BY LenProperties
<1> HIDE DEF V, n
<1>3. ASSUME NEW i \in 1..Len(V), NEW j \in 1..Len(V), i < j PROVE Before(P, V[i], V[j])
  <2>1. PICK k \in 1..Len(W) : V[i] = W[k] /\ k = IF i < a THEN i ELSE i + n
    BY <1>1
  <2>2. PICK l \in 1..Len(W) : V[j] = W[l] /\ l = IF j < a THEN j ELSE j + n
    BY <1>1
  <2>3. k < l
    BY <2>1, <2>2, <1>2, <1>3
  <2> QED
    BY <2>1, <2>2, <2>3 DEF Ordered
<1>4. ASSUME NEW i \in 1..Len(T), NEW j \in 1..Len(V) PROVE Before(P, T[i], V[j])
  <2>1. PICK l \in 1..Len(W) : V[j] = W[l]
    BY <1>1
  <2> QED
    BY <2>1 DEF Ordered
<1> QED
  BY <1>3, <1>4 DEF Ordered, V

LEMMA OrderIsOrdered ==
  OrderInv <=> InOrder(topic) /\ \A p \in Pods : Ordered(published, topic, Ways[p])
BY DEF OrderInv, InOrder, Ordered, Ways

LEMMA OrderStep ==
  ASSUME \A p, q \in Pods : p = q,
         TypeOK, PlaceInv, OrderInv, [Line!Next]_(Line!vars)
  PROVE  OrderInv'
<1> DEFINE P == published
           T == topic
<1>1. InOrder(T) /\ \A p \in Pods : Ordered(P, T, Ways[p])
  BY OrderIsOrdered
<1>2. P \in Seq(Messages) /\ T \in Seq(Messages)
  BY DEF TypeOK
<1>3. \A p \in Pods : Ways[p] \in Seq(Messages) /\ ToSet(Ways[p]) \subseteq ToSet(P)
  BY PodRow DEF Ways, PlaceInv, OnlyPublished
<1>4. ToSet(T) \subseteq ToSet(P)
  BY DEF PlaceInv, OnlyPublished
<1>5. Ways \in [Pods -> Seq(Messages)]
  BY <1>3 DEF Ways
<1>6. ASSUME InOrder(T)', \A p \in Pods : Ordered(P', T', Ways'[p]) PROVE OrderInv'
  BY <1>6 DEF OrderInv, InOrder, Ordered, Ways
<1> HIDE DEF P, T
<1>7. CASE UNCHANGED Line!vars
  BY <1>1, <1>6, <1>7 DEF Line!vars, InOrder, P, T
<1>8. ASSUME NEW m \in Messages, Line!Send(m) PROVE OrderInv'
  <2>1. P' = Append(P, m) /\ T' = T
    BY <1>8 DEF Line!Send, P, T
  <2>2. \A p \in Pods : Ways'[p] = Ways[p] \/ Ways'[p] = Append(Ways[p], m)
    BY <1>5, <1>8 DEF Line!Send
  <2>3. \A p \in Pods : Ordered(P', T', Ways'[p])
    <3> SUFFICES ASSUME NEW p \in Pods PROVE Ordered(Append(P, m), T, Ways'[p])
      BY <2>1
    <3>1. Ordered(Append(P, m), T, Ways[p]) /\ Ordered(Append(P, m), T, Append(Ways[p], m))
      BY <1>1, <1>2, <1>3, <1>4, OrderedSend
    <3> QED
      BY <2>2, <3>1
  <2>4. InOrder(T)'
    BY <2>1, <1>1, <1>2, BeforeAppend DEF InOrder, P, T
  <2> QED
    BY <1>6, <2>3, <2>4
<1>9. ASSUME NEW p \in Pods, Ways[p] # <<>>, P' = P, T' = Append(T, Head(Ways[p])),
             Ways'[p] = Tail(Ways[p]) \/ Ways'[p] = <<>>
      PROVE  OrderInv'
  <2>1. Ordered(P, T, Ways[p]) /\ Ways[p] \in Seq(Messages)
    BY <1>1, <1>3
  <2>2. /\ Ordered(P, Append(T, Head(Ways[p])), Tail(Ways[p]))
        /\ Ordered(P, Append(T, Head(Ways[p])), <<>>)
    BY <1>2, <1>9, <2>1, OrderedArrive
  <2>3. Ordered(P', T', Ways'[p])
    BY <1>9, <2>2
  <2>4. \A q \in Pods : Ordered(P', T', Ways'[q])
    BY <2>3
  <2>5. InOrder(T)'
    BY <2>3 DEF Ordered, InOrder, P, T
  <2> QED
    BY <1>6, <2>4, <2>5
<1>10. ASSUME NEW p \in Pods, Line!Arrive(p) \/ Line!Cut(p) PROVE OrderInv'
  <2>1. Ways[p] # <<>> /\ P' = P /\ T' = Append(T, Head(Ways[p]))
    BY <1>10 DEF Line!Arrive, Line!Cut, P, T
  <2>2. Ways'[p] = Tail(Ways[p]) \/ Ways'[p] = <<>>
    BY <1>5, <1>10 DEF Line!Arrive, Line!Cut
  <2> QED
    BY <1>9, <2>1, <2>2
<1>11. ASSUME NEW p \in Pods, Line!Lose(p) PROVE OrderInv'
  <2>1. P' = P /\ T' = T
    BY <1>11 DEF Line!Lose, P, T
  <2>2. PICK a \in 1..Len(Ways[p]) :
          \E b \in a..Len(Ways[p]) : Ways'[p] = Line!Without(Ways[p], a, b)
    BY <1>5, <1>11 DEF Line!Lose
  <2>6. PICK b \in a..Len(Ways[p]) : Ways'[p] = Line!Without(Ways[p], a, b)
    BY <2>2
  <2>3. Ordered(P, T, Line!Without(Ways[p], a, b))
    BY <1>1, <1>2, <1>3, OrderedLose
  <2>4. \A q \in Pods : Ordered(P', T', Ways'[q])
    BY <2>1, <2>3, <2>6
  <2>5. InOrder(T)'
    BY <2>1, <1>1 DEF InOrder, P, T
  <2> QED
    BY <1>6, <2>4, <2>5
<1> QED
  BY <1>7, <1>8, <1>10, <1>11 DEF Line!Next

\* With one pod the records of a device are in the topic in the order the
\* device published them.
THEOREM DeviceOrderOfOnePod ==
  ASSUME \A p, q \in Pods : p = q
  PROVE  Spec => []DeviceOrder
<1>1. Init => OrderInv
  <2> SUFFICES ASSUME Init PROVE OrderInv
    OBVIOUS
  <2>1. topic = <<>> /\ \A p \in Pods : OnTheWay(p) = <<>>
    BY DEF Init, OnTheWay
  <2>2. Len(<<>>) = 0
    OBVIOUS
  <2> QED
    BY <2>1, <2>2 DEF OrderInv, InOrder
<1>2. TypeOK /\ PlaceInv /\ OneSession /\ OrderInv /\ [Next]_vars => OrderInv'
  BY OrderStep, StepRelays
<1>3. OrderInv => DeviceOrder
  <2> SUFFICES ASSUME OrderInv, NEW m, NEW n, Before(topic, m, n) PROVE Before(published, m, n)
    BY DEF DeviceOrder
  <2>1. PICK i \in 1..Len(topic), j \in 1..Len(topic) : i < j /\ topic[i] = m /\ topic[j] = n
    BY DEF Before
  <2> QED
    BY <2>1 DEF OrderInv, InOrder
<1>4. Init => OneSession
  BY DEF Init, OneSession, HasSession
<1> QED
  BY <1>1, <1>2, <1>3, <1>4, InitType, PlaceInit, TypeStep, PlaceStep, SessionStep, PTL DEF Spec

-----------------------------------------------------------------------------
(***************************************************************************)
(* What is counted as dropped and stored all the same: DoubtInv.           *)
(***************************************************************************)

\* A step that stores nothing, and in which no produce fails and no pod ends,
\* brings nothing into doubt: what else it drops is nowhere else.
LEMMA NoNewDoubt ==
  ASSUME TypeOK, TypeOK', PlaceInv', UNCHANGED topic,
         \A r \in {"kafka_error", "shutdown"} : gone'[r] = gone[r]
  PROVE  InDoubt' \subseteq InDoubt
<1> SUFFICES ASSUME NEW m \in InDoubt' PROVE m \in InDoubt
  OBVIOUS
<1>1. m \in Messages /\ m \in ToSet(topic)
  BY DEF InDoubt, InTopic
<1>2. PICK r \in Reasons : m \in gone'[r]
  BY DEF InDoubt, EndsOf
<1>3. r \in {"kafka_error", "shutdown"}
  BY <1>1, <1>2 DEF PlaceInv, EndedOnce
<1>4. m \in gone[r]
  BY <1>2, <1>3
<1> QED
  BY <1>1, <1>2, <1>4 DEF InDoubt, InTopic, EndsOf

\* The actions that drop for another reason, or for none.
LEMMA OtherDrops ==
  ASSUME TypeOK,
         \/ \E p \in Pods : LoopStep(p) \/ Take(p) \/ CheckLimit(p) \/ CheckFailsOpen(p)
                              \/ LinkFails(p)
         \/ \E m \in Messages : Publish(m)
         \/ \E d \in Devices : WindowEnds(d)
         \/ UNCHANGED vars
  PROVE  /\ UNCHANGED topic
         /\ \A r \in {"kafka_error", "shutdown"} : gone'[r] = gone[r]
<1> DEFINE Others == {"link", "queue_full", "rate_limited", "offline", "error", "schema_error"}
<1> DEFINE Elsewhere == gone' = gone \/ \E q \in Others : \E S : Drop(q, S)
<1>1. Elsewhere => \A r \in {"kafka_error", "shutdown"} : gone'[r] = gone[r]
  BY DEF Drop, TypeOK, Reasons
<1>2. ASSUME NEW p \in Pods, Connect(p) \/ LinkFails(p) PROVE UNCHANGED topic /\ Elsewhere
  <2>1. UNCHANGED topic /\ \E S : Drop("link", S)
    BY <1>2 DEF Connect, LinkFails, Disconnect
  <2> QED
    BY <2>1
<1>3. ASSUME NEW p \in Pods, Subscribe(p) \/ Wake(p) \/ CheckFailsOpen(p)
      PROVE  UNCHANGED topic /\ Elsewhere
  BY <1>3 DEF Subscribe, Wake, CheckFailsOpen, Admit
<1>4. ASSUME NEW p \in Pods, Receive(p) PROVE UNCHANGED topic /\ Elsewhere
  <2>1. UNCHANGED topic /\ (gone' = gone \/ \E S : Drop("queue_full", S))
    BY <1>4 DEF Receive, Enqueue
  <2> QED
    BY <2>1
<1>5. ASSUME NEW p \in Pods, Take(p) PROVE UNCHANGED topic /\ Elsewhere
  <2>1. /\ UNCHANGED topic
        /\ gone' = gone \/ \E S : Drop("error", S) \/ Drop("schema_error", S)
    BY <1>5 DEF Take, Raise
  <2> QED
    BY <2>1
<1>6. ASSUME NEW p \in Pods, CheckLimit(p) PROVE UNCHANGED topic /\ Elsewhere
  <2>1. UNCHANGED topic /\ (gone' = gone \/ \E S : Drop("rate_limited", S))
    BY <1>6 DEF CheckLimit, Admit
  <2> QED
    BY <2>1
<1>7. ASSUME NEW m \in Messages, Publish(m) PROVE UNCHANGED topic /\ Elsewhere
  <2>1. UNCHANGED topic /\ (gone' = gone \/ \E S : Drop("offline", S))
    BY <1>7 DEF Publish
  <2> QED
    BY <2>1
<1>8. ASSUME NEW d \in Devices, WindowEnds(d) PROVE UNCHANGED topic /\ Elsewhere
  BY <1>8 DEF WindowEnds
<1>9. CASE UNCHANGED vars
  BY <1>9 DEF vars
<1> HIDE DEF Elsewhere
<1> QED
  BY <1>1, <1>2, <1>3, <1>4, <1>5, <1>6, <1>7, <1>8, <1>9 DEF LoopStep

\* What a produce stores has not been dropped.
LEMMA ProduceDoubt ==
  ASSUME TypeOK, PlaceInv, NEW p \in Pods, Produce(p)
  PROVE  InDoubt' \subseteq InDoubt
<1> SUFFICES ASSUME NEW m \in InDoubt' PROVE m \in InDoubt
  OBVIOUS
<1>1. current[p] \in Messages /\ topic \in Seq(Messages)
  BY PodTypes DEF Produce, TypeOK
<1>2. ToSet(topic') = ToSet(topic) \cup {current[p]} /\ gone' = gone
  <2>1. topic' = Append(topic, current[p]) /\ gone' = gone
    BY DEF Produce, Store
  <2> QED
    BY <1>1, <2>1, AppendHolds
<1>3. PICK r \in Reasons : m \in gone[r]
  BY <1>2 DEF InDoubt, EndsOf
<1>4. m # current[p]
  <2>1. current[p] \in Has(p)
    BY <1>1, IngestionAssumption DEF Has
  <2> QED
    BY <1>3, <2>1 DEF PlaceInv, EndedOnce
<1>5. m \in Messages /\ m \in ToSet(topic)
  BY <1>2, <1>4 DEF InDoubt, InTopic
<1> QED
  BY <1>3, <1>5 DEF InDoubt, InTopic, EndsOf

\* A produce that fails, or a pod that ends, brings at most the message of its
\* dispatcher into doubt: nothing else it drops was ever stored.
LEMMA FaultDoubt ==
  ASSUME TypeOK, PlaceInv, NEW p \in Pods, ProduceFails(p) \/ Stop(p)
  PROVE  InDoubt' \subseteq InDoubt \cup {current[p]}
<1> SUFFICES ASSUME NEW m \in InDoubt', m # current[p] PROVE m \in InDoubt
  OBVIOUS
<1>1. topic' = topic \/ (current[p] \in Messages /\ Store(current[p]))
  BY PodTypes DEF ProduceFails, Stop
<1>2. m \in ToSet(topic)
  <2>1. m \in ToSet(topic')
    BY DEF InDoubt, InTopic
  <2>2. ASSUME current[p] \in Messages, Store(current[p])
        PROVE  ToSet(topic') = ToSet(topic) \cup {current[p]}
    <3>1. topic \in Seq(Messages) /\ topic' = Append(topic, current[p])
      BY <2>2 DEF Store, TypeOK
    <3> QED
      BY <2>2, <3>1, AppendHolds
  <2> QED
    BY <1>1, <2>1, <2>2
<1>3. PICK r \in Reasons : m \in gone'[r]
  BY DEF InDoubt, EndsOf
<1>4. PICK q \in Reasons : Drop(q, {current[p]}) \/ Drop(q, Has(p))
  BY DEF ProduceFails, Stop, Has, Reasons
<1>5. m \in gone[r] \/ m \in Has(p)
  <2>1. ASSUME NEW S, Drop(q, S) PROVE gone'[r] \subseteq gone[r] \cup S
    BY <2>1 DEF Drop, TypeOK
  <2> QED
    BY <1>3, <1>4, <2>1
<1>6. m \notin Has(p)
  BY <1>2 DEF PlaceInv, EndedOnce
<1> QED
  BY <1>2, <1>3, <1>5, <1>6 DEF InDoubt, InTopic, EndsOf

\* The budgets fall only by what is spent.
LEMMA FailuresGrow ==
  ASSUME TypeOK, [Next]_vars, NEW fault \in Faults, budget[fault] <= Budget[fault]
  PROVE  /\ budget'[fault] <= Budget[fault]
         /\ Failures(fault) \in Nat /\ Failures(fault)' \in Nat
         /\ Failures(fault)' >= Failures(fault)
         /\ Spend(fault) => Failures(fault)' = Failures(fault) + 1
<1>1. budget' = budget \/ \E spent \in Faults : Spend(spent)
  BY DEF Next, LoopStep, DispatcherStep, Connect, Subscribe, Wake, Receive, Take, CheckLimit,
     CheckFailsOpen, Produce, ProduceFails, LinkFails, Stop, Publish, WindowEnds, Faults, vars
<1>2. budget[fault] \in Nat /\ Budget[fault] \in Nat
  BY IngestionAssumption DEF TypeOK
<1>3. budget'[fault] \in {budget[fault], budget[fault] - 1} /\ budget'[fault] \in Nat
  <2>1. ASSUME NEW spent \in Faults, Spend(spent)
        PROVE  budget'[fault] \in {budget[fault], budget[fault] - 1} /\ budget'[fault] \in Nat
    BY <2>1, <1>2 DEF Spend, TypeOK
  <2> QED
    BY <1>1, <1>2, <2>1
<1>4. Spend(fault) => budget'[fault] = budget[fault] - 1
  BY DEF Spend, TypeOK
<1> QED
  BY <1>2, <1>3, <1>4 DEF Failures

\* A step brings nothing into doubt, or one message at the price of a fault.
LEMMA DoubtStep ==
  ASSUME TypeOK, PlaceInv, [Next]_vars
  PROVE  \/ InDoubt' \subseteq InDoubt
         \/ \E m : /\ InDoubt' \subseteq InDoubt \cup {m}
                   /\ Spend("kafka") \/ Spend("stop")
<1>1. ASSUME NEW p \in Pods, ProduceFails(p) \/ Stop(p)
      PROVE  \E m : /\ InDoubt' \subseteq InDoubt \cup {m}
                    /\ Spend("kafka") \/ Spend("stop")
  <2>1. InDoubt' \subseteq InDoubt \cup {current[p]}
    BY <1>1, FaultDoubt
  <2>2. Spend("kafka") \/ Spend("stop")
    BY <1>1 DEF ProduceFails, Stop
  <2> QED
    BY <2>1, <2>2
<1>2. ASSUME NEW p \in Pods, Produce(p) PROVE InDoubt' \subseteq InDoubt
  BY <1>2, ProduceDoubt
<1>3. CASE \/ \E p \in Pods : LoopStep(p) \/ Take(p) \/ CheckLimit(p) \/ CheckFailsOpen(p)
                                \/ LinkFails(p)
           \/ \E m \in Messages : Publish(m)
           \/ \E d \in Devices : WindowEnds(d)
           \/ UNCHANGED vars
  <2>1. /\ UNCHANGED topic
        /\ \A r \in {"kafka_error", "shutdown"} : gone'[r] = gone[r]
    BY <1>3, OtherDrops
  <2>2. TypeOK' /\ PlaceInv'
    BY TypeStep, PlaceStep
  <2> QED
    BY <2>1, <2>2, NoNewDoubt
<1> QED
  BY <1>1, <1>2, <1>3 DEF Next, DispatcherStep

\* DoubtInv is inductive, together with PlaceInv.
LEMMA DoubtStays == TypeOK /\ PlaceInv /\ DoubtInv /\ [Next]_vars => DoubtInv'
<1> SUFFICES ASSUME TypeOK, PlaceInv, DoubtInv, [Next]_vars PROVE DoubtInv'
  OBVIOUS
<1>1. /\ IsFiniteSet(InDoubt) /\ Cardinality(InDoubt) \in Nat
      /\ Cardinality(InDoubt) <= Failures("kafka") + Failures("stop")
  BY FS_CardinalityType DEF DoubtInv, DoubtsPaid
<1>2. \A fault \in Faults :
        /\ budget'[fault] <= Budget[fault]
        /\ Failures(fault) \in Nat /\ Failures(fault)' \in Nat
        /\ Failures(fault)' >= Failures(fault)
        /\ Spend(fault) => Failures(fault)' = Failures(fault) + 1
  BY FailuresGrow DEF DoubtInv
<1> DEFINE paid == Failures("kafka") + Failures("stop")
<1>3. /\ paid \in Nat /\ paid' \in Nat /\ paid' >= paid
      /\ Spend("kafka") \/ Spend("stop") => paid' >= paid + 1
  BY <1>2 DEF Faults
<1>4. Cardinality(InDoubt) <= paid
  BY <1>1
<1> HIDE DEF paid
<1>5. ASSUME InDoubt' \subseteq InDoubt PROVE IsFiniteSet(InDoubt') /\ Cardinality(InDoubt') <= paid'
  <2>1. /\ IsFiniteSet(InDoubt') /\ Cardinality(InDoubt') \in Nat
        /\ Cardinality(InDoubt') <= Cardinality(InDoubt)
    BY <1>1, <1>5, FS_Subset, FS_CardinalityType
  <2> QED
    BY <1>1, <1>3, <1>4, <2>1
<1>6. ASSUME NEW m, InDoubt' \subseteq InDoubt \cup {m}, Spend("kafka") \/ Spend("stop")
      PROVE  IsFiniteSet(InDoubt') /\ Cardinality(InDoubt') <= paid'
  <2>1. /\ IsFiniteSet(InDoubt \cup {m}) /\ Cardinality(InDoubt \cup {m}) \in Nat
        /\ Cardinality(InDoubt \cup {m}) <= Cardinality(InDoubt) + 1
    <3>1. IsFiniteSet(InDoubt \cup {m})
      BY <1>1, FS_AddElement
    <3>2. \/ Cardinality(InDoubt \cup {m}) = Cardinality(InDoubt)
          \/ Cardinality(InDoubt \cup {m}) = Cardinality(InDoubt) + 1
      BY <1>1, FS_AddElement
    <3> QED
      BY <1>1, <3>1, <3>2
  <2>2. /\ IsFiniteSet(InDoubt') /\ Cardinality(InDoubt') \in Nat
        /\ Cardinality(InDoubt') <= Cardinality(InDoubt \cup {m})
    BY <1>6, <2>1, FS_Subset, FS_CardinalityType
  <2> QED
    BY <1>1, <1>3, <1>4, <1>6, <2>1, <2>2
<1>7. IsFiniteSet(InDoubt') /\ Cardinality(InDoubt') <= paid'
  BY <1>5, <1>6, DoubtStep
<1> QED
  BY <1>2, <1>7 DEF DoubtInv, DoubtsPaid, paid

LEMMA DoubtInit == Init => DoubtInv
<1> SUFFICES ASSUME Init PROVE DoubtInv
  OBVIOUS
<1>1. InDoubt = {}
  BY DEF Init, InDoubt, EndsOf
<1>2. \A fault \in Faults : budget[fault] = Budget[fault] /\ Budget[fault] \in Nat
  BY IngestionAssumption DEF Init
<1>3. Failures("kafka") = 0 /\ Failures("stop") = 0
  BY <1>2 DEF Failures, Faults
<1> QED
  BY <1>1, <1>2, <1>3, FS_EmptySet DEF DoubtInv, DoubtsPaid

\* The counters of what is dropped err by at most one message for each produce
\* that failed and each pod that ended: everything else they count is gone.
THEOREM DoubtsAlwaysPaid == Spec => []DoubtsPaid
<1>1. Init => TypeOK /\ PlaceInv /\ DoubtInv
  BY InitType, PlaceInit, DoubtInit
<1>2. TypeOK /\ PlaceInv /\ DoubtInv /\ [Next]_vars => (TypeOK /\ PlaceInv /\ DoubtInv)'
  BY TypeStep, PlaceStep, DoubtStays
<1>3. DoubtInv => DoubtsPaid
  BY DEF DoubtInv
<1> QED
  BY <1>1, <1>2, <1>3, PTL DEF Spec
=============================================================================
