----------------------------- MODULE Ingestion -----------------------------
(***************************************************************************)
(* The ingestion service (apps/ingestion/main.py, handlers.py): in every   *)
(* pod a subscriber loop reads MQTT messages into a bounded queue, and one *)
(* dispatcher takes them through the handlers to Kafka.  The MQTT broker,  *)
(* the Kafka topic and the limiter's Redis counters are shared by the      *)
(* pods; module RateLimiter models the counters in time.                   *)
(*                                                                         *)
(* Between two awaits of the code nothing interleaves, so logging and      *)
(* validation are part of the step that takes a message off the queue.     *)
(***************************************************************************)
EXTENDS Integers, Sequences, FiniteSets, SequencesExt

CONSTANTS
  Pods,
  Devices,
  Messages,         \* MQTT messages the devices publish
  Kind,             \* what validation makes of a message (see Kinds)
  TopicDevice,      \* the device named by a message's MQTT topic
  EventDevice,      \* the device_id in a message's payload
  RawPayloadBound,  \* whether the name raw_payload of handlers.py:47 is bound
  QueueSize,        \* maxsize of _MSG_QUEUE
  Limit,            \* settings.RATE_LIMIT_MAX_EVENTS
  DelayMin,         \* settings.MQTT_RECONNECT_DELAY_MIN
  DelayMax,         \* settings.MQTT_RECONNECT_DELAY_MAX
  Budget,           \* how many faults of each kind may happen
  NoMsg

(***************************************************************************)
(* "event" is a valid IoTEvent, "schema" makes IoTEvent(...) raise a       *)
(* ValidationError, and "raises" makes it raise something else (a          *)
(* timestamp that astimezone cannot convert).                              *)
(***************************************************************************)
Kinds == {"event", "schema", "raises"}

\* "network": an MQTT connection fails or is lost.  "redis": the limiter's
\* call raises.  "kafka": a produce raises.  "stop": a pod ends and restarts.
Faults == {"network", "redis", "kafka", "stop"}

(***************************************************************************)
(* Where a message that does not reach Kafka ends: with one of the four    *)
(* EVENTS_DROPPED reasons, in the dispatcher's catch-all ("error"), or     *)
(* uncounted: nobody is subscribed ("offline"), its connection goes before *)
(* the loop reads it ("link"), or its process ends ("shutdown").           *)
(***************************************************************************)
Reasons == {"queue_full", "schema_error", "rate_limited", "kafka_error",
            "error", "offline", "link", "shutdown"}

ASSUME IngestionAssumption ==
  /\ Kind \in [Messages -> Kinds]
  /\ TopicDevice \in [Messages -> Devices]
  /\ EventDevice \in [Messages -> Devices]
  /\ RawPayloadBound \in BOOLEAN
  /\ QueueSize \in Nat \ {0} /\ Limit \in Nat
  /\ DelayMin \in Nat \ {0} /\ DelayMax \in Nat /\ DelayMin <= DelayMax
  /\ Budget \in [Faults -> Nat]
  /\ NoMsg \notin Messages

VARIABLES
  published,  \* messages in the order the devices published them
  link,       \* where the subscriber loop of a pod is
  delay,      \* its reconnect delay
  inbox,      \* messages sent to the pod that its loop has not read
  queue,      \* _MSG_QUEUE
  stage,      \* the await the dispatcher of a pod is at
  current,    \* the message it has in the handlers
  count,      \* the limiter's counter of a device
  topic,      \* iot.events.raw
  gone,       \* history: messages that ended elsewhere, by reason
  budget      \* faults that may still happen

loopVars     == <<link, delay>>
dispatchVars == <<queue, stage, current>>
vars == <<published, loopVars, inbox, dispatchVars, count, topic, gone, budget>>

Init ==
  /\ published = <<>>
  /\ link = [p \in Pods |-> "connecting"]
  /\ delay = [p \in Pods |-> DelayMin]
  /\ inbox = [p \in Pods |-> <<>>]
  /\ queue = [p \in Pods |-> <<>>]
  /\ stage = [p \in Pods |-> "get"]
  /\ current = [p \in Pods |-> NoMsg]
  /\ count = [d \in Devices |-> 0]
  /\ topic = <<>>
  /\ gone = [r \in Reasons |-> {}]
  /\ budget = Budget

Spend(fault) ==
  /\ budget[fault] > 0
  /\ budget' = [budget EXCEPT ![fault] = @ - 1]

Drop(reason, msgs) == gone' = [gone EXCEPT ![reason] = @ \cup msgs]

-----------------------------------------------------------------------------
(***************************************************************************)
(* _mqtt_subscriber_loop.  All pods use the identifier                     *)
(* "<SERVICE_NAME>-subscriber", and the broker keeps one connection per    *)
(* identifier: the latest.  The session is clean: what the broker has for  *)
(* a connection goes with it.                                              *)
(***************************************************************************)

HasSession(p) == link[p] \in {"connected", "open"}
Unread(p) == ToSet(inbox[p])

\* The connection of a client ends: MqttError, and the loop sleeps.
Disconnect(ps) ==
  /\ inbox' = [p \in Pods |-> IF p \in ps THEN <<>> ELSE inbox[p]]
  /\ Drop("link", UNION {Unread(p) : p \in ps})

Connect(p) ==
  /\ link[p] = "connecting"
  /\ LET others == {q \in Pods : HasSession(q)} IN
       /\ link' = [q \in Pods |-> IF q = p THEN "connected"
                                  ELSE IF q \in others THEN "sleeping" ELSE link[q]]
       /\ Disconnect(others)
  /\ delay' = [delay EXCEPT ![p] = DelayMin]
  /\ UNCHANGED <<published, dispatchVars, count, topic, budget>>

Subscribe(p) ==
  /\ link[p] = "connected"
  /\ link' = [link EXCEPT ![p] = "open"]
  /\ UNCHANGED <<published, delay, inbox, dispatchVars, count, topic, gone, budget>>

\* The connection cannot be made, or breaks.
LinkFails(p) ==
  /\ link[p] # "sleeping"
  /\ Spend("network")
  /\ link' = [link EXCEPT ![p] = "sleeping"]
  /\ Disconnect({p})
  /\ UNCHANGED <<published, delay, dispatchVars, count, topic>>

\* A variant: the loop ends on MqttError, as it does when cancelled.
WakeCancelled(p) ==
  /\ link[p] = "sleeping"
  /\ link' = [link EXCEPT ![p] = "cancelled"]
  /\ UNCHANGED <<published, delay, inbox, dispatchVars, count, topic, gone, budget>>

\* The sleep is over: the next one will be twice as long.
Wake(p) ==
  /\ link[p] = "sleeping"
  /\ link' = [link EXCEPT ![p] = "connecting"]
  /\ delay' = [delay EXCEPT ![p] = IF 2 * @ < DelayMax THEN 2 * @ ELSE DelayMax]
  /\ UNCHANGED <<published, inbox, dispatchVars, count, topic, gone, budget>>

\* A device publishes: the broker forwards the message to the subscriber.
Publish(m) ==
  /\ m \notin ToSet(published)
  /\ published' = Append(published, m)
  /\ \/ \E p \in Pods :
          /\ link[p] = "open"
          /\ inbox' = [inbox EXCEPT ![p] = Append(@, m)]
          /\ UNCHANGED gone
     \/ /\ \A p \in Pods : link[p] # "open"
        /\ Drop("offline", {m})
        /\ UNCHANGED inbox
  /\ UNCHANGED <<loopVars, dispatchVars, count, topic, budget>>

\* Variants: an overflowing message is queued too, or pushed to the front.
EnqueueAlways(p, m) ==
  queue' = [queue EXCEPT ![p] = Append(@, m)] /\ UNCHANGED gone
EnqueueAtFront(p, m) ==
  \/ Len(queue[p]) < QueueSize /\ queue' = [queue EXCEPT ![p] = <<m>> \o @] /\ UNCHANGED gone
  \/ Len(queue[p]) = QueueSize /\ Drop("queue_full", {m}) /\ UNCHANGED queue

\* A variant: an overflowing message is counted as dropped, and queued.
EnqueueCounting(p, m) ==
  /\ queue' = [queue EXCEPT ![p] = Append(@, m)]
  /\ IF Len(queue[p]) < QueueSize THEN UNCHANGED gone ELSE Drop("queue_full", {m})

\* put_nowait, or QueueFull.
Enqueue(p, m) ==
  \/ Len(queue[p]) < QueueSize /\ queue' = [queue EXCEPT ![p] = Append(@, m)] /\ UNCHANGED gone
  \/ Len(queue[p]) = QueueSize /\ Drop("queue_full", {m}) /\ UNCHANGED queue

Receive(p) ==
  /\ inbox[p] # <<>>
  /\ Enqueue(p, Head(inbox[p]))
  /\ inbox' = [inbox EXCEPT ![p] = Tail(@)]
  /\ UNCHANGED <<published, loopVars, stage, current, count, topic, budget>>

-----------------------------------------------------------------------------
(***************************************************************************)
(* _message_dispatcher, and the four handlers it runs for a message.       *)
(***************************************************************************)

\* A variant: the dispatcher does not catch what a handler raises, and ends.
RaiseUncaught(p, m) ==
  /\ Drop("error", {m})
  /\ stage' = [stage EXCEPT ![p] = "ended"]

\* "except Exception": logged, and on to the next message.
Raise(p, m) ==
  /\ Drop("error", {m})
  /\ UNCHANGED stage

\* LoggingHandler uses raw_payload, or ValidationHandler meets an exception
\* that is not a ValidationError.
HandlersRaise(m) == ~RawPayloadBound \/ Kind[m] = "raises"

Take(p) ==
  /\ stage[p] = "get"
  /\ queue[p] # <<>>
  /\ queue' = [queue EXCEPT ![p] = Tail(@)]
  /\ LET m == Head(queue[p]) IN
       \/ /\ HandlersRaise(m)
          /\ Raise(p, m)
          /\ UNCHANGED current
       \/ /\ ~HandlersRaise(m) /\ Kind[m] = "schema"
          /\ Drop("schema_error", {m})
          /\ UNCHANGED <<stage, current>>
       \/ /\ ~HandlersRaise(m) /\ Kind[m] = "event"
          /\ stage' = [stage EXCEPT ![p] = "limit"]
          /\ current' = [current EXCEPT ![p] = m]
          /\ UNCHANGED gone
  /\ UNCHANGED <<published, loopVars, inbox, count, topic, budget>>

\* A variant: the limiter's key does not name the device.
LimiterKeyShared(m) == CHOOSE d \in Devices : TRUE

\* The limiter's key names the device of the MQTT topic.
LimiterKey(m) == TopicDevice[m]

CountCall(m) == count' = [count EXCEPT ![LimiterKey(m)] = @ + 1]

\* The handlers are done with the message, and the dispatcher with them.
Done(p) ==
  /\ stage' = [stage EXCEPT ![p] = "get"]
  /\ current' = [current EXCEPT ![p] = NoMsg]

Admit(p) ==
  /\ stage' = [stage EXCEPT ![p] = "produce"]
  /\ UNCHANGED <<current, gone>>

CheckLimit(p) ==
  /\ stage[p] = "limit"
  /\ CountCall(current[p])
  /\ \/ /\ count[LimiterKey(current[p])] < Limit
        /\ Admit(p)
     \/ /\ count[LimiterKey(current[p])] >= Limit
        /\ Drop("rate_limited", {current[p]})
        /\ Done(p)
  /\ UNCHANGED <<published, loopVars, inbox, queue, topic, budget>>

\* Redis fails, whether or not the script ran: is_allowed returns True.
CheckFailsOpen(p) ==
  /\ stage[p] = "limit"
  /\ Spend("redis")
  /\ CountCall(current[p]) \/ UNCHANGED count
  /\ Admit(p)
  /\ UNCHANGED <<published, loopVars, inbox, queue, topic>>

\* The window of a device ends, or Redis evicts its counter.
WindowEnds(d) ==
  /\ count[d] > 0
  /\ count' = [count EXCEPT ![d] = 0]
  /\ UNCHANGED <<published, loopVars, inbox, dispatchVars, topic, gone, budget>>

\* A variant: produce() repeats a send that Kafka has already answered.
StoreTwice(m) == topic' = topic \o <<m, m>>

\* The broker has the record: send_and_wait returns, or would.
Store(m) == topic' = Append(topic, m)

Produce(p) ==
  /\ stage[p] = "produce"
  /\ Store(current[p])
  /\ Done(p)
  /\ UNCHANGED <<published, loopVars, inbox, queue, count, gone, budget>>

\* produce() raises, whether or not Kafka stored the record: no second try.
ProduceFails(p) ==
  /\ stage[p] = "produce"
  /\ Spend("kafka")
  /\ Store(current[p]) \/ UNCHANGED topic
  /\ Drop("kafka_error", {current[p]})
  /\ Done(p)
  /\ UNCHANGED <<published, loopVars, inbox, queue, count>>

(***************************************************************************)
(* A pod ends, by SIGTERM (the lifespan cancels the three tasks) or in a   *)
(* crash, and starts anew.  The queue is memory.  A call under way to      *)
(* Redis or Kafka may have had its effect.                                 *)
(***************************************************************************)
Stop(p) ==
  /\ Spend("stop")
  /\ Drop("shutdown", Unread(p) \cup ToSet(queue[p]) \cup ({current[p]} \ {NoMsg}))
  /\ \/ UNCHANGED <<count, topic>>
     \/ stage[p] = "limit" /\ CountCall(current[p]) /\ UNCHANGED topic
     \/ stage[p] = "produce" /\ Store(current[p]) /\ UNCHANGED count
  /\ link' = [link EXCEPT ![p] = "connecting"]
  /\ delay' = [delay EXCEPT ![p] = DelayMin]
  /\ inbox' = [inbox EXCEPT ![p] = <<>>]
  /\ queue' = [queue EXCEPT ![p] = <<>>]
  /\ Done(p)
  /\ UNCHANGED published

-----------------------------------------------------------------------------
LoopStep(p) == Connect(p) \/ Subscribe(p) \/ Wake(p) \/ Receive(p)
DispatcherStep(p) == Take(p) \/ CheckLimit(p) \/ CheckFailsOpen(p) \/ Produce(p) \/ ProduceFails(p)

Next ==
  \/ \E p \in Pods : LoopStep(p) \/ DispatcherStep(p) \/ LinkFails(p) \/ Stop(p)
  \/ \E m \in Messages : Publish(m)
  \/ \E d \in Devices : WindowEnds(d)

\* The event loop of a pod runs both coroutines; the broker answers connects.
Fairness ==
  \A p \in Pods :
    /\ WF_vars(Connect(p)) /\ WF_vars(Subscribe(p)) /\ WF_vars(Wake(p))
    /\ WF_vars(Receive(p)) /\ WF_vars(DispatcherStep(p))

Spec == Init /\ [][Next]_vars
FairSpec == Spec /\ Fairness

-----------------------------------------------------------------------------
\* Every variable has its type: in particular the queue never holds more than
\* its size, and the delay stays between its bounds.
TypeOK ==
  /\ published \in Seq(Messages)
  /\ link \in [Pods -> {"connecting", "connected", "open", "sleeping"}]
  /\ delay \in [Pods -> DelayMin..DelayMax]
  /\ inbox \in [Pods -> Seq(Messages)]
  /\ queue \in [Pods -> Seq(Messages)]
  /\ \A p \in Pods : Len(queue[p]) <= QueueSize
  /\ stage \in [Pods -> {"get", "limit", "produce"}]
  /\ current \in [Pods -> Messages \cup {NoMsg}]
  /\ \A p \in Pods : stage[p] = "get" <=> current[p] = NoMsg
  /\ count \in [Devices -> Nat]
  /\ topic \in Seq(Messages)
  /\ gone \in [Reasons -> SUBSET Messages]
  /\ budget \in [Faults -> Nat]

\* Where a message is inside the service, or how it ended there.
PodsWith(m) ==
  {p \in Pods : m \in Unread(p) \cup ToSet(queue[p]) \cup {current[p]}}
EndsOf(m) == {r \in Reasons : m \in gone[r]}
InTopic(m) == m \in ToSet(topic)

\* No message is duplicated or disappears unseen on its way: a published one is
\* in exactly one pod, or stored once, or ended for exactly one reason, also
\* across reconnects, takeovers and restarts; only a produce that failed or
\* was cut off leaves it open whether Kafka stored it (kafka_error, shutdown).
OnePlace ==
  /\ \A i, j \in 1..Len(topic) : topic[i] = topic[j] => i = j
  /\ \A m \in ToSet(published) :
       /\ Cardinality(PodsWith(m)) + Cardinality(EndsOf(m)) =
            (IF InTopic(m) /\ EndsOf(m) = {} THEN 0 ELSE 1)
       /\ InTopic(m) => EndsOf(m) \subseteq {"kafka_error", "shutdown"}

(***************************************************************************)
(* Why OnePlace holds: nothing is anywhere that was not published, a       *)
(* message is once in one pod, and what is stored or has ended is in none. *)
(***************************************************************************)
Has(p) == Unread(p) \cup ToSet(queue[p]) \cup ({current[p]} \ {NoMsg})

OnlyPublished ==
  /\ \A p \in Pods : Has(p) \subseteq ToSet(published)
  /\ ToSet(topic) \subseteq ToSet(published)
  /\ \A r \in Reasons : gone[r] \subseteq ToSet(published)

OnceIn(p) ==
  /\ IsInjective(inbox[p]) /\ IsInjective(queue[p])
  /\ Unread(p) \cap ToSet(queue[p]) = {}
  /\ current[p] \notin Unread(p) \cup ToSet(queue[p])
OnceInPod == \A p \in Pods : OnceIn(p)

OnePod == \A p, q \in Pods : p # q => Has(p) \cap Has(q) = {}

EndedOnce ==
  /\ IsInjective(topic)
  /\ \A r, s \in Reasons : r # s => gone[r] \cap gone[s] = {}
  /\ \A r \in Reasons \ {"kafka_error", "shutdown"} : gone[r] \cap ToSet(topic) = {}
  /\ \A p \in Pods : Has(p) \cap ToSet(topic) = {} /\ \A r \in Reasons : Has(p) \cap gone[r] = {}

NoneMissing ==
  \A m \in ToSet(published) :
    (\E p \in Pods : m \in Has(p)) \/ InTopic(m) \/ EndsOf(m) # {}

PlaceInv == OnlyPublished /\ OnceInPod /\ OnePod /\ EndedOnce /\ NoneMissing

\* What is counted as dropped is gone, but for one message per produce that
\* failed and per process that ended, which Kafka may have stored all the same
\* (kafka_producer.py:84): a lost connection, a full queue, the limiter and the
\* rest of what a process took with it leave nothing in doubt.
Failures(fault) == Budget[fault] - budget[fault]
InDoubt == {m \in Messages : InTopic(m) /\ EndsOf(m) # {}}
DoubtsPaid == Cardinality(InDoubt) <= Failures("kafka") + Failures("stop")

\* Why it holds, besides PlaceInv: each message in doubt has a fault of its own.
DoubtInv ==
  /\ IsFiniteSet(InDoubt)
  /\ DoubtsPaid
  /\ \A fault \in Faults : budget[fault] <= Budget[fault]

\* A device is not made to pay for others: an event is rate limited only after
\* Limit other events of the same topic got through the limiter, or went with a
\* process that ended (rate_limiter.py:48, the key is per device; handlers.py:79).
GotPast(m) ==
  \/ InTopic(m)
  \/ EndsOf(m) \cap {"kafka_error", "shutdown"} # {}
  \/ \E p \in Pods : current[p] = m /\ stage[p] = "produce"
PastLimiter(d) == {m \in Messages : TopicDevice[m] = d /\ GotPast(m)}
LimitedAfterLimit ==
  \A m \in gone["rate_limited"] : Cardinality(PastLimiter(TopicDevice[m])) >= Limit

\* Why it holds: what the counter of a device counts, up to the limit, has got
\* past the limiter, and stays past it when the window ends.
LimitInv ==
  LimitedAfterLimit
    /\ \A d \in Devices : count[d] <= Cardinality(PastLimiter(d))
                           \/ Limit <= Cardinality(PastLimiter(d))

Before(seq, m, n) ==
  \E i, j \in 1..Len(seq) : i < j /\ seq[i] = m /\ seq[j] = n

\* The records of a device are in the topic in the order the device published
\* them, whatever was dropped in between (data_model.md:112, "ensures ordering
\* per device").  One pod keeps it; two do not.
DeviceOrder ==
  \A m, n \in ToSet(topic) :
    EventDevice[m] = EventDevice[n] /\ Before(topic, m, n) => Before(published, m, n)

\* Every message a device publishes comes to an end, however the subscriber
\* and the handlers fail on the way: the dispatcher survives what it raises.
EveryMessageSettles ==
  \A m \in Messages : m \in ToSet(published) ~> InTopic(m) \/ EndsOf(m) # {}

\* Once the faults stop the service is subscribed for good.  One pod is; two
\* take the identifier from each other for ever.
SubscriptionSettles == <>[](\E p \in Pods : link[p] = "open")

-----------------------------------------------------------------------------
\* The messages a pod has, the one furthest on its way first.
OnTheWay(p) == (IF current[p] = NoMsg THEN <<>> ELSE <<current[p]>>) \o queue[p] \o inbox[p]
Ways == [p \in Pods |-> OnTheWay(p)]

Lost == UNION {gone[r] : r \in Reasons}

Line == INSTANCE Relay WITH Lines <- Pods, sent <- published, line <- Ways, lost <- Lost

\* A pod is a line that loses messages but neither repeats nor reorders them:
\* its connection, its queue and its handlers hand on what they have in order,
\* and what leaves one of them without reaching Kafka is accounted for at the
\* very step (main.py:202-247, kafka_producer.py:84).
ImplementsRelay == Line!Spec

\* Why DeviceOrder holds with one pod: what is in the topic, then what is on
\* its way, are in the order of publication.
InOrder(seq) == \A i, j \in 1..Len(seq) : i < j => Before(published, seq[i], seq[j])
OrderInv ==
  /\ InOrder(topic)
  /\ \A p \in Pods :
       /\ InOrder(OnTheWay(p))
       /\ \A i \in 1..Len(topic), j \in 1..Len(OnTheWay(p)) :
            Before(published, topic[i], OnTheWay(p)[j])

\* Why one connection at a time cuts only one line: the pods share the identifier.
OneSession == \A p, q \in Pods : HasSession(p) /\ HasSession(q) => p = q

-----------------------------------------------------------------------------
(***************************************************************************)
(* What comments and documents promise and the code does not keep.         *)
(***************************************************************************)

\* main.py:235: a message is validated, rate limited and produced; a valid
\* event never ends in the dispatcher's catch-all.
ValidNeverRaises == \A m \in gone["error"] : Kind[m] # "event"

\* retry_dlq_design.md:163 and failover_analysis.md:38: a full queue pushes
\* back on the broker, and nothing is dropped.
FullQueuePushesBack == gone["queue_full"] = {}

\* retry_dlq_design.md:88: QoS 1 delivers at least once, so a service that has
\* been subscribed misses nothing of what is published while it reconnects.
OfflineMissesNothing ==
  \A i \in 1..Len(published) :
    published[i] \in gone["offline"] => published[1] \in gone["offline"]
=============================================================================
