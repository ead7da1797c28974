--------------------------- MODULE DeliveryLedger ---------------------------
(***************************************************************************)
(* What the worker service promises about the events of a topic, without   *)
(* its processes, tasks, keys and tables: an event is open while some      *)
(* worker holds it, and closes only with an outcome.  An outcome is a row, *)
(* a dead letter, or an excuse (the process ended, or every dead letter    *)
(* sink failed).  A further row needs a charge: something defeated the     *)
(* deduplication of the event.  An offset is committed only past records   *)
(* that are open or have an outcome.  Module Worker implements this.       *)
(***************************************************************************)
EXTENDS Integers, Sequences

CONSTANTS
  Partitions,  \* partitions of the topic
  Events,      \* event ids
  Storable,    \* the events that parse and that the database can store
  Log          \* the records of each partition, in offset order

VARIABLES
  committed,   \* the committed offset of each partition
  open,        \* events some worker holds and has not decided about
  copies,      \* rows of each event
  dead,        \* events with a dead letter
  excused,     \* events given up
  charges      \* how often the deduplication of an event was defeated

vars == <<committed, open, copies, dead, excused, charges>>

Resolved(e) == copies[e] > 0 \/ e \in dead \/ e \in excused

Init ==
  /\ committed = [p \in Partitions |-> 1]
  /\ open = {}
  /\ copies = [e \in Events |-> 0]
  /\ dead = {}
  /\ excused = {}
  /\ charges = [e \in Events |-> 0]

\* A worker takes a record of the event.
Take(e) ==
  /\ open' = open \cup {e}
  /\ UNCHANGED <<committed, copies, dead, excused, charges>>

\* The worker that had the event may have been the last one.
MayClose(e) == open' = open \/ open' = open \ {e}

Store(e) ==
  /\ e \in open \cap Storable
  /\ copies' = [copies EXCEPT ![e] = @ + 1]
  /\ charges' = charges \/ charges' = [charges EXCEPT ![e] = @ + 1]
  /\ copies'[e] <= 1 + charges'[e]
  /\ MayClose(e)
  /\ UNCHANGED <<committed, dead, excused>>

Bury(e) ==
  /\ e \in open
  /\ dead' = dead \cup {e}
  /\ MayClose(e)
  /\ UNCHANGED <<committed, copies, excused, charges>>

\* A worker finds that the event has its outcome already.
Close(e) ==
  /\ Resolved(e)
  /\ open' = open \ {e}
  /\ UNCHANGED <<committed, copies, dead, excused, charges>>

\* A process ends with events it holds, or no sink takes a dead letter.
GiveUp(S) ==
  /\ excused' = excused \cup S
  /\ open' \subseteq open /\ open \ S \subseteq open'
  /\ UNCHANGED <<committed, copies, dead, charges>>

Charge(e) ==
  /\ charges' = [charges EXCEPT ![e] = @ + 1]
  /\ UNCHANGED <<committed, open, copies, dead, excused>>

Commit(p, o) ==
  /\ \A i \in 1..o : Log[p][i] \in open \/ Resolved(Log[p][i])
  /\ committed' = [committed EXCEPT ![p] = o + 1]
  /\ UNCHANGED <<open, copies, dead, excused, charges>>

Next ==
  \/ \E e \in Events : Take(e) \/ Store(e) \/ Bury(e) \/ Close(e) \/ Charge(e)
  \/ \E S \in SUBSET open : GiveUp(S)
  \/ \E p \in Partitions : \E o \in 1..Len(Log[p]) : Commit(p, o)

Spec == Init /\ [][Next]_vars

-----------------------------------------------------------------------------
TypeOK ==
  /\ committed \in [Partitions -> Nat \ {0}]
  /\ open \subseteq Events
  /\ copies \in [Events -> Nat]
  /\ dead \subseteq Events
  /\ excused \subseteq Events
  /\ charges \in [Events -> Nat]

\* What the ledger is for: whatever is committed past has an outcome or is still
\* open (the at-least-once delivery of consumer.py:5), an event that cannot be
\* stored has no row, and no row is more than its charges account for.
Honest ==
  /\ \A p \in Partitions : \A o \in 1..Len(Log[p]) :
       o < committed[p] => Log[p][o] \in open \/ Resolved(Log[p][o])
  /\ \A e \in Events :
       copies[e] <= (IF e \in Storable THEN 1 + charges[e] ELSE 0)
=============================================================================
