------------------------------- MODULE Relay --------------------------------
(***************************************************************************)
(* What the ingestion service promises about the messages of the devices,  *)
(* without its connections, queues, handlers and limits: each message goes *)
(* into one of a few lines, or nowhere; a line may lose some of its        *)
(* messages at any time, but it never repeats one and never changes their  *)
(* order; what comes out of a line ends up in the topic.  A loss may be    *)
(* reported of a message that went through.  Module Ingestion implements   *)
(* this with one line per pod.                                             *)
(***************************************************************************)
EXTENDS Integers, Sequences, SequencesExt

CONSTANTS Lines, Messages

VARIABLES
  sent,   \* messages in the order they were sent
  line,   \* messages on their way, by line
  topic,  \* messages that have arrived, in that order
  lost    \* messages reported as lost

vars == <<sent, line, topic, lost>>

Init ==
  /\ sent = <<>>
  /\ line = [l \in Lines |-> <<>>]
  /\ topic = <<>>
  /\ lost = {}

Send(m) ==
  /\ m \notin ToSet(sent)
  /\ sent' = Append(sent, m)
  /\ \/ \E l \in Lines : line' = [line EXCEPT ![l] = Append(@, m)] /\ UNCHANGED lost
     \/ lost' = lost \cup {m} /\ UNCHANGED line
  /\ UNCHANGED topic

\* The first message of a line arrives; a lost answer makes it look lost.
Arrive(l) ==
  /\ line[l] # <<>>
  /\ topic' = Append(topic, Head(line[l]))
  /\ line' = [line EXCEPT ![l] = Tail(@)]
  /\ lost' \in {lost, lost \cup {Head(line[l])}}
  /\ UNCHANGED sent

\* A sequence without its elements from i to j.
Without(s, i, j) ==
  LET n == j + 1 - i
  IN  [k \in 1..(Len(s) - n) |-> IF k < i THEN s[k] ELSE s[k + n]]

\* Messages next to each other in a line are lost; the others keep their order.
Lose(l) ==
  /\ \E i \in 1..Len(line[l]) : \E j \in i..Len(line[l]) :
       /\ line' = [line EXCEPT ![l] = Without(@, i, j)]
       /\ lost' = lost \cup {line[l][k] : k \in i..j}
  /\ UNCHANGED <<sent, topic>>

\* A line is cut while its first message arrives.
Cut(l) ==
  /\ line[l] # <<>>
  /\ topic' = Append(topic, Head(line[l]))
  /\ line' = [line EXCEPT ![l] = <<>>]
  /\ lost' = lost \cup ToSet(line[l])
  /\ UNCHANGED sent

Next ==
  \/ \E m \in Messages : Send(m)
  \/ \E l \in Lines : Arrive(l) \/ Lose(l) \/ Cut(l)

Spec == Init /\ [][Next]_vars
=============================================================================
