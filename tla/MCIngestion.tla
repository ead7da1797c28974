---------------------------- MODULE MCIngestion ----------------------------
(***************************************************************************)
(* Instances of Ingestion for TLC.  Messages m1 and m2 come from one       *)
(* device and the others from another, or all come from one; m4 may be     *)
(* malformed.                                                              *)
(***************************************************************************)
EXTENDS Ingestion, TLC

CONSTANTS p1, p2, d1, d2, m1, m2, m3, m4,
          Network, Redis, Kafka, Stops  \* how many faults of each kind

FaultBudget ==
  "network" :> Network @@ "redis" :> Redis @@ "kafka" :> Kafka @@ "stop" :> Stops

AllEvents == [m \in Messages |-> "event"]
OneSchema == [m \in Messages |-> IF m = m4 THEN "schema" ELSE "event"]
OneRaises == [m \in Messages |-> IF m = m4 THEN "raises" ELSE "event"]

SameDevice == [m \in Messages |-> d1]
TwoDevices == [m \in Messages |-> IF m \in {m1, m2} THEN d1 ELSE d2]
=============================================================================
