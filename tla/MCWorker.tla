------------------------------ MODULE MCWorker ------------------------------
(***************************************************************************)
(* Small instances of Worker for TLC.  Events are named for their kind:    *)
(* each configuration chooses a log and a budget of faults.                *)
(***************************************************************************)
EXTENDS Worker, TLC

CONSTANTS p1, p2, a, b, low, bad, dev, odd, null, num, list, junk, late, d1, d2

(***************************************************************************)
(* What each event is: low has the id of another event in lower case, and  *)
(* dev has a device_id that is no string.                                  *)
(***************************************************************************)
Cast ==
  a :> "valid" @@ b :> "valid" @@ odd :> "unstorable" @@ bad :> "invalid" @@
  null :> "nullid" @@ num :> "badid" @@ list :> "notdict" @@
  junk :> "poison" @@ late :> "unpartitioned" @@ low :> "unstorable" @@ dev :> "invalid"

MCKind == [e \in Events |-> Cast[e]]
MCUpper == [e \in Events |-> IF e # low THEN e ELSE IF a \in Events THEN a ELSE late]
MCUnrecordable == {null, dev} \cap Events
MCDeviceOf == [e \in Events |-> IF e = low THEN d2 ELSE d1]
MCStampOf == [e \in Events |-> IF e = a THEN 1 ELSE 2]

(***************************************************************************)
(* Logs.                                                                   *)
(***************************************************************************)
LogOne == p1 :> <<a>>
LogTwo == p1 :> <<a, b>>
LogBad == p1 :> <<bad>>
LogNum == p1 :> <<num, a>>
LogJunk == p1 :> <<junk, a>>
LogTwice == p1 :> <<a, a>>
LogTwoPartitions == p1 :> <<a, a>> @@ p2 :> <<low>>
LogRestart == p1 :> <<a, junk>>
LogProcess == p1 :> <<a, odd>>
LogKinds == p1 :> <<low, late, bad, dev, num, null, list, junk>>
LogLow == p1 :> <<low>>

(***************************************************************************)
(* Budgets: no fault at all, and one fault of each of the kinds named.     *)
(***************************************************************************)
NoFaults == [f \in Faults |-> 0]
OneEachOf(S) == [f \in Faults |-> IF f \in S THEN 1 ELSE 0]

GroupFaults == OneEachOf({"rebalance", "crash", "commit"})
OnlyCrash == OneEachOf({"crash"})
OnlyRedis == OneEachOf({"redis"})
OnlyDlq == OneEachOf({"kafka", "db"})
RestartFaults == OneEachOf({"crash", "db"})
ProcessFaults == OneEachOf({"crash", "evict", "rebalance", "fetch"})
StoreFaults == [OneEachOf(Faults \ {"crash"}) EXCEPT !["db"] = 2]

Symmetry == Permutations(Tasks) \cup Permutations(Workers)
=============================================================================
