----------------------- MODULE IdempotencyBatchProofs -----------------------
(***************************************************************************)
(* Proofs about IdempotencyBatch, for any callers, ids, lists and budgets  *)
(* of faults.                                                              *)
(***************************************************************************)
EXTENDS IdempotencyBatch, FiniteSetTheorems, TLAPS

-----------------------------------------------------------------------------
(***************************************************************************)
(* What the positions of a list are.                                       *)
(***************************************************************************)

\* A list is a sequence of ids, and the replies to it are no longer.
LEMMA Lists ==
  ASSUME TypeOK, NEW c \in Callers
  PROVE  /\ batch[c] \in Seq(Events)
         /\ replies[c] \in Seq(Replies)
         /\ Len(batch[c]) \in Nat /\ Len(replies[c]) \in Nat
         /\ DOMAIN batch[c] = 1..Len(batch[c])
         /\ DOMAIN replies[c] = 1..Len(replies[c])
         /\ Len(replies[c]) <= Len(batch[c])
<1>1. batch[c] \in Batches \cup {<<>>} /\ replies[c] \in Seq(Replies)
  BY DEF TypeOK
<1>2. batch[c] \in Seq(Events)
  <2>1. <<>> \in Seq(Events)
    OBVIOUS
  <2> QED
    BY <1>1, <2>1, BatchAssumption
<1> QED
  BY <1>1, <1>2 DEF TypeOK

\* A call without a list has no replies; a call with one that is not fully
\* answered has a next id.
LEMMA NextIdType ==
  ASSUME TypeOK, NEW c \in Callers
  PROVE  /\ ~Calling(c) => batch[c] = <<>> /\ replies[c] = <<>>
         /\ Calling(c) /\ ~Answered(c) =>
              NextId(c) \in Events /\ Len(replies[c]) + 1 \in 1..Len(batch[c])
<1>1. ~Calling(c) => batch[c] = <<>> /\ replies[c] = <<>>
  BY Lists DEF Calling
<1>2. ASSUME Calling(c), ~Answered(c)
      PROVE  NextId(c) \in Events /\ Len(replies[c]) + 1 \in 1..Len(batch[c])
  <2>1. Len(replies[c]) + 1 \in 1..Len(batch[c])
    BY <1>2, Lists DEF Answered
  <2> QED
    BY <2>1, Lists DEF NextId
<1> QED
  BY <1>1, <1>2

\* The positions of an id are finitely many, those won among them.
LEMMA Positions ==
  ASSUME TypeOK, NEW c \in Callers, NEW e \in Events
  PROVE  /\ IsFiniteSet(PositionsOf(c, e))
         /\ IsFiniteSet(WonFor(c, e))
         /\ Cardinality(WonFor(c, e)) \in Nat
         /\ Cardinality(PositionsOf(c, e) \ WonFor(c, e)) \in Nat
<1>1. IsFiniteSet(1..Len(batch[c]))
  BY Lists, FS_Interval
<1>2. PositionsOf(c, e) \subseteq 1..Len(batch[c])
  BY Lists DEF PositionsOf
<1>3. IsFiniteSet(PositionsOf(c, e))
  BY <1>1, <1>2, FS_Subset
<1>4. WonFor(c, e) \subseteq PositionsOf(c, e)
  BY DEF WonFor
<1>5. IsFiniteSet(WonFor(c, e)) /\ IsFiniteSet(PositionsOf(c, e) \ WonFor(c, e))
  BY <1>3, <1>4, FS_Subset, FS_Difference
<1> QED
  BY <1>3, <1>5, FS_CardinalityType

\* So the tallies that a call adds are natural numbers.
LEMMA TallyTypes ==
  ASSUME TypeOK, NEW c \in Callers
  PROVE  Wins(c) \in [Events -> Nat] /\ Unclaimed(c) \in [Events -> Nat]
BY Positions DEF Wins, Unclaimed

LEMMA PlusType ==
  ASSUME NEW f \in [Events -> Nat], NEW g \in [Events -> Nat]
  PROVE  Plus(f, g) \in [Events -> Nat]
BY DEF Plus

-----------------------------------------------------------------------------
(***************************************************************************)
(* Type correctness.                                                       *)
(***************************************************************************)

\* A fault that is spent leaves a budget.
LEMMA SpendType ==
  ASSUME TypeOK, NEW fault \in Faults, Spend(fault)
  PROVE  budget' \in [Faults -> Nat]
BY DEF TypeOK, Spend

\* The end of a call keeps the types of its list and its replies.
LEMMA ReturnType ==
  ASSUME TypeOK, NEW c \in Callers, Return(c)
  PROVE  /\ batch' \in [Callers -> Batches \cup {<<>>}]
         /\ replies' \in [Callers -> Seq(Replies)]
         /\ \A d \in Callers : Len(replies'[d]) <= Len(batch'[d])
BY Lists DEF TypeOK, Return

\* So does a reply to a call that is waiting for one.
LEMMA ReplyType ==
  ASSUME TypeOK, NEW c \in Callers, NEW r \in Replies, Calling(c), ~Answered(c),
         Reply(c, r), UNCHANGED batch
  PROVE  /\ replies' \in [Callers -> Seq(Replies)]
         /\ \A d \in Callers : Len(replies'[d]) <= Len(batch'[d])
<1>1. Len(replies[c]) + 1 <= Len(batch[c])
  BY NextIdType, Lists
<1>2. Append(replies[c], r) \in Seq(Replies) /\ Len(Append(replies[c], r)) = Len(replies[c]) + 1
  BY Lists
<1> QED
  BY <1>1, <1>2 DEF TypeOK, Reply

LEMMA InitType == Init => TypeOK
BY BatchAssumption DEF Init, TypeOK, NoTally

\* TypeOK is inductive.
LEMMA TypeStep == TypeOK /\ [Next]_vars => TypeOK'
<1> SUFFICES ASSUME TypeOK, [Next]_vars PROVE TypeOK'
  OBVIOUS
<1>1. CASE UNCHANGED vars
  BY <1>1 DEF vars, tallies, TypeOK
<1>2. ASSUME NEW c \in Callers, NEW b \in Batches, Call(c, b) PROVE TypeOK'
  <2>1. Len(b) \in Nat /\ replies[c] = <<>>
    BY <1>2, BatchAssumption, NextIdType DEF Call
  <2>2. \A d \in Callers : Len(replies[d]) <= Len(batch'[d])
    BY <1>2, <2>1 DEF Call, TypeOK
  <2> QED
    <3>1. calls' \in 0..MaxCalls
      BY <1>2, BatchAssumption DEF Call, TypeOK
    <3>2. batch' \in [Callers -> Batches \cup {<<>>}]
      BY <1>2 DEF Call, TypeOK
    <3> QED
      BY <1>2, <2>2, <3>1, <3>2 DEF Call, TypeOK, tallies
<1>3. ASSUME NEW c \in Callers, Execute(c) PROVE TypeOK'
  <2>1. NextId(c) \in Events
    BY <1>3, NextIdType DEF Execute
  <2>2. PICK r \in Replies : Reply(c, r)
    BY <1>3 DEF Execute, SetCommand, Replies
  <2>3. /\ replies' \in [Callers -> Seq(Replies)]
        /\ \A d \in Callers : Len(replies'[d]) <= Len(batch'[d])
    BY <1>3, <2>2, ReplyType DEF Execute
  <2>4. keys' \subseteq Events /\ claimed' \in [Events -> Nat]
    <3>1. CASE NextId(c) \in keys
      BY <1>3, <3>1 DEF Execute, SetCommand, TypeOK
    <3>2. CASE NextId(c) \notin keys
      <4>1. /\ keys' = keys \cup {NextId(c)}
            /\ claimed' = [claimed EXCEPT ![NextId(c)] = @ + 1]
        BY <1>3, <3>2 DEF Execute, SetCommand
      <4> QED
        BY <2>1, <4>1 DEF TypeOK
    <3> QED
      BY <3>1, <3>2
  <2> QED
    BY <1>3, <2>3, <2>4 DEF Execute, TypeOK
<1>4. ASSUME NEW c \in Callers, CommandFails(c) PROVE TypeOK'
  BY <1>4, ReplyType, SpendType DEF CommandFails, TypeOK, Replies, tallies, Faults
<1>5. ASSUME NEW c \in Callers, Verdicts(c) PROVE TypeOK'
  <2>1. granted' \in [Events -> Nat]
    BY <1>5, TallyTypes, PlusType DEF Verdicts, TypeOK
  <2> QED
    BY <1>5, <2>1, ReturnType DEF Verdicts, TypeOK
<1>6. ASSUME NEW c \in Callers, AllTrue(c)
      PROVE  granted' \in [Events -> Nat] /\ waived' \in [Events -> Nat]
  BY <1>6, TallyTypes, PlusType DEF AllTrue, TypeOK
<1>7. ASSUME NEW c \in Callers, FailsOpen(c) PROVE TypeOK'
  BY <1>6, <1>7, ReturnType DEF FailsOpen, TypeOK
<1>8. ASSUME NEW c \in Callers, ConnectionLost(c) PROVE TypeOK'
  <2>1. late' \subseteq Events
    <3>1. PICK n \in Len(replies[c])..Len(batch[c]) :
            late' = late \cup {batch[c][i] : i \in Len(replies[c]) + 1 .. n}
      BY <1>8 DEF ConnectionLost
    <3>2. \A i \in 1..Len(batch[c]) : batch[c][i] \in Events
      BY Lists
    <3>3. Len(replies[c]) + 1 .. n \subseteq 1..Len(batch[c])
      BY <3>1, Lists
    <3> QED
      BY <3>1, <3>2, <3>3 DEF TypeOK
  <2> QED
    BY <1>6, <1>8, <2>1, ReturnType, SpendType DEF ConnectionLost, TypeOK, Faults
<1>9. ASSUME NEW c \in Callers, Crash(c) PROVE TypeOK'
  <2>1. orphaned' \in [Events -> Nat]
    BY <1>9, TallyTypes, PlusType DEF Crash, TypeOK
  <2>2. budget' \in [Faults -> Nat]
    BY <1>9, SpendType DEF Crash, Faults
  <2> QED
    BY <1>9, <2>1, <2>2, ReturnType DEF Crash, TypeOK
<1>10. ASSUME NEW e \in Events, LateCommand(e) PROVE TypeOK'
  BY <1>10 DEF LateCommand, TypeOK, tallies
<1>11. ASSUME NEW e \in Events, Release(e) PROVE TypeOK'
  BY <1>11 DEF Release, Free, TypeOK
<1>12. ASSUME NEW e \in Events, Evict(e) PROVE TypeOK'
  <2>1. budget' \in [Faults -> Nat]
    BY <1>12, SpendType DEF Evict, Faults
  <2> QED
    BY <1>12, <2>1 DEF Evict, Free, TypeOK
<1> QED
  BY <1>1, <1>2, <1>3, <1>4, <1>5, <1>7, <1>8, <1>9, <1>10, <1>11, <1>12 DEF Next

\* Keys, lists, replies and tallies have their types, and no call has more
\* replies than commands.
THEOREM BatchTypeCorrect == Spec => []TypeOK
<1>1. Init => TypeOK
  BY InitType
<1>2. TypeOK /\ [Next]_vars => TypeOK'
  BY TypeStep
<1> QED
  BY <1>1, <1>2, PTL DEF Spec

-----------------------------------------------------------------------------
(***************************************************************************)
(* The balance of claims and verdicts.                                     *)
(***************************************************************************)

\* How many keys of an id were ever set by a call: the one that stands, and
\* those that were taken away.
ClaimsBounded ==
  \A e \in Events : claimed[e] <= (IF e \in keys THEN 1 ELSE 0) + freed[e]

PendingFinite == \A e \in Events : IsFiniteSet(PendingWins(e))

BatchInv == PendingFinite /\ EveryClaimGranted /\ ClaimsBounded

\* A call whose list is empty holds no claim.
LEMMA NothingWon ==
  ASSUME NEW c, NEW e, batch[c] = <<>>
  PROVE  WonFor(c, e) = {}
BY DEF WonFor, PositionsOf

\* The end of a call takes exactly its claims out of those that are pending.
LEMMA PendingAfterReturn ==
  ASSUME TypeOK, NEW c \in Callers, NEW e \in Events, Return(c), IsFiniteSet(PendingWins(e))
  PROVE  /\ IsFiniteSet(PendingWins(e)')
         /\ Cardinality(PendingWins(e)') = Cardinality(PendingWins(e)) - Cardinality(WonFor(c, e))
<1> DEFINE W == {c} \X WonFor(c, e)
<1>1. WonFor(c, e)' = {}
  <2>1. batch'[c] = <<>>
    BY DEF Return, TypeOK
  <2> QED
    BY <2>1 DEF WonFor, PositionsOf
<1>2. \A d \in Callers \ {c} : WonFor(d, e)' = WonFor(d, e)
  BY DEF Return, TypeOK, WonFor, PositionsOf
<1>3. PendingWins(e)' = PendingWins(e) \ W
  BY <1>1, <1>2 DEF PendingWins
<1>4. W \subseteq PendingWins(e)
  BY DEF PendingWins
<1>5. Cardinality(W) = Cardinality(WonFor(c, e))
  <2>1. IsFiniteSet({c}) /\ Cardinality({c}) = 1
    BY FS_Singleton
  <2>2. IsFiniteSet(WonFor(c, e)) /\ Cardinality(WonFor(c, e)) \in Nat
    BY Positions
  <2>3. Cardinality(W) = Cardinality({c}) * Cardinality(WonFor(c, e))
    BY <2>1, <2>2, FS_Product
  <2> QED
    BY <2>1, <2>2, <2>3
<1>6. PendingWins(e) \cap W = W
  BY <1>4
<1> HIDE DEF W
<1>7. /\ IsFiniteSet(PendingWins(e) \ W)
      /\ Cardinality(PendingWins(e) \ W) = Cardinality(PendingWins(e)) - Cardinality(PendingWins(e) \cap W)
  BY FS_Difference
<1> QED
  BY <1>3, <1>5, <1>6, <1>7

\* What a reply changes of the claims of the calls: a key that it set is one
\* more position of its id.
LEMMA WonAfterReply ==
  ASSUME TypeOK, NEW c \in Callers, NEW r \in Replies, Calling(c), ~Answered(c),
         Reply(c, r), UNCHANGED batch, NEW d \in Callers, NEW e \in Events
  PROVE  WonFor(d, e)' = IF d = c /\ r = "set" /\ NextId(c) = e
                         THEN WonFor(c, e) \cup {Len(replies[c]) + 1}
                         ELSE WonFor(d, e)
<1>1. CASE d # c
  <2>1. replies'[d] = replies[d] /\ batch'[d] = batch[d]
    BY <1>1 DEF Reply, TypeOK
  <2> QED
    BY <1>1, <2>1 DEF WonFor, PositionsOf
<1>2. CASE d = c
  <2> DEFINE k == Len(replies[c])
  <2>1. replies'[c] = Append(replies[c], r) /\ batch'[c] = batch[c]
    BY DEF Reply, TypeOK
  <2>2. /\ DOMAIN replies[c] = 1..k /\ DOMAIN replies'[c] = 1..(k + 1)
        /\ \A i \in 1..k : replies'[c][i] = replies[c][i]
        /\ replies'[c][k + 1] = r
        /\ k \in Nat
    BY <2>1, Lists
  <2>3. k + 1 \in DOMAIN batch[c] /\ DOMAIN batch[c] = 1..Len(batch[c]) /\ Len(batch[c]) \in Nat
    BY NextIdType, Lists
  <2>4. k + 1 \in WonFor(c, e)' <=> r = "set" /\ NextId(c) = e
    BY <2>1, <2>2, <2>3 DEF WonFor, PositionsOf, NextId
  <2>5. \A i \in 1..k : i \in WonFor(c, e)' <=> i \in WonFor(c, e)
    BY <2>1, <2>2, <2>3 DEF WonFor, PositionsOf
  <2>6. WonFor(c, e) \subseteq 1..k /\ WonFor(c, e)' \subseteq 1..(k + 1)
    BY <2>2 DEF WonFor
  <2> HIDE DEF k
  <2>7. 1..(k + 1) = 1..k \cup {k + 1}
    BY <2>2
  <2>8. CASE r = "set" /\ NextId(c) = e
    BY <1>2, <2>4, <2>5, <2>6, <2>7, <2>8 DEF k
  <2>9. CASE ~(r = "set" /\ NextId(c) = e)
    BY <1>2, <2>4, <2>5, <2>6, <2>7, <2>9
  <2> QED
    BY <2>8, <2>9
<1> QED
  BY <1>1, <1>2

\* A reply that set no key leaves the claims that are pending as they are.
LEMMA PendingAfterOtherReply ==
  ASSUME TypeOK, NEW c \in Callers, NEW r \in Replies, Calling(c), ~Answered(c),
         Reply(c, r), UNCHANGED batch, NEW e \in Events, ~(r = "set" /\ NextId(c) = e)
  PROVE  PendingWins(e)' = PendingWins(e)
<1>1. \A d \in Callers : WonFor(d, e)' = WonFor(d, e)
  BY WonAfterReply
<1> QED
  BY <1>1 DEF PendingWins

\* One that set the key adds one claim.
LEMMA PendingAfterSet ==
  ASSUME TypeOK, NEW c \in Callers, Calling(c), ~Answered(c), Reply(c, "set"),
         UNCHANGED batch, NEW e \in Events, NextId(c) = e, IsFiniteSet(PendingWins(e))
  PROVE  /\ IsFiniteSet(PendingWins(e)')
         /\ Cardinality(PendingWins(e)') = Cardinality(PendingWins(e)) + 1
<1> DEFINE claim == <<c, Len(replies[c]) + 1>>
<1>1. /\ WonFor(c, e)' = WonFor(c, e) \cup {Len(replies[c]) + 1}
      /\ \A d \in Callers \ {c} : WonFor(d, e)' = WonFor(d, e)
  BY WonAfterReply DEF Replies
<1>2. PendingWins(e)' = PendingWins(e) \cup {claim}
  BY <1>1 DEF PendingWins
<1>3. claim \notin PendingWins(e)
  <2>1. Len(replies[c]) + 1 \notin WonFor(c, e)
    BY Lists DEF WonFor
  <2> QED
    BY <2>1 DEF PendingWins
<1> HIDE DEF claim
<1>4. /\ IsFiniteSet(PendingWins(e) \cup {claim})
      /\ Cardinality(PendingWins(e) \cup {claim}) = Cardinality(PendingWins(e)) + 1
  BY <1>3, FS_AddElement
<1> QED
  BY <1>2, <1>4

\* Steps that touch no list and no reply leave the pending claims alone; so does
\* a new call, which has none.
LEMMA PendingUnchanged ==
  ASSUME UNCHANGED <<batch, replies>>, NEW e \in Events
  PROVE  PendingWins(e)' = PendingWins(e)
BY DEF PendingWins, WonFor, PositionsOf

LEMMA PendingAfterCall ==
  ASSUME TypeOK, NEW c \in Callers, NEW b \in Batches, Call(c, b), NEW e \in Events
  PROVE  PendingWins(e)' = PendingWins(e)
<1>1. WonFor(c, e) = {} /\ WonFor(c, e)' = {}
  <2>1. replies[c] = <<>> /\ replies'[c] = <<>>
    BY NextIdType DEF Call
  <2> QED
    BY <2>1 DEF WonFor
<1>2. \A d \in Callers \ {c} : WonFor(d, e)' = WonFor(d, e)
  BY DEF Call, TypeOK, WonFor, PositionsOf
<1> QED
  BY <1>1, <1>2 DEF PendingWins

LEMMA BatchInvInit == Init => BatchInv
<1> SUFFICES ASSUME Init, NEW e \in Events
    PROVE  /\ IsFiniteSet(PendingWins(e)) /\ Cardinality(PendingWins(e)) = 0
           /\ claimed[e] = 0 /\ granted[e] = 0 /\ waived[e] = 0 /\ freed[e] = 0 /\ orphaned[e] = 0
           /\ e \notin keys
  BY DEF BatchInv, PendingFinite, EveryClaimGranted, ClaimsBounded
<1>1. PendingWins(e) = {}
  BY NothingWon DEF Init, PendingWins
<1> QED
  BY <1>1, FS_EmptySet DEF Init, NoTally

\* BatchInv is inductive, given the types.
LEMMA BatchInvStep == TypeOK /\ BatchInv /\ [Next]_vars => BatchInv'
<1> SUFFICES ASSUME TypeOK, BatchInv, [Next]_vars, NEW e \in Events
    PROVE  /\ IsFiniteSet(PendingWins(e)')
           /\ claimed'[e] + waived'[e] = granted'[e] + orphaned'[e] + Cardinality(PendingWins(e)')
           /\ claimed'[e] <= (IF e \in keys' THEN 1 ELSE 0) + freed'[e]
  BY DEF BatchInv, PendingFinite, EveryClaimGranted, ClaimsBounded
<1> DEFINE P == PendingWins(e)
           Goal == /\ IsFiniteSet(P')
                   /\ claimed'[e] + waived'[e] = granted'[e] + orphaned'[e] + Cardinality(P')
                   /\ claimed'[e] <= (IF e \in keys' THEN 1 ELSE 0) + freed'[e]
<1>1. /\ IsFiniteSet(P) /\ Cardinality(P) \in Nat
      /\ claimed[e] + waived[e] = granted[e] + orphaned[e] + Cardinality(P)
      /\ claimed[e] <= (IF e \in keys THEN 1 ELSE 0) + freed[e]
      /\ claimed[e] \in Nat /\ waived[e] \in Nat /\ granted[e] \in Nat
      /\ freed[e] \in Nat /\ orphaned[e] \in Nat
  BY FS_CardinalityType DEF BatchInv, PendingFinite, EveryClaimGranted, ClaimsBounded, TypeOK
<1>2. \A c \in Callers : Return(c) =>
        /\ IsFiniteSet(P') /\ Cardinality(P') = Cardinality(P) - Wins(c)[e]
        /\ Wins(c)[e] \in Nat /\ Unclaimed(c)[e] \in Nat
  BY <1>1, PendingAfterReturn, TallyTypes DEF Wins
<1>3. CASE UNCHANGED vars
  <2>1. P' = P
    BY <1>3, PendingUnchanged DEF vars
  <2> QED
    BY <1>1, <1>3, <2>1 DEF vars, tallies
<1>4. ASSUME NEW c \in Callers, NEW b \in Batches, Call(c, b) PROVE Goal
  <2>1. P' = P
    BY <1>4, PendingAfterCall
  <2> QED
    BY <1>1, <1>4, <2>1 DEF Call, tallies
<1>5. ASSUME NEW c \in Callers, Execute(c) PROVE Goal
  <2>1. UNCHANGED <<batch, granted, waived, freed, orphaned>> /\ Calling(c) /\ ~Answered(c)
    BY <1>5 DEF Execute
  <2>2. CASE NextId(c) \in keys
    <3>1. Reply(c, "nil") /\ UNCHANGED <<keys, claimed>>
      BY <1>5, <2>2 DEF Execute, SetCommand
    <3>2. P' = P
      BY <2>1, <3>1, PendingAfterOtherReply DEF Replies
    <3> QED
      BY <1>1, <2>1, <3>1, <3>2
  <2>3. CASE NextId(c) \notin keys
    <3>1. /\ Reply(c, "set") /\ keys' = keys \cup {NextId(c)}
          /\ claimed' = [claimed EXCEPT ![NextId(c)] = @ + 1]
      BY <1>5, <2>3 DEF Execute, SetCommand
    <3>2. CASE NextId(c) = e
      <4>1. IsFiniteSet(P') /\ Cardinality(P') = Cardinality(P) + 1
        BY <1>1, <2>1, <3>1, <3>2, PendingAfterSet
      <4>2. claimed'[e] = claimed[e] + 1 /\ e \notin keys /\ e \in keys'
        BY <2>3, <3>1, <3>2 DEF TypeOK
      <4> QED
        BY <1>1, <2>1, <4>1, <4>2
    <3>3. CASE NextId(c) # e
      <4>1. P' = P
        BY <2>1, <3>1, <3>3, PendingAfterOtherReply DEF Replies
      <4>2. claimed'[e] = claimed[e] /\ (e \in keys <=> e \in keys')
        BY <3>1, <3>3 DEF TypeOK
      <4> QED
        BY <1>1, <2>1, <4>1, <4>2
    <3> QED
      BY <3>2, <3>3
  <2> QED
    BY <2>2, <2>3
<1>6. ASSUME NEW c \in Callers, CommandFails(c) PROVE Goal
  <2>1. P' = P
    BY <1>6, PendingAfterOtherReply DEF CommandFails, Replies
  <2>2. UNCHANGED <<keys, claimed, waived, granted, freed, orphaned>>
    BY <1>6 DEF CommandFails, tallies
  <2> QED
    BY <1>1, <2>1, <2>2
<1>7. ASSUME NEW c \in Callers, Verdicts(c) PROVE Goal
  <2>1. granted'[e] = granted[e] + Wins(c)[e]
    BY <1>7 DEF Verdicts, Plus
  <2> QED
    BY <1>1, <1>2, <1>7, <2>1 DEF Verdicts
<1>8. ASSUME NEW c \in Callers, AllTrue(c), Return(c),
             UNCHANGED <<keys, claimed, freed, orphaned>>
      PROVE  Goal
  <2>1. /\ granted'[e] = granted[e] + (Wins(c)[e] + Unclaimed(c)[e])
        /\ waived'[e] = waived[e] + Unclaimed(c)[e]
    BY <1>8 DEF AllTrue, Plus
  <2>2. /\ IsFiniteSet(P') /\ Cardinality(P') = Cardinality(P) - Wins(c)[e]
        /\ Wins(c)[e] \in Nat /\ Unclaimed(c)[e] \in Nat
    BY <1>2, <1>8
  <2>3. claimed'[e] + waived'[e] = granted'[e] + orphaned'[e] + Cardinality(P')
    BY <1>1, <1>8, <2>1, <2>2
  <2> QED
    BY <1>1, <1>8, <2>2, <2>3
<1>9. ASSUME NEW c \in Callers, FailsOpen(c) PROVE Goal
  BY <1>8, <1>9 DEF FailsOpen
<1>10. ASSUME NEW c \in Callers, ConnectionLost(c) PROVE Goal
  BY <1>8, <1>10 DEF ConnectionLost
<1>11. ASSUME NEW c \in Callers, Crash(c) PROVE Goal
  <2>1. orphaned'[e] = orphaned[e] + Wins(c)[e]
    BY <1>11 DEF Crash, Plus
  <2> QED
    BY <1>1, <1>2, <1>11, <2>1 DEF Crash
<1>12. ASSUME NEW f \in Events, LateCommand(f) PROVE Goal
  <2>1. P' = P
    BY <1>12, PendingUnchanged DEF LateCommand
  <2>2. keys \subseteq keys'
    BY <1>12 DEF LateCommand
  <2> QED
    BY <1>1, <1>12, <2>1, <2>2 DEF LateCommand, tallies
<1>13. ASSUME NEW f \in Events, f \in keys, Free(f),
              UNCHANGED <<batch, replies, claimed, granted, waived, orphaned>>
       PROVE  Goal
  <2>1. P' = P
    BY <1>13, PendingUnchanged
  <2>2. freed'[e] = (IF e = f THEN freed[e] + 1 ELSE freed[e])
    BY <1>13 DEF Free, TypeOK
  <2>3. e # f => (e \in keys' <=> e \in keys)
    BY <1>13 DEF Free
  <2> QED
    BY <1>1, <1>13, <2>1, <2>2, <2>3
<1>14. ASSUME NEW f \in Events, Release(f) PROVE Goal
  BY <1>13, <1>14 DEF Release
<1>15. ASSUME NEW f \in Events, Evict(f) PROVE Goal
  BY <1>13, <1>15 DEF Evict
<1> QED
  BY <1>3, <1>4, <1>5, <1>6, <1>7, <1>9, <1>10, <1>11, <1>12, <1>14, <1>15 DEF Next

LEMMA BatchInvInvariant == Spec => [](TypeOK /\ BatchInv)
<1>1. Init => TypeOK /\ BatchInv
  BY InitType, BatchInvInit
<1>2. TypeOK /\ BatchInv /\ [Next]_vars => TypeOK' /\ BatchInv'
  BY TypeStep, BatchInvStep
<1> QED
  BY <1>1, <1>2, PTL DEF Spec

\* Every key that a call set is granted, pending, or lost with its caller,
\* whatever the number of callers, the lists and the faults.
THEOREM NoClaimAstray == Spec => []EveryClaimGranted
BY BatchInvInvariant, PTL DEF BatchInv

\* An id is granted a second time only against a call that failed open without
\* having claimed it, or a key that was taken away: the keys that were set are
\* at most one more than those taken away, and every verdict is one of them or
\* waived.
THEOREM BatchGrantsOnce == Spec => []GrantedOnce
<1>1. TypeOK /\ BatchInv => GrantedOnce
  <2> SUFFICES ASSUME TypeOK, BatchInv, NEW e \in Events
      PROVE  granted[e] <= 1 + waived[e] + freed[e]
    BY DEF GrantedOnce
  <2>1. Cardinality(PendingWins(e)) \in Nat
    BY FS_CardinalityType DEF BatchInv, PendingFinite
  <2>2. /\ claimed[e] + waived[e] = granted[e] + orphaned[e] + Cardinality(PendingWins(e))
        /\ claimed[e] <= (IF e \in keys THEN 1 ELSE 0) + freed[e]
    BY DEF BatchInv, EveryClaimGranted, ClaimsBounded
  <2>3. /\ claimed[e] \in Nat /\ waived[e] \in Nat /\ granted[e] \in Nat
        /\ freed[e] \in Nat /\ orphaned[e] \in Nat
    BY DEF TypeOK
  <2> QED
    BY <2>1, <2>2, <2>3
<1> QED
  BY <1>1, BatchInvInvariant, PTL
=============================================================================
