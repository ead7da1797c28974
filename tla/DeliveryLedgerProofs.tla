------------------------ MODULE DeliveryLedgerProofs ------------------------
(***************************************************************************)
(* The delivery ledger is honest: its steps add up to the promise.         *)
(***************************************************************************)
EXTENDS DeliveryLedger, TLAPS

\* Every step of the ledger keeps the types and the promise.
LEMMA HonestStays ==
  ASSUME Log \in [Partitions -> Seq(Events)], TypeOK, Honest, [Next]_vars
  PROVE  TypeOK' /\ Honest'
<1> USE DEF TypeOK, Honest, Resolved, MayClose
<1>1. \A p \in Partitions : \A o \in 1..Len(Log[p]) : Log[p][o] \in Events
  OBVIOUS
<1>2. ASSUME NEW e \in Events, Take(e) PROVE TypeOK' /\ Honest'
  BY <1>1, <1>2 DEF Take
<1>3. ASSUME NEW e \in Events, Store(e) PROVE TypeOK' /\ Honest'
  <2>1. TypeOK' /\ copies'[e] > 0 /\ \A f \in Events : f # e => copies'[f] = copies[f]
    BY <1>3 DEF Store
  <2>2. \A f \in Events : copies'[f] <= (IF f \in Storable THEN 1 + charges'[f] ELSE 0)
    BY <1>3, <2>1 DEF Store
  <2>3. \A f \in Events : f # e => (f \in open' <=> f \in open)
    BY <1>3 DEF Store
  <2>4. committed' = committed /\ dead' = dead /\ excused' = excused
    BY <1>3 DEF Store
  <2> QED
    BY <1>1, <2>1, <2>2, <2>3, <2>4
<1>4. ASSUME NEW e \in Events, Bury(e) PROVE TypeOK' /\ Honest'
  BY <1>1, <1>4 DEF Bury
<1>5. ASSUME NEW e \in Events, Close(e) PROVE TypeOK' /\ Honest'
  BY <1>1, <1>5 DEF Close
<1>6. ASSUME NEW e \in Events, Charge(e) PROVE TypeOK' /\ Honest'
  BY <1>1, <1>6 DEF Charge
<1>7. ASSUME NEW S \in SUBSET open, GiveUp(S) PROVE TypeOK' /\ Honest'
  BY <1>1, <1>7 DEF GiveUp
<1>8. ASSUME NEW p \in Partitions, NEW o \in 1..Len(Log[p]), Commit(p, o)
      PROVE  TypeOK' /\ Honest'
  <2>1. TypeOK'
    BY <1>8 DEF Commit
  <2>2. \A q \in Partitions : q # p => committed'[q] = committed[q]
    BY <1>8 DEF Commit
  <2>3. committed'[p] = o + 1
    BY <1>8 DEF Commit
  <2>4. \A i \in 1..Len(Log[p]) : i < o + 1 => Log[p][i] \in open \/ Resolved(Log[p][i])
    BY <1>8 DEF Commit
  <2> QED
    BY <1>8, <2>1, <2>2, <2>3, <2>4 DEF Commit
<1>9. CASE UNCHANGED vars
  BY <1>9 DEF vars
<1> QED
  BY <1>2, <1>3, <1>4, <1>5, <1>6, <1>7, <1>8, <1>9 DEF Next

\* Nothing is committed past without an outcome or a worker that still has it,
\* and no row is more than the faults that defeated deduplication account for
\* (the promise of consumer.py:5 and idempotency.py:44, as far as it holds).
THEOREM LedgerHonest ==
  ASSUME Log \in [Partitions -> Seq(Events)]
  PROVE  Spec => [](TypeOK /\ Honest)
<1>1. Init => TypeOK /\ Honest
  BY DEF Init, TypeOK, Honest
<1>2. TypeOK /\ Honest /\ [Next]_vars => TypeOK' /\ Honest'
  BY HonestStays
<1> QED
  BY <1>1, <1>2, PTL DEF Spec
=============================================================================
