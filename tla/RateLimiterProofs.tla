------------------------- MODULE RateLimiterProofs -------------------------
(***************************************************************************)
(* Proofs about RateLimiter, for any devices, limit, window and bounds.    *)
(***************************************************************************)
EXTENDS RateLimiter, FiniteSetTheorems, SequenceTheorems, TLAPS

\* The script adds one to a counter that has room, and leaves a future expiry.
LEMMA ScriptType ==
  ASSUME TypeOK, NEW d \in Devices, Current(d) < MaxCount, Script(d)
  PROVE  counter' \in [Devices -> 0..MaxCount] /\ expiry' \in [Devices -> Nat]
<1>1. Current(d) \in 0..MaxCount
  BY LimiterAssumption DEF TypeOK, Current
<1>2. Current(d) + 1 \in 0..MaxCount /\ now + Window \in Nat
  BY <1>1, LimiterAssumption DEF TypeOK
<1> QED
  BY <1>2 DEF TypeOK, Script

\* A fault is counted.
LEMMA FaultType ==
  ASSUME TypeOK, Fault
  PROVE  faults' \in 0..MaxFaults
BY LimiterAssumption DEF TypeOK, Fault

\* An admission is recorded with the tick it happens.
LEMMA AdmitType ==
  ASSUME TypeOK, NEW d \in Devices, Admit(d)
  PROVE  admits' \in [Devices -> Seq(0..MaxTime)]
<1>a. admits[d] \in Seq(0..MaxTime) /\ now \in 0..MaxTime
  BY DEF TypeOK
<1>b. Append(admits[d], now) \in Seq(0..MaxTime)
  BY <1>a
<1>1. PICK h \in Seq(0..MaxTime) : h = Append(admits[d], now)
  BY <1>b
<1>2. admits' = [admits EXCEPT ![d] = h]
  BY <1>1 DEF Admit
<1> QED
  BY <1>2 DEF TypeOK

\* No history counter of a device passes the number of faults.
HistoryInv ==
  \A d \in Devices : unmetered[d] <= faults /\ evictions[d] <= faults

\* Every variable has its type.
THEOREM LimiterTypeCorrect == Spec => []TypeOK
<1>1. Init => TypeOK /\ HistoryInv
  BY LimiterAssumption DEF Init, TypeOK, HistoryInv
<1>2. ASSUME TypeOK, HistoryInv, [Next]_vars PROVE TypeOK' /\ HistoryInv'
  <2> USE <1>2
  <2>1. CASE Tick
    BY <2>1, LimiterAssumption DEF Tick, TypeOK, HistoryInv
  <2>2. ASSUME NEW d \in Devices, Allowed(d) PROVE TypeOK' /\ HistoryInv'
    BY <2>2, ScriptType, AdmitType DEF Allowed, TypeOK, HistoryInv
  <2>3. ASSUME NEW d \in Devices, Refused(d) PROVE TypeOK' /\ HistoryInv'
    BY <2>3, ScriptType DEF Refused, TypeOK, HistoryInv
  <2>4. ASSUME NEW d \in Devices, FailsOpen(d) PROVE TypeOK' /\ HistoryInv'
    <3>1. /\ counter' \in [Devices -> 0..MaxCount] /\ expiry' \in [Devices -> Nat]
          /\ admits' \in [Devices -> Seq(0..MaxTime)]
          /\ now' = now /\ evictions' = evictions
      BY <2>4, ScriptType, AdmitType DEF FailsOpen, TypeOK
    <3>2. /\ faults \in Nat /\ faults' = faults + 1 /\ faults' \in 0..MaxFaults
          /\ unmetered' = [unmetered EXCEPT ![d] = @ + 1]
      BY <2>4, FaultType, LimiterAssumption DEF FailsOpen, Fault, TypeOK
    <3>3. \A e \in Devices : unmetered'[e] \in Nat /\ unmetered'[e] <= faults'
      <4>1. ASSUME NEW e \in Devices PROVE unmetered'[e] \in {unmetered[e], unmetered[e] + 1}
        BY <3>2 DEF TypeOK
      <4>2. ASSUME NEW e \in Devices PROVE unmetered[e] \in Nat /\ unmetered[e] <= faults
        BY LimiterAssumption DEF TypeOK, HistoryInv
      <4> QED
        BY <3>2, <4>1, <4>2
    <3>4. unmetered' \in [Devices -> 0..MaxFaults]
      BY <3>2, <3>3, LimiterAssumption DEF TypeOK
    <3>5. ASSUME NEW e \in Devices PROVE evictions'[e] <= faults'
      <4>1. evictions[e] \in Nat /\ evictions[e] <= faults /\ evictions'[e] = evictions[e]
        BY <3>1, LimiterAssumption DEF TypeOK, HistoryInv
      <4> QED
        BY <3>2, <4>1
    <3> QED
      BY <3>1, <3>2, <3>3, <3>4, <3>5 DEF TypeOK, HistoryInv
  <2>5. ASSUME NEW d \in Devices, Evict(d) PROVE TypeOK' /\ HistoryInv'
    <3>1. /\ counter' \in [Devices -> 0..MaxCount] /\ expiry' \in [Devices -> Nat]
          /\ now' = now /\ admits' = admits /\ unmetered' = unmetered
      BY <2>5, LimiterAssumption DEF Evict, TypeOK
    <3>2. /\ faults \in Nat /\ faults' = faults + 1 /\ faults' \in 0..MaxFaults
          /\ evictions' = [evictions EXCEPT ![d] = @ + 1]
      BY <2>5, FaultType, LimiterAssumption DEF Evict, Fault, TypeOK
    <3>3. \A e \in Devices : evictions'[e] \in Nat /\ evictions'[e] <= faults'
      <4>1. ASSUME NEW e \in Devices PROVE evictions'[e] \in {evictions[e], evictions[e] + 1}
        BY <3>2 DEF TypeOK
      <4>2. ASSUME NEW e \in Devices PROVE evictions[e] \in Nat /\ evictions[e] <= faults
        BY LimiterAssumption DEF TypeOK, HistoryInv
      <4> QED
        BY <3>2, <4>1, <4>2
    <3>4. evictions' \in [Devices -> 0..MaxFaults]
      BY <3>2, <3>3, LimiterAssumption DEF TypeOK
    <3>5. ASSUME NEW e \in Devices PROVE unmetered'[e] <= faults'
      <4>1. unmetered[e] \in Nat /\ unmetered[e] <= faults /\ unmetered'[e] = unmetered[e]
        BY <3>1, LimiterAssumption DEF TypeOK, HistoryInv
      <4> QED
        BY <3>2, <4>1
    <3> QED
      BY <3>1, <3>2, <3>3, <3>4, <3>5 DEF TypeOK, HistoryInv
  <2>6. CASE UNCHANGED vars
    BY <2>6 DEF vars, TypeOK, HistoryInv
  <2> QED
    BY <1>2, <2>1, <2>2, <2>3, <2>4, <2>5, <2>6 DEF Next
<1> QED
  BY <1>1, <1>2, PTL DEF Spec

\* No device is ever shut out for good: whenever its key exists, it expires
\* within a window.
THEOREM NoImmortalKey == Spec => []KeyAlwaysExpires
<1>1. Init => KeyAlwaysExpires
  BY LimiterAssumption DEF Init, KeyAlwaysExpires
<1>2. ASSUME TypeOK, KeyAlwaysExpires, [Next]_vars PROVE KeyAlwaysExpires'
  <2>1. now \in Nat /\ now' \in Nat /\ now <= now'
    BY <1>2 DEF Next, Tick, Allowed, Refused, FailsOpen, Evict, vars, TypeOK
  <2>2. \A d \in Devices : expiry'[d] = expiry[d] \/ expiry'[d] = now + Window \/ expiry'[d] = now
    BY <1>2 DEF Next, Tick, Allowed, Refused, FailsOpen, Evict, Script, vars, TypeOK
  <2>3. \A d \in Devices : expiry[d] \in Nat /\ expiry[d] <= now + Window
    BY <1>2 DEF TypeOK, KeyAlwaysExpires
  <2> QED
    BY <2>1, <2>2, <2>3, LimiterAssumption DEF KeyAlwaysExpires
<1> QED
  BY <1>1, <1>2, LimiterTypeCorrect, PTL DEF Spec

-----------------------------------------------------------------------------
(***************************************************************************)
(* The admissions of a device in a set of ticks.                           *)
(***************************************************************************)
\* They are finitely many.
LEMMA AdmittedFinite ==
  ASSUME TypeOK, NEW d \in Devices, NEW ticks
  PROVE  /\ IsFiniteSet({i \in DOMAIN admits[d] : admits[d][i] \in ticks})
         /\ AdmittedIn(d, ticks) \in Nat
<1>1. DOMAIN admits[d] = 1..Len(admits[d]) /\ Len(admits[d]) \in Nat
  BY DEF TypeOK
<1>2. IsFiniteSet(DOMAIN admits[d])
  BY <1>1, FS_Interval
<1>3. {i \in DOMAIN admits[d] : admits[d][i] \in ticks} \subseteq DOMAIN admits[d]
  OBVIOUS
<1>4. IsFiniteSet({i \in DOMAIN admits[d] : admits[d][i] \in ticks})
  BY <1>2, <1>3, FS_Subset
<1> QED
  BY <1>4, FS_CardinalityType DEF AdmittedIn

\* More ticks, no fewer admissions.
LEMMA AdmittedMonotone ==
  ASSUME TypeOK, NEW d \in Devices, NEW ticks, NEW more,
         \A t \in 0..MaxTime : t <= now /\ t \in ticks => t \in more,
         \A i \in DOMAIN admits[d] : admits[d][i] <= now
  PROVE  AdmittedIn(d, ticks) <= AdmittedIn(d, more)
<1>a. admits[d] \in Seq(0..MaxTime)
  BY DEF TypeOK
<1>1. \A i \in DOMAIN admits[d] : admits[d][i] \in 0..MaxTime
  <2>1. DOMAIN admits[d] = 1..Len(admits[d])
    BY <1>a
  <2> QED
    BY <1>a, <2>1, ElementOfSeq
<1>2. {i \in DOMAIN admits[d] : admits[d][i] \in ticks}
        \subseteq {i \in DOMAIN admits[d] : admits[d][i] \in more}
  BY <1>1
<1>3. IsFiniteSet({i \in DOMAIN admits[d] : admits[d][i] \in more})
  BY AdmittedFinite
<1> QED
  BY <1>2, <1>3, FS_Subset DEF AdmittedIn

\* Nothing has been admitted at a tick that has not come.
LEMMA AdmittedLater ==
  ASSUME TypeOK, NEW d \in Devices, NEW ticks,
         \A t \in 0..MaxTime : t \in ticks => now < t,
         \A i \in DOMAIN admits[d] : admits[d][i] <= now
  PROVE  AdmittedIn(d, ticks) = 0
<1>a. admits[d] \in Seq(0..MaxTime) /\ now \in Int
  BY DEF TypeOK
<1>1. \A i \in DOMAIN admits[d] : admits[d][i] \in 0..MaxTime
  <2>1. DOMAIN admits[d] = 1..Len(admits[d])
    BY <1>a
  <2> QED
    BY <1>a, <2>1, ElementOfSeq
<1>2. {i \in DOMAIN admits[d] : admits[d][i] \in ticks} = {}
  BY <1>a, <1>1
<1>3. Cardinality({}) = 0
  BY FS_EmptySet
<1> QED
  BY <1>2, <1>3 DEF AdmittedIn

\* An admission counts in the sets that hold the current tick.
LEMMA AdmitCount ==
  ASSUME TypeOK, NEW d \in Devices, Admit(d), NEW ticks
  PROVE  /\ now \in ticks => AdmittedIn(d, ticks)' = AdmittedIn(d, ticks) + 1
         /\ now \notin ticks => AdmittedIn(d, ticks)' = AdmittedIn(d, ticks)
         /\ \A e \in Devices \ {d} : admits'[e] = admits[e]
<1> DEFINE n == Len(admits[d]) + 1
           old == {i \in DOMAIN admits[d] : admits[d][i] \in ticks}
           new == {i \in DOMAIN admits'[d] : admits'[d][i] \in ticks}
<1>1. /\ admits[d] \in Seq(0..MaxTime) /\ now \in 0..MaxTime
      /\ admits'[d] = Append(admits[d], now)
      /\ \A e \in Devices \ {d} : admits'[e] = admits[e]
  BY DEF TypeOK, Admit
<1>2. /\ n \notin DOMAIN admits[d] /\ DOMAIN admits'[d] = DOMAIN admits[d] \cup {n}
      /\ admits'[d][n] = now
      /\ \A i \in DOMAIN admits[d] : admits'[d][i] = admits[d][i]
  BY <1>1
<1>3. IsFiniteSet(old) /\ n \notin old
  BY <1>2, AdmittedFinite
<1>4. (now \in ticks => new = old \cup {n}) /\ (now \notin ticks => new = old)
  <2> HIDE DEF n
  <2> QED
    BY <1>2
<1>5. Cardinality(old \cup {n}) = Cardinality(old) + 1
  BY <1>3, FS_AddElement
<1>6. AdmittedIn(d, ticks) = Cardinality(old) /\ AdmittedIn(d, ticks)' = Cardinality(new)
  BY DEF AdmittedIn
<1> QED
  BY <1>1, <1>4, <1>5, <1>6

\* A device that nothing is admitted of keeps its counts.
LEMMA AdmittedSame ==
  ASSUME NEW d \in Devices, admits'[d] = admits[d], NEW ticks
  PROVE  AdmittedIn(d, ticks)' = AdmittedIn(d, ticks)
BY DEF AdmittedIn

-----------------------------------------------------------------------------
(***************************************************************************)
(* WindowInv is inductive.                                                 *)
(***************************************************************************)
\* The script opens a window or counts in the one that is open.
LEMMA ScriptEffect ==
  ASSUME TypeOK, NEW d \in Devices, Script(d), now' = now, HasKey(d) => counter[d] > 0
  PROVE  /\ HasKey(d)' /\ counter'[d] = Current(d) + 1 /\ counter'[d] > 0
         /\ HasKey(d) => Current(d) = counter[d] /\ expiry'[d] = expiry[d]
         /\ ~HasKey(d) => Current(d) = 0 /\ expiry'[d] = now + Window
         /\ \A e \in Devices \ {d} : counter'[e] = counter[e] /\ expiry'[e] = expiry[e]
BY LimiterAssumption DEF TypeOK, Script, Current, HasKey

\* The window counts one admission more, unless it had reached the limit.
LEMMA ScriptCounts ==
  ASSUME TypeOK, NEW d \in Devices, Script(d), now' = now, HasKey(d) => counter[d] > 0
  PROVE  /\ Counted(d)' \in {Counted(d), Counted(d) + 1}
         /\ Current(d) + 1 <= Limit => Counted(d)' = Counted(d) + 1
         /\ ~(Current(d) + 1 <= Limit) => Counted(d) = Limit
<1>1. counter[d] \in Nat /\ Limit \in Nat
  BY LimiterAssumption DEF TypeOK
<1>2. Counted(d)' = IF counter'[d] < Limit THEN counter'[d] ELSE Limit
  BY ScriptEffect DEF Counted
<1>3. CASE HasKey(d)
  <2>1. Counted(d) = IF counter[d] < Limit THEN counter[d] ELSE Limit
    BY <1>3 DEF Counted
  <2>2. counter'[d] = counter[d] + 1 /\ Current(d) = counter[d]
    BY <1>3, ScriptEffect
  <2> QED
    BY <1>1, <1>2, <2>1, <2>2
<1>4. CASE ~HasKey(d)
  <2>1. Counted(d) = 0
    BY <1>4 DEF Counted
  <2>2. counter'[d] = 0 + 1 /\ Current(d) = 0
    BY <1>4, ScriptEffect
  <2> QED
    BY <1>1, <1>2, <2>1, <2>2
<1> QED
  BY <1>3, <1>4

\* The numbers in the invariant.
LEMMA WindowNumbers ==
  ASSUME TypeOK, NEW d \in Devices
  PROVE  /\ Counted(d) \in 0..Limit
         /\ Limit \in Nat /\ unmetered[d] \in Nat /\ evictions[d] \in Nat
         /\ Limit + evictions[d] * Limit \in Nat
         /\ \A t \in 0..MaxTime : OtherWindows(d, t) \in {0, Limit + evictions[d] * Limit}
<1>1. Limit \in Nat /\ unmetered[d] \in Nat /\ evictions[d] \in Nat /\ counter[d] \in Nat
  BY LimiterAssumption DEF TypeOK
<1>2. \A m, n \in Nat : m * n \in Nat
  OBVIOUS
<1>3. Limit + evictions[d] * Limit \in Nat
  BY <1>1, <1>2
<1>4. Counted(d) \in 0..Limit
  BY <1>1 DEF Counted
<1> QED
  BY <1>1, <1>3, <1>4 DEF OtherWindows

\* A device that nothing happens to keeps its invariant while the clock stands.
LEMMA WindowFrame ==
  ASSUME NEW d \in Devices, DeviceWindow(d), now' = now,
         counter'[d] = counter[d], expiry'[d] = expiry[d], admits'[d] = admits[d],
         unmetered'[d] = unmetered[d], evictions'[d] = evictions[d]
  PROVE  DeviceWindow(d)'
<1>1. \A ticks : AdmittedIn(d, ticks)' = AdmittedIn(d, ticks)
  BY DEF AdmittedIn
<1>2. (HasKey(d)' <=> HasKey(d)) /\ Counted(d)' = Counted(d)
  BY DEF HasKey, Counted
<1>3. \A t \in 0..MaxTime : OtherWindows(d, t)' = OtherWindows(d, t)
  BY <1>2 DEF OtherWindows
<1> QED
  BY <1>1, <1>2, <1>3 DEF DeviceWindow, AdmittedFrom

\* An admission goes through the script and is counted by it, or is unmetered.
LEMMA AdmitKeepsWindow ==
  ASSUME TypeOK, TypeOK', KeyAlwaysExpires', NEW d \in Devices, DeviceWindow(d),
         now' = now, Admit(d), evictions' = evictions,
         \/ Script(d) \/ UNCHANGED <<counter, expiry>>,
         \/ Counted(d)' = Counted(d) + 1 /\ unmetered'[d] = unmetered[d]
         \/ Counted(d)' \in {Counted(d), Counted(d) + 1} /\ unmetered'[d] = unmetered[d] + 1
  PROVE  DeviceWindow(d)'
<1>1. /\ now \in 0..MaxTime /\ Window \in Nat \ {0} /\ expiry[d] \in Nat /\ expiry'[d] \in Nat
  BY LimiterAssumption DEF TypeOK
<1>2. \A V : /\ now \in V => AdmittedIn(d, V)' = AdmittedIn(d, V) + 1
             /\ now \notin V => AdmittedIn(d, V)' = AdmittedIn(d, V)
             /\ AdmittedIn(d, V) \in Nat
  BY AdmitCount, AdmittedFinite
<1>3. \A i \in DOMAIN admits'[d] : admits'[d][i] <= now'
  <2>1. admits[d] \in Seq(0..MaxTime) /\ admits'[d] = Append(admits[d], now)
    BY DEF TypeOK, Admit
  <2>2. \A i \in DOMAIN admits'[d] : \/ i \in DOMAIN admits[d] /\ admits'[d][i] = admits[d][i]
                                   \/ admits'[d][i] = now
    BY <2>1
  <2>3. \A i \in DOMAIN admits[d] : admits[d][i] <= now
    BY DEF DeviceWindow
  <2> QED
    BY <1>1, <2>2, <2>3
<1>4. \/ /\ HasKey(d) <=> HasKey(d)'
         /\ expiry'[d] = expiry[d] /\ (HasKey(d)' => counter'[d] > 0)
      \/ ~HasKey(d) /\ HasKey(d)' /\ expiry'[d] = now + Window /\ counter'[d] > 0
  <2>1. CASE Script(d)
    BY <2>1, ScriptEffect DEF DeviceWindow
  <2>2. CASE UNCHANGED <<counter, expiry>>
    BY <2>2 DEF DeviceWindow, HasKey
  <2> QED
    BY <2>1, <2>2
<1>5. /\ Counted(d) \in 0..Limit /\ Limit \in Nat
      /\ Counted(d)' \in {Counted(d), Counted(d) + 1}
      /\ ~HasKey(d) => Counted(d) = 0
  BY WindowNumbers DEF Counted
<1>6. ASSUME HasKey(d)'
      PROVE  counter'[d] > 0 /\ AdmittedFrom(d, expiry[d] - Window)' >= Counted(d)'
  <2>0. PICK u \in Nat : u = expiry'[d]
    BY <1>1
  <2> DEFINE V == u - Window .. u - Window + Window - 1
  <2>1. now \in V
    BY <1>6, <1>1, <2>0, LimiterAssumption DEF KeyAlwaysExpires, HasKey
  <2>2. AdmittedIn(d, V)' = AdmittedIn(d, V) + 1 /\ AdmittedIn(d, V) \in Nat
    <3> HIDE DEF V
    <3> QED  BY <1>2, <2>1
  <2>3. AdmittedIn(d, V) >= Counted(d)
    <3>1. CASE HasKey(d)
      BY <1>4, <2>0, <3>1 DEF DeviceWindow, AdmittedFrom
    <3>2. CASE ~HasKey(d)
      <4> HIDE DEF V
      <4> QED  BY <1>5, <2>2, <3>2
    <3> QED
      BY <3>1, <3>2
  <2>4. AdmittedFrom(d, expiry[d] - Window)' = AdmittedIn(d, V)'
    BY <2>0 DEF AdmittedFrom, AdmittedIn
  <2> HIDE DEF V
  <2>5. AdmittedIn(d, V)' >= Counted(d)'
    BY <1>5, <2>2, <2>3
  <2> QED
    BY <1>4, <1>6, <2>4, <2>5
<1>7. ASSUME NEW t \in 0..MaxTime, now' < t + Window
      PROVE  AdmittedIn(d, t .. MaxTime)' <= OtherWindows(d, t)' + Counted(d)' + unmetered'[d]
  <2> DEFINE V == t .. MaxTime
  <2>1. AdmittedIn(d, V) <= OtherWindows(d, t) + Counted(d) + unmetered[d]
    BY <1>7 DEF DeviceWindow
  <2>2. now \in V <=> t <= now
    BY <1>1
  <2>3. /\ OtherWindows(d, t) \in Nat /\ OtherWindows(d, t)' \in Nat
        /\ Counted(d) \in Nat /\ unmetered[d] \in Nat
    <3>1. /\ OtherWindows(d, t) \in {0, Limit + evictions[d] * Limit}
          /\ Limit + evictions[d] * Limit \in Nat
          /\ Counted(d) \in Nat /\ unmetered[d] \in Nat
      BY <1>5, WindowNumbers
    <3>2. OtherWindows(d, t)' \in {0, Limit + evictions[d] * Limit}
      BY DEF OtherWindows
    <3> QED
      BY <3>1, <3>2
  <2> HIDE DEF V
  <2>4. CASE t <= now
    <3>1. OtherWindows(d, t)' = OtherWindows(d, t)
      <4>1. ~HasKey(d) /\ expiry'[d] = now + Window => ~(expiry'[d] - Window < t)
        BY <1>1, <2>4
      <4> QED
        BY <1>4, <4>1 DEF OtherWindows
    <3>2. AdmittedIn(d, V)' = AdmittedIn(d, V) + 1 /\ AdmittedIn(d, V) \in Nat
      BY <1>2, <2>2, <2>4
    <3> QED
      BY <1>5, <2>1, <2>3, <3>1, <3>2 DEF V
  <2>5. CASE ~(t <= now)
    <3>1. AdmittedIn(d, V)' = 0
      <4>1. \A u \in 0..MaxTime : u \in V => now < u
        BY <1>1, <2>5 DEF V
      <4>2. AdmittedIn(d, V) = 0
        BY <4>1, AdmittedLater DEF DeviceWindow
      <4> QED
        BY <1>2, <2>2, <2>5, <4>2
    <3> QED
      BY <1>5, <2>3, <3>1 DEF V
  <2> QED
    BY <1>1, <2>4, <2>5
<1> QED
  BY <1>3, <1>6, <1>7 DEF DeviceWindow

\* A refusal finds the window at its limit, and opens none unless that is 0.
LEMMA RefusedKeepsWindow ==
  ASSUME TypeOK, NEW d \in Devices, DeviceWindow(d), Refused(d)
  PROVE  DeviceWindow(d)'
<1>1. /\ now' = now /\ admits' = admits /\ unmetered' = unmetered /\ evictions' = evictions
      /\ Script(d) /\ ~(Current(d) + 1 <= Limit)
  BY DEF Refused, Within
<1>2. HasKey(d) => counter[d] > 0
  BY DEF DeviceWindow
<1>3. /\ HasKey(d)' /\ counter'[d] > 0
      /\ HasKey(d) => expiry'[d] = expiry[d]
      /\ ~HasKey(d) => expiry'[d] = now + Window
  BY <1>1, <1>2, ScriptEffect
<1>4. Counted(d) = Limit /\ Counted(d)' = Limit /\ (~HasKey(d) => Limit = 0)
  <2>1. counter[d] \in Nat /\ Limit \in Nat
    BY LimiterAssumption DEF TypeOK
  <2>2. Counted(d) = Limit /\ Counted(d)' \in {Counted(d), Counted(d) + 1}
    BY <1>1, <1>2, ScriptCounts
  <2>3. Counted(d)' = IF counter'[d] < Limit THEN counter'[d] ELSE Limit
    BY <1>3 DEF Counted
  <2>4. ~HasKey(d) => Counted(d) = 0
    BY DEF Counted
  <2>5. counter'[d] = Current(d) + 1
    BY <1>1, <1>2, ScriptEffect
  <2>6. ~(counter'[d] < Limit)
    BY <1>1, <2>1, <2>5 DEF Current
  <2> QED
    BY <2>2, <2>3, <2>4, <2>6
<1>5. \A V : AdmittedIn(d, V)' = AdmittedIn(d, V) /\ AdmittedIn(d, V) \in Nat
  BY <1>1, AdmittedFinite DEF AdmittedIn
<1>6. AdmittedFrom(d, expiry[d] - Window)' >= Counted(d)'
  <2>0. PICK u \in Nat : u = expiry'[d]
    BY <1>3, LimiterAssumption DEF TypeOK
  <2>1. AdmittedFrom(d, expiry[d] - Window)' = AdmittedIn(d, u - Window .. u - Window + Window - 1)'
    BY <2>0 DEF AdmittedFrom, AdmittedIn
  <2>2. AdmittedIn(d, u - Window .. u - Window + Window - 1) >= Limit
    <3>1. CASE HasKey(d)
      BY <1>3, <1>4, <2>0, <3>1 DEF DeviceWindow, AdmittedFrom
    <3>2. CASE ~HasKey(d)
      BY <1>4, <1>5, <3>2
    <3> QED
      BY <3>1, <3>2
  <2> QED
    BY <1>4, <1>5, <2>1, <2>2
<1>7. ASSUME NEW t \in 0..MaxTime, now' < t + Window
      PROVE  AdmittedIn(d, t .. MaxTime)' <= OtherWindows(d, t)' + Counted(d)' + unmetered'[d]
  <2>1. AdmittedIn(d, t .. MaxTime) <= OtherWindows(d, t) + Counted(d) + unmetered[d]
    BY <1>1, <1>7 DEF DeviceWindow
  <2>2. /\ OtherWindows(d, t) \in {0, Limit + evictions[d] * Limit}
        /\ Limit + evictions[d] * Limit \in Nat
        /\ Counted(d) \in Nat /\ unmetered[d] \in Nat
    BY WindowNumbers
  <2>3. OtherWindows(d, t)' \in {0, Limit + evictions[d] * Limit}
    BY <1>1 DEF OtherWindows
  <2>4. AdmittedIn(d, t .. MaxTime)' = AdmittedIn(d, t .. MaxTime)
    BY <1>5
  <2>5. CASE HasKey(d)
    <3>1. OtherWindows(d, t)' = OtherWindows(d, t)
      BY <1>1, <1>3, <2>5 DEF OtherWindows
    <3> QED
      BY <1>1, <1>4, <2>1, <2>2, <2>4, <3>1
  <2>6. CASE ~HasKey(d) /\ t <= now
    <3>1. now \in Nat /\ Window \in Nat
      BY LimiterAssumption DEF TypeOK
    <3>2. ~(expiry'[d] - Window < t)
      BY <1>3, <2>6, <3>1
    <3>3. OtherWindows(d, t)' = OtherWindows(d, t)
      BY <1>1, <2>6, <3>2 DEF OtherWindows
    <3> QED
      BY <1>1, <1>4, <2>1, <2>2, <2>4, <3>3
  <2>7. CASE ~(t <= now)
    <3>1. \A u \in 0..MaxTime : u \in t .. MaxTime => now < u
      BY <2>7, LimiterAssumption DEF TypeOK
    <3>2. AdmittedIn(d, t .. MaxTime) = 0
      BY <3>1, AdmittedLater DEF DeviceWindow
    <3> QED
      BY <1>1, <1>4, <2>2, <2>3, <2>4, <3>2
  <2> QED
    BY <2>5, <2>6, <2>7
<1>8. \A i \in DOMAIN admits'[d] : admits'[d][i] <= now'
  BY <1>1 DEF DeviceWindow
<1> QED
  BY <1>3, <1>6, <1>7, <1>8 DEF DeviceWindow

\* An evicted key leaves what it had counted to the windows cut short.
LEMMA EvictKeepsWindow ==
  ASSUME TypeOK, NEW d \in Devices, DeviceWindow(d), Evict(d)
  PROVE  DeviceWindow(d)'
<1>1. /\ now' = now /\ admits' = admits /\ unmetered' = unmetered
      /\ evictions'[d] = evictions[d] + 1 /\ expiry'[d] = now
  BY DEF Evict, TypeOK
<1>2. ~HasKey(d)' /\ Counted(d)' = 0
  BY <1>1, LimiterAssumption DEF HasKey, Counted, TypeOK
<1>3. \A i \in DOMAIN admits'[d] : admits'[d][i] <= now'
  BY <1>1 DEF DeviceWindow
<1>4. ASSUME NEW t \in 0..MaxTime, now' < t + Window
      PROVE  AdmittedIn(d, t .. MaxTime)' <= OtherWindows(d, t)' + Counted(d)' + unmetered'[d]
  <2>1. AdmittedIn(d, t .. MaxTime) <= OtherWindows(d, t) + Counted(d) + unmetered[d]
    BY <1>1, <1>4 DEF DeviceWindow
  <2>2. /\ OtherWindows(d, t) \in {0, Limit + evictions[d] * Limit}
        /\ Limit + evictions[d] * Limit \in Nat
        /\ Counted(d) \in 0..Limit /\ Limit \in Nat /\ unmetered[d] \in Nat
        /\ evictions[d] \in Nat
    BY WindowNumbers
  <2>3. AdmittedIn(d, t .. MaxTime)' = AdmittedIn(d, t .. MaxTime)
    BY <1>1, AdmittedSame
  <2>4. OtherWindows(d, t)' = Limit + evictions'[d] * Limit
    BY <1>2 DEF OtherWindows
  <2>5. \A e, l \in Nat : (e + 1) * l = e * l + l
    OBVIOUS
  <2>6. evictions'[d] * Limit = evictions[d] * Limit + Limit
    BY <1>1, <2>2, <2>5
  <2>7. AdmittedIn(d, t .. MaxTime) \in Nat
    BY AdmittedFinite
  <2> DEFINE p == evictions[d] * Limit
  <2>8. p \in Int
    BY <2>2
  <2>9. /\ OtherWindows(d, t)' = Limit + (p + Limit)
        /\ OtherWindows(d, t) \in {0, Limit + p} /\ Limit + p \in Nat
    BY <2>2, <2>4, <2>6
  <2> HIDE DEF p
  <2>10. OtherWindows(d, t) + Counted(d) <= Limit + (p + Limit)
    BY <2>2, <2>8, <2>9
  <2>11. AdmittedIn(d, t .. MaxTime) <= OtherWindows(d, t)' + unmetered[d]
    <3>1. \A x, o, c, u, b \in Int : x <= o + c + u /\ o + c <= b => x <= b + u
      OBVIOUS
    <3>2. OtherWindows(d, t)' \in Int /\ OtherWindows(d, t)' = Limit + (p + Limit)
      BY <2>2, <2>8, <2>9
    <3>3. OtherWindows(d, t) \in Int /\ Counted(d) \in Int /\ unmetered[d] \in Int
      BY <2>2, <2>9
    <3>4. AdmittedIn(d, t .. MaxTime) \in Int
      BY <2>7
    <3>5. OtherWindows(d, t) + Counted(d) <= OtherWindows(d, t)'
      BY <2>10, <3>2
    <3> QED
      BY <2>1, <3>1, <3>2, <3>3, <3>4, <3>5
  <2> QED
    BY <1>1, <1>2, <2>2, <2>3, <2>8, <2>9, <2>11
<1> QED
  BY <1>2, <1>3, <1>4 DEF DeviceWindow

\* A key that expires hands what it counted over to the other windows: a
\* stretch that is not over began after it did.
LEMMA TickKeepsWindow ==
  ASSUME TypeOK, NEW d \in Devices, DeviceWindow(d), Tick
  PROVE  DeviceWindow(d)'
<1>1. /\ now' = now + 1 /\ counter' = counter /\ expiry' = expiry /\ admits' = admits
      /\ unmetered' = unmetered /\ evictions' = evictions
      /\ now \in Nat /\ expiry[d] \in Nat /\ Window \in Nat
  BY LimiterAssumption DEF Tick, TypeOK
<1>2. \A i \in DOMAIN admits'[d] : admits'[d][i] <= now'
  <2>1. admits[d] \in Seq(0..MaxTime)
    BY DEF TypeOK
  <2>2. \A i \in DOMAIN admits[d] : admits[d][i] \in 0..MaxTime
    <3>1. DOMAIN admits[d] = 1..Len(admits[d])
      BY <2>1
    <3> QED
      BY <2>1, <3>1, ElementOfSeq
  <2>3. \A i \in DOMAIN admits[d] : admits[d][i] <= now
    BY DEF DeviceWindow
  <2> QED
    BY <1>1, <2>2, <2>3, LimiterAssumption
<1>3. \A V : AdmittedIn(d, V)' = AdmittedIn(d, V)
  BY <1>1 DEF AdmittedIn
<1>4. HasKey(d)' => HasKey(d) /\ Counted(d)' = Counted(d)
  BY <1>1 DEF HasKey, Counted
<1>5. HasKey(d)' => counter'[d] > 0 /\ AdmittedFrom(d, expiry[d] - Window)' >= Counted(d)'
  BY <1>1, <1>3, <1>4 DEF DeviceWindow, AdmittedFrom
<1>6. ASSUME NEW t \in 0..MaxTime, now' < t + Window
      PROVE  AdmittedIn(d, t .. MaxTime)' <= OtherWindows(d, t)' + Counted(d)' + unmetered'[d]
  <2>1. AdmittedIn(d, t .. MaxTime) <= OtherWindows(d, t) + Counted(d) + unmetered[d]
    BY <1>1, <1>6 DEF DeviceWindow
  <2>2. /\ OtherWindows(d, t) \in {0, Limit + evictions[d] * Limit}
        /\ Limit + evictions[d] * Limit \in Nat
        /\ Counted(d) \in 0..Limit /\ Limit \in Nat /\ unmetered[d] \in Nat
    BY WindowNumbers
  <2>3. AdmittedIn(d, t .. MaxTime)' = AdmittedIn(d, t .. MaxTime) /\ AdmittedIn(d, t .. MaxTime) \in Nat
    BY <1>3, AdmittedFinite
  <2>4. CASE HasKey(d)'
    <3>1. OtherWindows(d, t)' = OtherWindows(d, t)
      BY <1>1, <1>4, <2>4 DEF OtherWindows
    <3> QED
      BY <1>1, <1>4, <2>1, <2>2, <2>3, <2>4, <3>1
  <2>5. CASE ~HasKey(d)' /\ ~HasKey(d)
    <3>1. OtherWindows(d, t)' = OtherWindows(d, t) /\ Counted(d)' = Counted(d)
      BY <1>1, <2>5 DEF OtherWindows, Counted
    <3> QED
      BY <1>1, <2>1, <2>2, <2>3, <3>1
  <2>6. CASE ~HasKey(d)' /\ HasKey(d)
    <3>1. expiry[d] - Window < t
      BY <1>1, <1>6, <2>6 DEF HasKey
    <3>2. OtherWindows(d, t) = 0
      BY <2>6, <3>1 DEF OtherWindows
    <3>3. OtherWindows(d, t)' = Limit + evictions[d] * Limit /\ Counted(d)' = 0
      BY <1>1, <2>6 DEF OtherWindows, Counted
    <3>4. evictions[d] * Limit \in Nat
      <4>1. evictions[d] \in Nat /\ \A m, n \in Nat : m * n \in Nat
        BY WindowNumbers
      <4> QED
        BY <2>2, <4>1
    <3> DEFINE p == evictions[d] * Limit
    <3>5. p \in Nat /\ OtherWindows(d, t)' = Limit + p
      BY <3>3, <3>4
    <3> HIDE DEF p
    <3> QED
      BY <1>1, <2>1, <2>2, <2>3, <3>2, <3>3, <3>5
  <2> QED
    BY <2>4, <2>5, <2>6
<1> QED
  BY <1>2, <1>5, <1>6 DEF DeviceWindow

\* WindowInv holds at the start.
LEMMA WindowInit == Init => WindowInv
<1> SUFFICES ASSUME Init, NEW d \in Devices PROVE DeviceWindow(d)
  BY DEF WindowInv
<1>1. now = 0 /\ expiry[d] = 0 /\ admits[d] = << >> /\ unmetered[d] = 0 /\ evictions[d] = 0
  BY DEF Init
<1>2. ~HasKey(d) /\ Counted(d) = 0
  BY <1>1 DEF HasKey, Counted
<1>3. \A V : AdmittedIn(d, V) = 0
  <2>1. Cardinality({}) = 0
    BY FS_EmptySet
  <2>2. \A V : {i \in DOMAIN admits[d] : admits[d][i] \in V} = {}
    BY <1>1
  <2> QED
    BY <2>1, <2>2 DEF AdmittedIn
<1>4. \A t \in 0..MaxTime : OtherWindows(d, t) \in Nat
  <2>1. 0 * Limit = 0 /\ Limit \in Nat
    BY LimiterAssumption
  <2> QED
    BY <1>1, <1>2, <2>1 DEF OtherWindows
<1> QED
  BY <1>1, <1>2, <1>3, <1>4 DEF DeviceWindow

\* Every step keeps it.
LEMMA WindowStay ==
  ASSUME TypeOK, TypeOK', KeyAlwaysExpires', WindowInv, [Next]_vars
  PROVE  WindowInv'
<1>0. SUFFICES ASSUME NEW e \in Devices PROVE DeviceWindow(e)'
  BY DEF WindowInv
<1>1. DeviceWindow(e)
  BY DEF WindowInv
<1>2. CASE Tick
  BY <1>1, <1>2, TickKeepsWindow
<1>3. ASSUME NEW d \in Devices, Allowed(d) PROVE DeviceWindow(e)'
  <2>1. /\ Script(d) /\ Admit(d) /\ now' = now /\ unmetered' = unmetered /\ evictions' = evictions
        /\ Current(d) + 1 <= Limit
    BY <1>3 DEF Allowed, Within
  <2>2. CASE e = d
    <3>1. HasKey(d) => counter[d] > 0
      BY <1>1, <2>2 DEF DeviceWindow
    <3>2. Counted(d)' = Counted(d) + 1
      BY <2>1, <3>1, ScriptCounts
    <3> QED
      BY <1>1, <2>1, <2>2, <3>2, AdmitKeepsWindow
  <2>3. CASE e # d
    <3>1. counter'[e] = counter[e] /\ expiry'[e] = expiry[e] /\ admits'[e] = admits[e]
      BY <2>1, <2>3 DEF Script, Admit, TypeOK
    <3> QED
      BY <1>1, <2>1, <3>1, WindowFrame
  <2> QED
    BY <2>2, <2>3
<1>4. ASSUME NEW d \in Devices, Refused(d) PROVE DeviceWindow(e)'
  <2>1. CASE e = d
    BY <1>1, <1>4, <2>1, RefusedKeepsWindow
  <2>2. CASE e # d
    <3>1. /\ counter'[e] = counter[e] /\ expiry'[e] = expiry[e] /\ now' = now /\ admits' = admits
          /\ unmetered' = unmetered /\ evictions' = evictions
      BY <1>4, <2>2 DEF Refused, Script, TypeOK
    <3> QED
      BY <1>1, <3>1, WindowFrame
  <2> QED
    BY <2>1, <2>2
<1>5. ASSUME NEW d \in Devices, FailsOpen(d) PROVE DeviceWindow(e)'
  <2>1. /\ Script(d) \/ UNCHANGED <<counter, expiry>>
        /\ Admit(d) /\ now' = now /\ evictions' = evictions
        /\ unmetered' = [unmetered EXCEPT ![d] = @ + 1]
    BY <1>5 DEF FailsOpen
  <2>2. CASE e = d
    <3>1. HasKey(d) => counter[d] > 0
      BY <1>1, <2>2 DEF DeviceWindow
    <3>2. Counted(d)' \in {Counted(d), Counted(d) + 1}
      <4>1. CASE Script(d)
        BY <2>1, <3>1, <4>1, ScriptCounts
      <4>2. CASE UNCHANGED <<counter, expiry>>
        BY <2>1, <4>2 DEF Counted, HasKey
      <4> QED
        BY <2>1, <4>1, <4>2
    <3>3. unmetered'[d] = unmetered[d] + 1
      BY <2>1 DEF TypeOK
    <3> QED
      BY <1>1, <2>1, <2>2, <3>2, <3>3, AdmitKeepsWindow
  <2>3. CASE e # d
    <3>1. /\ counter'[e] = counter[e] /\ expiry'[e] = expiry[e] /\ admits'[e] = admits[e]
          /\ unmetered'[e] = unmetered[e]
      BY <2>1, <2>3 DEF Script, Admit, TypeOK
    <3> QED
      BY <1>1, <2>1, <3>1, WindowFrame
  <2> QED
    BY <2>2, <2>3
<1>6. ASSUME NEW d \in Devices, Evict(d) PROVE DeviceWindow(e)'
  <2>1. CASE e = d
    BY <1>1, <1>6, <2>1, EvictKeepsWindow
  <2>2. CASE e # d
    <3>1. /\ counter'[e] = counter[e] /\ expiry'[e] = expiry[e] /\ now' = now /\ admits' = admits
          /\ unmetered' = unmetered /\ evictions'[e] = evictions[e]
      BY <1>6, <2>2 DEF Evict, TypeOK
    <3> QED
      BY <1>1, <3>1, WindowFrame
  <2> QED
    BY <2>1, <2>2
<1>7. CASE UNCHANGED vars
  BY <1>1, <1>7, WindowFrame DEF vars
<1> QED
  BY <1>2, <1>3, <1>4, <1>5, <1>6, <1>7 DEF Next

-----------------------------------------------------------------------------
(***************************************************************************)
(* What the limiter lets through in a stretch of time.                     *)
(***************************************************************************)
\* While a stretch lasts, the invariant bounds it.
LEMMA LastingStretch ==
  ASSUME TypeOK, NEW d \in Devices, DeviceWindow(d), NEW t \in 0..MaxTime, now < t + Window
  PROVE  AdmittedFrom(d, t) <= (2 + evictions[d]) * Limit + unmetered[d]
<1>1. AdmittedIn(d, t .. MaxTime) <= OtherWindows(d, t) + Counted(d) + unmetered[d]
  BY DEF DeviceWindow
<1>2. AdmittedIn(d, t .. t + Window - 1) <= AdmittedIn(d, t .. MaxTime)
  <2>1. \A u \in 0..MaxTime : u <= now /\ u \in t .. t + Window - 1 => u \in t .. MaxTime
    BY LimiterAssumption
  <2> QED
    BY <2>1, AdmittedMonotone DEF DeviceWindow
<1>3. /\ OtherWindows(d, t) \in {0, Limit + evictions[d] * Limit}
      /\ Limit + evictions[d] * Limit \in Nat
      /\ Counted(d) \in 0..Limit /\ Limit \in Nat /\ unmetered[d] \in Nat
      /\ evictions[d] \in Nat
  BY WindowNumbers
<1>4. \A e, l \in Nat : (2 + e) * l = (l + e * l) + l
  OBVIOUS
<1>5. (2 + evictions[d]) * Limit = (Limit + evictions[d] * Limit) + Limit
  BY <1>3, <1>4
<1>6. AdmittedIn(d, t .. MaxTime) \in Nat /\ AdmittedIn(d, t .. t + Window - 1) \in Nat
  BY AdmittedFinite
<1> DEFINE p == Limit + evictions[d] * Limit
<1>7. /\ OtherWindows(d, t) \in {0, p} /\ p \in Nat /\ (2 + evictions[d]) * Limit = p + Limit
  BY <1>3, <1>5
<1> HIDE DEF p
<1>8. OtherWindows(d, t) \in Int /\ OtherWindows(d, t) <= p
  BY <1>7
<1>9. \A x, y, o, c, u, q, l \in Int :
        y <= x /\ x <= o + c + u /\ o <= q /\ c <= l => y <= q + l + u
  OBVIOUS
<1>10. /\ Counted(d) \in Int /\ Counted(d) <= Limit /\ Limit \in Int
       /\ unmetered[d] \in Int /\ p \in Int
  BY <1>3, <1>7
<1>11. AdmittedIn(d, t .. t + Window - 1) <= p + Limit + unmetered[d]
  BY <1>1, <1>2, <1>6, <1>8, <1>9, <1>10
<1> QED
  BY <1>7, <1>11 DEF AdmittedFrom

\* Once a stretch is over nothing is added to it.
LEMMA FinishedStretch ==
  ASSUME TypeOK, TypeOK', NEW d \in Devices, NEW t \in 0..MaxTime, [Next]_vars,
         now' >= t + Window,
         AdmittedFrom(d, t) <= (2 + evictions[d]) * Limit + unmetered[d]
  PROVE  AdmittedFrom(d, t)' <= (2 + evictions'[d]) * Limit + unmetered'[d]
<1>1. AdmittedFrom(d, t)' = AdmittedFrom(d, t) /\ AdmittedFrom(d, t) \in Nat
  <2>1. t \in Nat /\ Window \in Nat /\ now \in Nat
    BY LimiterAssumption DEF TypeOK
  <2>2. admits'[d] = admits[d] \/ (now' = now /\ Admit(d))
    BY DEF Next, Tick, Allowed, Refused, FailsOpen, Evict, Admit, vars, TypeOK
  <2>3. CASE admits'[d] = admits[d]
    BY <2>3, AdmittedFinite DEF AdmittedFrom, AdmittedIn
  <2>4. CASE now' = now /\ Admit(d)
    <3>1. now \notin t .. t + Window - 1
      BY <2>1, <2>4
    <3>2. AdmittedIn(d, t .. t + Window - 1)' = AdmittedIn(d, t .. t + Window - 1)
      BY <2>4, <3>1, AdmitCount
    <3> QED
      BY <3>2, AdmittedFinite DEF AdmittedFrom, AdmittedIn
  <2> QED
    BY <2>2, <2>3, <2>4
<1>2. /\ evictions[d] \in Nat /\ unmetered[d] \in Nat /\ Limit \in Nat
      /\ evictions'[d] \in {evictions[d], evictions[d] + 1}
      /\ unmetered'[d] \in {unmetered[d], unmetered[d] + 1}
  <2>1. /\ evictions \in [Devices -> 0..MaxFaults] /\ unmetered \in [Devices -> 0..MaxFaults]
        /\ MaxFaults \in Nat /\ Limit \in Nat
    BY LimiterAssumption DEF TypeOK
  <2>2. /\ evictions' = evictions \/ \E e \in Devices : evictions' = [evictions EXCEPT ![e] = @ + 1]
        /\ unmetered' = unmetered \/ \E e \in Devices : unmetered' = [unmetered EXCEPT ![e] = @ + 1]
    BY DEF Next, Tick, Allowed, Refused, FailsOpen, Evict, vars
  <2> QED
    BY <2>1, <2>2
<1>3. \A e, l \in Nat : (2 + e) * l \in Nat /\ (2 + (e + 1)) * l = (2 + e) * l + l
  OBVIOUS
<1>4. /\ (2 + evictions[d]) * Limit \in Nat
      /\ (2 + (evictions[d] + 1)) * Limit = (2 + evictions[d]) * Limit + Limit
  BY <1>2, <1>3
<1> DEFINE p == (2 + evictions[d]) * Limit
           q == (2 + evictions'[d]) * Limit
<1>5. p \in Nat /\ q \in {p, p + Limit}
  BY <1>2, <1>4
<1>6. AdmittedFrom(d, t) <= p + unmetered[d]
  OBVIOUS
<1>7. AdmittedFrom(d, t)' <= q + unmetered'[d]
  <2> HIDE DEF p, q
  <2> QED
    BY <1>1, <1>2, <1>5, <1>6
<1> QED
  BY <1>7

\* A stretch that lasts is within the bound.
LastingWithin ==
  \A d \in Devices : \A t \in 0..MaxTime :
    now < t + Window => AdmittedFrom(d, t) <= (2 + evictions[d]) * Limit + unmetered[d]

\* What every reachable state satisfies.
LimiterInv == TypeOK /\ KeyAlwaysExpires /\ WindowInv

LEMMA LimiterInvariant == Spec => [](LimiterInv /\ LastingWithin)
<1>1. Init => WindowInv
  BY WindowInit
<1>2. ASSUME TypeOK, TypeOK', KeyAlwaysExpires', WindowInv, [Next]_vars PROVE WindowInv'
  BY <1>2, WindowStay
<1>3. LimiterInv => LastingWithin
  BY LastingStretch DEF LimiterInv, WindowInv, LastingWithin
<1>4. Spec => []LimiterInv
  BY <1>1, <1>2, LimiterTypeCorrect, NoImmortalKey, PTL DEF Spec, LimiterInv
<1> QED
  BY <1>3, <1>4, PTL

\* In any stretch of time as long as the window a device gets at most twice the
\* limit through, beyond the calls that Redis failed and what evictions cut short.
THEOREM LimitHolds == Spec => []AtMostTwiceLimit
<1>1. ASSUME LastingWithin, Init PROVE AtMostTwiceLimit
  BY <1>1, LimiterAssumption DEF Init, LastingWithin, AtMostTwiceLimit
<1>2. ASSUME LimiterInv, LimiterInv', LastingWithin', AtMostTwiceLimit, [Next]_vars
      PROVE  AtMostTwiceLimit'
  <2> SUFFICES ASSUME NEW d \in Devices, NEW t \in 0..MaxTime
               PROVE  AdmittedFrom(d, t)' <= (2 + evictions'[d]) * Limit + unmetered'[d]
    BY DEF AtMostTwiceLimit
  <2>1. CASE now' >= t + Window
    BY <1>2, <2>1, FinishedStretch DEF LimiterInv, AtMostTwiceLimit
  <2>2. CASE ~(now' >= t + Window)
    <3>1. now' < t + Window
      BY <1>2, <2>2, LimiterAssumption DEF LimiterInv, TypeOK
    <3> QED
      BY <1>2, <3>1 DEF LastingWithin
  <2> QED
    BY <2>1, <2>2
<1> QED
  BY <1>1, <1>2, LimiterInvariant, PTL DEF Spec

\* A device that is refused got its limit through within the window that runs.
THEOREM NobodyRefusedEarly == Spec => RefusedOnlyAtLimit
<1>1. ASSUME LimiterInv, NEW d \in Devices, Next, counter'[d] > counter[d], admits'[d] = admits[d]
      PROVE  AdmittedFrom(d, expiry[d] - Window) >= Limit
  <2>1. /\ counter[d] \in Nat /\ Limit \in Nat /\ admits[d] \in Seq(0..MaxTime)
        /\ counter \in [Devices -> 0..MaxCount] /\ admits \in [Devices -> Seq(0..MaxTime)]
    BY <1>1, LimiterAssumption DEF LimiterInv, TypeOK
  <2>2. ~Admit(d)
    <3> SUFFICES ASSUME Admit(d) PROVE FALSE
      OBVIOUS
    <3>1. admits[d] = Append(admits[d], now)
      BY <1>1, <2>1 DEF Admit
    <3>2. Len(admits[d]) \in Nat /\ Len(Append(admits[d], now)) = Len(admits[d]) + 1
      BY <2>1
    <3> QED
      BY <3>1, <3>2
  <2>3. Refused(d)
    <3>1. ~Tick
      BY <1>1, <2>1 DEF Tick
    <3>2. ASSUME NEW e \in Devices, e # d PROVE ~(Allowed(e) \/ Refused(e) \/ FailsOpen(e) \/ Evict(e))
      BY <1>1, <2>1, <3>2 DEF Allowed, Refused, FailsOpen, Evict, Script
    <3>3. ~Allowed(d) /\ ~FailsOpen(d)
      BY <2>2 DEF Allowed, FailsOpen
    <3>4. ~Evict(d)
      BY <1>1, <2>1 DEF Evict
    <3> QED
      BY <1>1, <3>1, <3>2, <3>3, <3>4 DEF Next
  <2>4. AdmittedFrom(d, expiry[d] - Window) \in Nat
    BY <1>1, AdmittedFinite DEF AdmittedFrom, LimiterInv
  <2>5. DeviceWindow(d) /\ ~(Current(d) + 1 <= Limit)
    BY <1>1, <2>3 DEF LimiterInv, WindowInv, Refused, Within
  <2>6. CASE HasKey(d)
    <3>1. Counted(d) = Limit
      BY <2>1, <2>5, <2>6 DEF Current, HasKey, Counted
    <3> QED
      BY <2>5, <2>6, <3>1 DEF DeviceWindow
  <2>7. CASE ~HasKey(d)
    BY <2>1, <2>4, <2>5, <2>7 DEF Current, HasKey
  <2> QED
    BY <2>6, <2>7
<1>2. ASSUME LimiterInv, [Next]_vars
      PROVE  [\A d \in Devices : counter'[d] > counter[d] /\ admits'[d] = admits[d] =>
                AdmittedFrom(d, expiry[d] - Window) >= Limit]_vars
  BY <1>1, <1>2
<1> QED
  BY <1>2, LimiterInvariant, PTL DEF Spec, RefusedOnlyAtLimit
=============================================================================
