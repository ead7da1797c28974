-------------------------- MODULE RetryWindowProofs --------------------------
(***************************************************************************)
(* Proofs about RetryWindow, for any settings and any outage.  Two         *)
(* functions of the module are recursive (the delay before its cap, and    *)
(* the least time to an attempt); that they are what their equations say,  *)
(* and natural numbers, is proved here by induction.                       *)
(***************************************************************************)
EXTENDS RetryWindow, WellFoundedInduction, TLAPS

-----------------------------------------------------------------------------
(***************************************************************************)
(* Induction and recursion.                                                *)
(***************************************************************************)
\* A set of natural numbers that is not empty has a least element.
LEMMA LeastNumber ==
  ASSUME NEW T \in SUBSET Nat, T # {}
  PROVE  \E x \in T : \A y \in T : ~(y < x)
<1> DEFINE R == {p \in Nat \X Nat : p[1] < p[2]}
<1>1. OpToRel(<, Nat) = R
  BY DEF OpToRel
<1>2. IsWellFoundedOn(R, Nat)
  BY <1>1, NatLessThanWellFounded
<1>3. \A x, y \in Nat : y < x => <<y, x>> \in R
  OBVIOUS
<1> HIDE DEF R
<1>4. \E x \in T : \A y \in T : ~(<<y, x>> \in R)
  BY <1>2, WFMin
<1> QED
  BY <1>3, <1>4

\* Induction, for a property given as the set of the numbers that have it.
LEMMA Induction ==
  ASSUME NEW S, 0 \in S, \A n \in Nat : n \in S => n + 1 \in S
  PROVE  Nat \subseteq S
<1> SUFFICES ASSUME NEW z \in Nat \ S PROVE FALSE
  OBVIOUS
<1>1. PICK m \in Nat \ S : \A n \in Nat \ S : ~(n < m)
  BY LeastNumber
<1>2. m # 0 /\ m - 1 \in Nat /\ m - 1 < m
  BY <1>1
<1>3. m - 1 \in S
  BY <1>1, <1>2
<1>4. (m - 1) + 1 \in S
  BY <1>2, <1>3
<1> QED
  BY <1>1, <1>4

\* A function on 1..k that is defined by recursion exists.
LEMMA Recursion ==
  ASSUME NEW a \in Nat, NEW g \in [Nat \X Nat -> Nat], NEW k \in Nat
  PROVE  \E f \in [1..k -> Nat] :
           \A n \in 1..k : f[n] = IF n = 1 THEN a ELSE g[<<n, f[n - 1]>>]
<1> DEFINE Recursive(f, j) == f \in [1..j -> Nat] /\ \A n \in 1..j : f[n] = IF n = 1 THEN a ELSE g[<<n, f[n - 1]>>]
           S == {j \in Nat : \E f : Recursive(f, j)}
<1>1. 0 \in S
  <2>1. Recursive([n \in 1..0 |-> a], 0)
    OBVIOUS
  <2> QED
    BY <2>1
<1>2. ASSUME NEW j \in Nat, j \in S PROVE j + 1 \in S
  <2>1. PICK f : Recursive(f, j)
    BY <1>2
  <2> DEFINE h == [n \in 1..j + 1 |-> IF n = j + 1 THEN IF n = 1 THEN a ELSE g[<<n, f[n - 1]>>] ELSE f[n]]
  <2>2. ASSUME NEW n \in 1..j PROVE h[n] = f[n] /\ n # j + 1
    OBVIOUS
  <2>3. j # 0 => f[j] \in Nat /\ h[j] = f[j] /\ <<j + 1, f[j]>> \in Nat \X Nat /\ j + 1 # 1
    BY <2>1
  <2>4. h[j + 1] = IF j + 1 = 1 THEN a ELSE g[<<j + 1, f[j]>>]
    BY <2>3
  <2>5. h[j + 1] \in Nat /\ h[j + 1] = IF j + 1 = 1 THEN a ELSE g[<<j + 1, h[j]>>]
    <3> HIDE DEF h
    <3> QED
      BY <2>3, <2>4
  <2>6. ASSUME NEW n \in 1..j PROVE h[n] \in Nat /\ h[n] = IF n = 1 THEN a ELSE g[<<n, h[n - 1]>>]
    <3>1. CASE n = 1
      <4> HIDE DEF h
      <4> QED
      BY <3>1, <2>1, <2>2
    <3>2. CASE n # 1
      <4>1. n - 1 \in 1..j /\ h[n - 1] = f[n - 1]
        BY <3>2, <2>2
      <4> HIDE DEF h
      <4> QED
      BY <3>2, <4>1, <2>1, <2>2
    <3> QED
      BY <3>1, <3>2
  <2>7. Recursive(h, j + 1)
    <3>1. \A n \in 1..j + 1 : n \in 1..j \/ n = j + 1
      OBVIOUS
    <3>2. h = [n \in 1..j + 1 |-> h[n]]
      OBVIOUS
    <3> HIDE DEF h
    <3>3. ASSUME NEW n \in 1..j + 1
          PROVE  h[n] \in Nat /\ h[n] = IF n = 1 THEN a ELSE g[<<n, h[n - 1]>>]
      <4>1. CASE n \in 1..j
        BY <2>6, <4>1
      <4>2. CASE n = j + 1
        <5>1. (j + 1) - 1 = j
          BY <1>2
        <5> QED
          BY <2>5, <4>2, <5>1
      <4> QED
        BY <3>1, <4>1, <4>2
    <3> QED
      BY <3>2, <3>3
  <2>8. \E e : Recursive(e, j + 1)
    <3> HIDE DEF Recursive, h
    <3> QED
      BY <2>7, Zenon
  <2>9. j + 1 \in Nat
    BY <1>2
  <2> HIDE DEF Recursive
  <2> QED
    BY <2>8, <2>9
<1>3. k \in S
  <2> HIDE DEF S
  <2> QED
    BY <1>1, <1>2, Induction
<1>4. PICK f : Recursive(f, k)
  BY <1>3
<1> QED
  BY <1>4

-----------------------------------------------------------------------------
(***************************************************************************)
(* The delays.                                                             *)
(***************************************************************************)
\* The delay before its cap is what its equation says.
LEMMA RawEquation ==
  Raw = [n \in 1..MaxAttempts |-> IF n = 1 THEN Base ELSE Multiplier * Raw[n - 1]]
<1> DEFINE g == [p \in Nat \X Nat |-> Multiplier * p[2]]
           Eq(f) == f = [n \in 1..MaxAttempts |-> IF n = 1 THEN Base ELSE Multiplier * f[n - 1]]
<1>1. MaxAttempts \in Nat /\ Multiplier \in Nat /\ Base \in Nat
  BY RetryAssumption
<1>2. g \in [Nat \X Nat -> Nat]
  BY <1>1
<1>3. PICK f \in [1..MaxAttempts -> Nat] :
        \A n \in 1..MaxAttempts : f[n] = IF n = 1 THEN Base ELSE g[<<n, f[n - 1]>>]
  <2>1. Base \in Nat
    BY <1>1
  <2>2. MaxAttempts \in Nat
    BY <1>1
  <2> HIDE DEF g
  <2>3. \A a, k \in Nat : \E f \in [1..k -> Nat] :
          \A n \in 1..k : f[n] = IF n = 1 THEN a ELSE g[<<n, f[n - 1]>>]
    BY <1>2, Recursion, Zenon
  <2> QED
    BY <2>1, <2>2, <2>3, Zenon
<1>4. ASSUME NEW n \in 1..MaxAttempts
      PROVE  f[n] = IF n = 1 THEN Base ELSE Multiplier * f[n - 1]
  <2>1. CASE n = 1
    BY <1>3, <2>1
  <2>2. CASE n # 1
    <3>1. n - 1 \in 1..MaxAttempts /\ n \in Nat
      BY <1>1, <2>2
    <3>2. f[n - 1] \in Nat
      BY <3>1, Zenon
    <3>3. g[<<n, f[n - 1]>>] = Multiplier * f[n - 1]
      BY <3>1, <3>2
    <3> HIDE DEF g
    <3> QED
      BY <1>3, <2>2, <3>3
  <2> QED
    BY <2>1, <2>2
<1> HIDE DEF g
<1>5. Eq(f)
  <2> DEFINE e(n) == IF n = 1 THEN Base ELSE Multiplier * f[n - 1]
  <2>1. \A n \in 1..MaxAttempts : f[n] = e(n)
    BY <1>4
  <2>2. f = [n \in 1..MaxAttempts |-> f[n]]
    OBVIOUS
  <2>3. f = [n \in 1..MaxAttempts |-> e(n)]
    <3> HIDE DEF e
    <3> QED
      BY <2>1, <2>2, Zenon
  <2> QED
    BY <2>3, Zenon
<1>6. \E h : Eq(h)
  <2> HIDE DEF Eq
  <2> QED
    BY <1>5
<1>7. Eq(CHOOSE h : Eq(h))
  <2> HIDE DEF Eq
  <2> QED
    BY <1>6
<1>8. Raw = CHOOSE h : Eq(h)
  BY Zenon DEF Raw
<1>9. Eq(Raw)
  <2> HIDE DEF Eq
  <2> QED
    BY <1>7, <1>8, Zenon
<1> QED
  BY <1>9, Zenon

\* So it is a natural number.
LEMMA RawType == Raw \in [1..MaxAttempts -> Nat]
<1> DEFINE S == {n \in Nat : n + 1 \in 1..MaxAttempts => Raw[n + 1] \in Nat}
<1>1. MaxAttempts \in Nat /\ Multiplier \in Nat /\ Base \in Nat
  BY RetryAssumption
<1>2. \A n \in 1..MaxAttempts : Raw[n] = IF n = 1 THEN Base ELSE Multiplier * Raw[n - 1]
  BY RawEquation
<1>3. 0 \in S
  BY <1>1, <1>2
<1>4. ASSUME NEW n \in Nat, n \in S PROVE n + 1 \in S
  <2> SUFFICES ASSUME n + 2 \in 1..MaxAttempts PROVE Raw[n + 2] \in Nat
    OBVIOUS
  <2>1. n + 1 \in 1..MaxAttempts /\ n + 2 # 1 /\ (n + 2) - 1 = n + 1
    BY <1>1
  <2>2. Raw[n + 1] \in Nat
    BY <1>4, <2>1
  <2>3. Raw[n + 2] = Multiplier * Raw[n + 1]
    BY <1>2, <2>1
  <2> QED
    BY <1>1, <2>2, <2>3
<1>5. Nat \subseteq S
  <2> HIDE DEF S
  <2> QED
    BY <1>3, <1>4, Induction
<1>6. ASSUME NEW n \in 1..MaxAttempts PROVE Raw[n] \in Nat
  <2>1. n - 1 \in Nat /\ (n - 1) + 1 = n
    BY <1>1
  <2>2. n - 1 \in S
    BY <1>5, <2>1
  <2> QED
    BY <2>1, <2>2
<1>7. Raw = [n \in 1..MaxAttempts |-> Raw[n]]
  BY RawEquation
<1> QED
  BY <1>6, <1>7

\* A delay before its jitter is at most MaxDelay, and its jitter is a part of it.
LEMMA DelayTypes ==
  ASSUME NEW n \in 1..MaxAttempts
  PROVE  /\ Backoff(n) \in 0..MaxDelay
         /\ Jitter(n) \in 0..Backoff(n)
         /\ Jitter(n) <= MaxDelay \div JitterParts
         /\ MaxDelay \div JitterParts \in Nat
<1>1. Raw[n] \in Nat /\ MaxDelay \in Nat /\ JitterParts \in Nat \ {0}
  BY RawType, RetryAssumption
<1>2. Backoff(n) \in 0..MaxDelay
  BY <1>1 DEF Backoff
<1>3. \A x \in Nat, y \in Nat \ {0} : x \div y \in 0..x
  OBVIOUS
<1>4. \A x, z \in Nat, y \in Nat \ {0} : x <= z => x \div y <= z \div y
  OBVIOUS
<1>5. Backoff(n) \in Nat /\ Backoff(n) <= MaxDelay
  BY <1>1, <1>2
<1>6. Jitter(n) \in 0..Backoff(n) /\ MaxDelay \div JitterParts \in Nat
  BY <1>1, <1>3, <1>5 DEF Jitter
<1>7. Jitter(n) <= MaxDelay \div JitterParts
  BY <1>1, <1>4, <1>5 DEF Jitter
<1> QED
  BY <1>2, <1>6, <1>7

\* Every delay lies between its backoff less the jitter and the cap with its jitter.
LEMMA DelayBounds ==
  ASSUME NEW n \in 1..MaxAttempts, NEW t \in Delays(n)
  PROVE  /\ t \in Nat /\ Backoff(n) - Jitter(n) \in Nat
         /\ t >= Backoff(n) - Jitter(n)
         /\ t <= MaxDelay + MaxDelay \div JitterParts
<1>1. Backoff(n) \in Nat /\ Jitter(n) \in Nat /\ Jitter(n) <= Backoff(n) /\ Backoff(n) <= MaxDelay
  BY DelayTypes, RetryAssumption
<1>2. t \in Int /\ t >= Backoff(n) - Jitter(n) /\ t <= Backoff(n) + Jitter(n)
  BY <1>1 DEF Delays
<1> DEFINE j == MaxDelay \div JitterParts
<1>3. j \in Nat /\ Jitter(n) <= j /\ MaxDelay \in Nat
  BY DelayTypes, RetryAssumption
<1> HIDE DEF j
<1>4. t <= MaxDelay + j
  BY <1>1, <1>2, <1>3
<1> QED
  BY <1>1, <1>2, <1>4 DEF j

\* The least time to an attempt is what its equation says.
LEMMA LeastWaitEquation ==
  LeastWait = [n \in 1..MaxAttempts |->
                 IF n = 1 THEN 0 ELSE LeastWait[n - 1] + Backoff(n - 1) - Jitter(n - 1)]
<1> DEFINE g == [p \in Nat \X Nat |->
                   IF p[1] - 1 \in 1..MaxAttempts THEN p[2] + Backoff(p[1] - 1) - Jitter(p[1] - 1) ELSE 0]
           Eq(f) == f = [n \in 1..MaxAttempts |->
                           IF n = 1 THEN 0 ELSE f[n - 1] + Backoff(n - 1) - Jitter(n - 1)]
<1>1. MaxAttempts \in Nat
  BY RetryAssumption
<1>2. g \in [Nat \X Nat -> Nat]
  <2>1. ASSUME NEW p \in Nat \X Nat PROVE g[p] \in Nat
    <3>1. CASE p[1] - 1 \in 1..MaxAttempts
      <4>1. PICK m \in 1..MaxAttempts : m = p[1] - 1
        BY <3>1
      <4>2. /\ Backoff(m) \in Nat /\ Jitter(m) \in Nat /\ Jitter(m) <= Backoff(m) /\ p[2] \in Nat
        BY DelayTypes, RetryAssumption
      <4>3. g[p] = p[2] + Backoff(m) - Jitter(m)
        BY <3>1, <4>1
      <4> HIDE DEF g
      <4> QED
        BY <4>2, <4>3
    <3>2. CASE ~(p[1] - 1 \in 1..MaxAttempts)
      BY <3>2
    <3> QED
      BY <3>1, <3>2
  <2> QED
    BY <2>1
<1>3. PICK f \in [1..MaxAttempts -> Nat] :
        \A n \in 1..MaxAttempts : f[n] = IF n = 1 THEN 0 ELSE g[<<n, f[n - 1]>>]
  <2>1. 0 \in Nat
    OBVIOUS
  <2> HIDE DEF g
  <2>2. \A a, k \in Nat : \E f \in [1..k -> Nat] :
          \A n \in 1..k : f[n] = IF n = 1 THEN a ELSE g[<<n, f[n - 1]>>]
    BY <1>2, Recursion, Zenon
  <2> QED
    BY <1>1, <2>1, <2>2, Zenon
<1>4. ASSUME NEW n \in 1..MaxAttempts
      PROVE  f[n] = IF n = 1 THEN 0 ELSE f[n - 1] + Backoff(n - 1) - Jitter(n - 1)
  <2>1. CASE n = 1
    BY <1>3, <2>1
  <2>2. CASE n # 1
    <3>1. n - 1 \in 1..MaxAttempts /\ n \in Nat
      BY <1>1, <2>2
    <3>2. f[n - 1] \in Nat
      BY <3>1, Zenon
    <3>3. g[<<n, f[n - 1]>>] = f[n - 1] + Backoff(n - 1) - Jitter(n - 1)
      <4>1. <<n, f[n - 1]>> \in Nat \X Nat
        BY <3>1, <3>2
      <4>2. <<n, f[n - 1]>>[1] = n /\ <<n, f[n - 1]>>[2] = f[n - 1]
        OBVIOUS
      <4> QED
        BY <3>1, <4>1, <4>2, Zenon
    <3> HIDE DEF g
    <3> QED
      BY <1>3, <2>2, <3>3
  <2> QED
    BY <2>1, <2>2
<1> HIDE DEF g
<1>5. Eq(f)
  <2> DEFINE e(n) == IF n = 1 THEN 0 ELSE f[n - 1] + Backoff(n - 1) - Jitter(n - 1)
  <2>1. \A n \in 1..MaxAttempts : f[n] = e(n)
    BY <1>4
  <2>2. f = [n \in 1..MaxAttempts |-> f[n]]
    OBVIOUS
  <2>3. f = [n \in 1..MaxAttempts |-> e(n)]
    <3> HIDE DEF e
    <3> QED
      BY <2>1, <2>2, Zenon
  <2> QED
    BY <2>3, Zenon
<1>6. \E h : Eq(h)
  <2> HIDE DEF Eq
  <2> QED
    BY <1>5, Zenon
<1>7. Eq(CHOOSE h : Eq(h))
  <2> HIDE DEF Eq
  <2> QED
    BY <1>6, Zenon
<1>8. LeastWait = CHOOSE h : Eq(h)
  BY Zenon DEF LeastWait
<1>9. Eq(LeastWait)
  <2> HIDE DEF Eq
  <2> QED
    BY <1>7, <1>8, Zenon
<1> QED
  BY <1>9, Zenon

\* The least time to the first attempt, and to the one after an attempt.
LEMMA LeastWaitSteps ==
  /\ LeastWait[1] = 0
  /\ \A n \in 1..MaxAttempts :
       n + 1 \in 1..MaxAttempts => LeastWait[n + 1] = LeastWait[n] + Backoff(n) - Jitter(n)
<1>1. MaxAttempts \in Nat /\ 1 \in 1..MaxAttempts
  BY RetryAssumption
<1>2. \A n \in 1..MaxAttempts :
        LeastWait[n] = IF n = 1 THEN 0 ELSE LeastWait[n - 1] + Backoff(n - 1) - Jitter(n - 1)
  BY LeastWaitEquation
<1>3. ASSUME NEW n \in 1..MaxAttempts, n + 1 \in 1..MaxAttempts
      PROVE  LeastWait[n + 1] = LeastWait[n] + Backoff(n) - Jitter(n)
  <2>1. n + 1 # 1 /\ (n + 1) - 1 = n
    OBVIOUS
  <2> QED
    BY <1>2, <1>3, <2>1
<1> QED
  BY <1>1, <1>2, <1>3

\* So it is a natural number.
LEMMA LeastWaitType == \A n \in 1..MaxAttempts : LeastWait[n] \in Nat
<1> DEFINE S == {n \in Nat : n + 1 \in 1..MaxAttempts => LeastWait[n + 1] \in Nat}
<1>1. MaxAttempts \in Nat
  BY RetryAssumption
<1>2. 0 \in S
  BY LeastWaitSteps
<1>3. ASSUME NEW n \in Nat, n \in S PROVE n + 1 \in S
  <2> SUFFICES ASSUME (n + 1) + 1 \in 1..MaxAttempts PROVE LeastWait[(n + 1) + 1] \in Nat
    OBVIOUS
  <2>1. n + 1 \in 1..MaxAttempts
    BY <1>1
  <2>2. LeastWait[n + 1] \in Nat
    BY <1>3, <2>1
  <2>3. LeastWait[(n + 1) + 1] = LeastWait[n + 1] + Backoff(n + 1) - Jitter(n + 1)
    BY <2>1, LeastWaitSteps
  <2>4. /\ Backoff(n + 1) \in Nat /\ Jitter(n + 1) \in Nat /\ Jitter(n + 1) <= Backoff(n + 1)
    BY <2>1, DelayTypes, RetryAssumption
  <2> QED
    BY <2>2, <2>3, <2>4
<1>4. Nat \subseteq S
  <2> HIDE DEF S
  <2> QED
    BY <1>2, <1>3, Induction
<1>5. ASSUME NEW n \in 1..MaxAttempts PROVE LeastWait[n] \in Nat
  <2>1. n - 1 \in Nat /\ (n - 1) + 1 = n
    BY <1>1
  <2>2. n - 1 \in S
    BY <1>4, <2>1
  <2> QED
    BY <2>1, <2>2
<1> QED
  BY <1>5

-----------------------------------------------------------------------------
(***************************************************************************)
(* The invariants.                                                         *)
(***************************************************************************)
RetryInv == TypeOK /\ ClockInv /\ EarliestInv

LEMMA RetryInit == Init => RetryInv /\ LatestInv
<1> SUFFICES ASSUME Init PROVE RetryInv /\ LatestInv
  OBVIOUS
<1>1. MaxAttempts \in Nat \ {0} /\ MaxOutage \in Nat /\ LeastWait[1] = 0
  BY LeastWaitSteps, RetryAssumption
<1>2. TypeOK
  BY <1>1 DEF Init, TypeOK, Stages
<1>3. ClockInv
  BY <1>1 DEF Init, ClockInv
<1>4. EarliestInv
  BY <1>1 DEF Init, EarliestInv
<1>5. LongestTry \in Nat /\ LongestDelay \in Nat
  BY DelayTypes, <1>1, RetryAssumption DEF LongestDelay
<1>6. LatestInv
  BY <1>1, <1>5 DEF Init, LatestInv, SoonAfterOutage
<1> QED
  BY <1>2, <1>3, <1>4, <1>6 DEF RetryInv

\* The types and the clock: a sleeping call has an attempt left.
LEMMA ClockStay ==
  ASSUME RetryInv, [Next]_vars
  PROVE  TypeOK' /\ ClockInv'
<1>1. /\ stage \in Stages /\ attempt \in 1..MaxAttempts /\ timer \in Nat /\ elapsed \in Nat
      /\ outage \in Nat /\ outage <= length /\ length \in 0..MaxOutage /\ length \in Nat
      /\ MaxAttempts \in Nat /\ LongestTry \in Nat /\ MaxOutage \in Nat
  BY RetryAssumption DEF RetryInv, TypeOK
<1>2. /\ outage = IF elapsed < length THEN length - elapsed ELSE 0
      /\ stage \in {"trying", "stored", "exhausted"} => timer = 0
      /\ stage = "sleeping" => attempt < MaxAttempts
  BY DEF RetryInv, ClockInv, EarliestInv
<1>3. CASE Succeed
  BY <1>1, <1>2, <1>3 DEF Succeed, TypeOK, ClockInv, Stages
<1>4. CASE Call
  BY <1>1, <1>2, <1>4 DEF Call, TypeOK, ClockInv, Stages
<1>10. CASE SucceedLate
  BY <1>1, <1>2, <1>10 DEF SucceedLate, Answered, TypeOK, ClockInv, Stages
<1>5. CASE Sleep
  <2>1. timer' \in Nat
    BY <1>1, <1>5, DelayBounds DEF Sleep
  <2> QED
    BY <1>1, <1>2, <1>5, <2>1 DEF Sleep, TypeOK, ClockInv, Stages
<1>6. CASE GiveUp
  BY <1>1, <1>2, <1>6 DEF GiveUp, Answered, TypeOK, ClockInv, Stages
<1>7. CASE TryAgain
  BY <1>1, <1>2, <1>7 DEF TryAgain, TypeOK, ClockInv, Stages
<1>8. CASE Tick
  BY <1>1, <1>2, <1>8 DEF Tick, TypeOK, ClockInv, Stages
<1>9. CASE UNCHANGED vars
  BY <1>1, <1>2, <1>9 DEF vars, TypeOK, ClockInv, Stages
<1> QED
  BY <1>3, <1>4, <1>5, <1>6, <1>7, <1>8, <1>9, <1>10 DEF Next

\* An attempt begins no earlier than its delays allow, and fails only while the
\* outage outlasts it.
LEMMA EarliestStay ==
  ASSUME RetryInv, [Next]_vars
  PROVE  EarliestInv'
<1>1. /\ attempt \in 1..MaxAttempts /\ timer \in Nat /\ elapsed \in Nat /\ length \in Nat
      /\ MaxAttempts \in Nat
  BY RetryAssumption DEF RetryInv, TypeOK
<1>2. outage = IF elapsed < length THEN length - elapsed ELSE 0
  BY DEF RetryInv, ClockInv
<1>3. /\ stage = "sleeping" => attempt < MaxAttempts /\ elapsed + timer >= LeastWait[attempt + 1]
      /\ stage # "sleeping" => elapsed >= LeastWait[attempt]
      /\ stage \in {"calling", "exhausted"} => length > LeastWait[attempt]
      /\ stage = "exhausted" => attempt = MaxAttempts
  BY DEF RetryInv, EarliestInv
<1>4. LeastWait[attempt] \in Nat
  BY <1>1, LeastWaitType
<1>5. CASE Succeed
  BY <1>3, <1>5 DEF Succeed, EarliestInv
<1>6. CASE Call
  <2>1. length > LeastWait[attempt]
    BY <1>1, <1>2, <1>3, <1>4, <1>6 DEF Call
  <2> QED
    BY <1>3, <1>6, <2>1 DEF Call, EarliestInv
<1>12. CASE SucceedLate
  BY <1>3, <1>12 DEF SucceedLate, Answered, EarliestInv
<1>7. CASE Sleep
  <2>1. attempt < MaxAttempts /\ attempt + 1 \in 1..MaxAttempts
    BY <1>1, <1>7 DEF Sleep, RetriesLeft
  <2>2. LeastWait[attempt + 1] = LeastWait[attempt] + Backoff(attempt) - Jitter(attempt)
    BY <1>1, <2>1, LeastWaitSteps
  <2>3. /\ timer' \in Nat /\ Backoff(attempt) - Jitter(attempt) \in Nat
        /\ timer' >= Backoff(attempt) - Jitter(attempt)
    BY <1>1, <1>7, DelayBounds DEF Sleep
  <2>4. Backoff(attempt) \in Nat /\ Jitter(attempt) \in Nat
    BY <1>1, DelayTypes, RetryAssumption
  <2>5. elapsed >= LeastWait[attempt]
    BY <1>3, <1>7 DEF Sleep, Answered
  <2>6. elapsed + timer' >= LeastWait[attempt + 1]
    BY <1>1, <1>4, <2>2, <2>3, <2>4, <2>5
  <2> QED
    BY <1>7, <2>1, <2>6 DEF Sleep, EarliestInv
<1>8. CASE GiveUp
  BY <1>1, <1>3, <1>8 DEF GiveUp, Answered, RetriesLeft, EarliestInv
<1>9. CASE TryAgain
  <2>1. elapsed >= LeastWait[attempt + 1]
    <3>1. attempt + 1 \in 1..MaxAttempts
      BY <1>1, <1>3, <1>9 DEF TryAgain
    <3>2. LeastWait[attempt + 1] \in Nat
      BY <3>1, LeastWaitType
    <3> QED
      BY <1>1, <1>3, <1>9, <3>2 DEF TryAgain
  <2> QED
    BY <1>9, <2>1 DEF TryAgain, EarliestInv
<1>10. CASE Tick
  <2>1. /\ elapsed' = elapsed + 1 /\ timer' = timer - 1 /\ elapsed' + timer' = elapsed + timer
        /\ stage' = stage /\ attempt' = attempt /\ length' = length
    BY <1>1, <1>10 DEF Tick
  <2>2. elapsed >= LeastWait[attempt] => elapsed' >= LeastWait[attempt]
    BY <1>1, <1>4, <2>1
  <2> QED
    BY <1>3, <2>1, <2>2 DEF EarliestInv
<1>11. CASE UNCHANGED vars
  BY <1>3, <1>11 DEF vars, EarliestInv
<1> QED
  BY <1>5, <1>6, <1>7, <1>8, <1>9, <1>10, <1>11, <1>12 DEF Next

\* Two facts of arithmetic: what is added to a time before the outage ends, and
\* what a later bound makes of an earlier time.
LEMMA AddedBefore ==
  ASSUME NEW x \in Nat, NEW y \in Nat, NEW a \in Nat, NEW b \in Nat, x <= y, a <= b
  PROVE  x + a <= y + b
OBVIOUS

LEMMA SumBounds ==
  ASSUME NEW x \in Nat, NEW a \in Nat, NEW y \in Nat, x + a <= y
  PROVE  x <= y
OBVIOUS

\* An attempt that meets the outage begins before its end, and a delay after it is
\* no longer than the cap with its jitter.
LEMMA LatestStay ==
  ASSUME RetryInv, LatestInv, [Next]_vars
  PROVE  LatestInv'
<1>1. /\ timer \in Nat /\ elapsed \in Nat /\ length \in Nat /\ attempt \in 1..MaxAttempts
      /\ outage = IF elapsed < length THEN length - elapsed ELSE 0
      /\ stage \in {"trying", "stored", "exhausted"} => timer = 0
  BY RetryAssumption DEF RetryInv, TypeOK, ClockInv
<1>2. LongestTry \in Nat /\ LongestDelay \in Nat
  <2>1. 1 \in 1..MaxAttempts
    BY RetryAssumption
  <2> QED
    BY <2>1, DelayTypes, RetryAssumption DEF LongestDelay
<1>3. /\ elapsed <= length + LongestTry + LongestDelay
      /\ stage \in {"calling", "exhausted"} => elapsed + timer <= length + LongestTry
      /\ stage = "sleeping" => elapsed + timer <= length + LongestTry + LongestDelay
  BY DEF LatestInv, SoonAfterOutage
<1>4. CASE Succeed
  BY <1>3, <1>4 DEF Succeed, LatestInv, SoonAfterOutage
<1>5. CASE Call
  <2>1. elapsed < length /\ timer' \in 0..LongestTry
    BY <1>1, <1>5 DEF Call
  <2>2. elapsed + timer' <= length + LongestTry
    <3>1. elapsed <= length
      BY <1>1, <2>1
    <3>2. timer' \in Nat /\ timer' <= LongestTry
      BY <1>2, <2>1
    <3> QED
      BY <1>1, <1>2, <3>1, <3>2, AddedBefore
  <2> QED
    BY <1>3, <1>5, <2>2 DEF Call, LatestInv, SoonAfterOutage
<1>6. CASE SucceedLate
  BY <1>3, <1>6 DEF SucceedLate, LatestInv, SoonAfterOutage
<1>7. CASE Sleep
  <2>1. timer' \in Nat /\ timer' <= LongestDelay
    BY <1>1, <1>7, DelayBounds DEF Sleep, LongestDelay
  <2>2. elapsed <= length + LongestTry
    BY <1>1, <1>3, <1>7 DEF Sleep, Answered
  <2>3. elapsed + timer' <= length + LongestTry + LongestDelay
    <3>1. length + LongestTry \in Nat
      BY <1>1, <1>2
    <3> QED
      BY <1>1, <1>2, <2>1, <2>2, <3>1, AddedBefore
  <2> QED
    BY <1>3, <1>7, <2>3 DEF Sleep, LatestInv, SoonAfterOutage
<1>8. CASE GiveUp
  BY <1>3, <1>8 DEF GiveUp, Answered, LatestInv, SoonAfterOutage
<1>9. CASE TryAgain
  BY <1>3, <1>9 DEF TryAgain, LatestInv, SoonAfterOutage
<1>10. CASE Tick
  <2>1. /\ elapsed' + timer' = elapsed + timer /\ timer' \in Nat /\ elapsed' \in Nat
        /\ stage' = stage /\ length' = length /\ stage \notin {"trying", "stored"}
    BY <1>1, <1>10 DEF Tick
  <2>2. stage \in {"calling", "exhausted", "sleeping"}
    BY <2>1 DEF RetryInv, TypeOK, Stages
  <2>3. elapsed' + timer' <= length + LongestTry + LongestDelay
    <3>1. \/ elapsed + timer <= length + LongestTry
          \/ elapsed + timer <= length + LongestTry + LongestDelay
      BY <1>3, <2>2
    <3>2. length + LongestTry \in Nat /\ elapsed + timer \in Nat
      BY <1>1, <1>2
    <3>3. CASE elapsed + timer <= length + LongestTry
      <4>1. elapsed + timer + 0 <= length + LongestTry + LongestDelay
        BY <1>2, <3>2, <3>3, AddedBefore
      <4> QED
        BY <2>1, <3>2, <4>1
    <3> QED
      BY <2>1, <3>1, <3>3
  <2>4. elapsed' <= length + LongestTry + LongestDelay
    <3>1. length + LongestTry + LongestDelay \in Nat
      BY <1>1, <1>2
    <3> QED
      BY <2>1, <2>3, <3>1, SumBounds
  <2> QED
    BY <1>3, <2>1, <2>3, <2>4 DEF LatestInv, SoonAfterOutage
<1>11. CASE UNCHANGED vars
  BY <1>3, <1>11 DEF vars, LatestInv, SoonAfterOutage
<1> QED
  BY <1>4, <1>5, <1>6, <1>7, <1>8, <1>9, <1>10, <1>11 DEF Next

LEMMA RetryInvariant == Spec => [](RetryInv /\ LatestInv)
<1>1. ASSUME RetryInv, LatestInv, [Next]_vars PROVE RetryInv' /\ LatestInv'
  BY <1>1, ClockStay, EarliestStay, LatestStay DEF RetryInv
<1> QED
  BY <1>1, RetryInit, PTL DEF Spec

\* Every variable has its type, and no attempt is one too many.
THEOREM RetryTypeCorrect == Spec => []TypeOK
<1>1. RetryInv => TypeOK
  BY DEF RetryInv
<1> QED
  BY <1>1, RetryInvariant, PTL

\* An outage no longer than all the delays at their shortest exhausts no call.
THEOREM ShortOutageSurvived == Spec => []ShortOutageHarmless
<1>1. RetryInv => ShortOutageHarmless
  BY DEF RetryInv, EarliestInv, ShortOutageHarmless
<1> QED
  BY <1>1, RetryInvariant, PTL

\* After the outage a call goes on for one attempt and one delay at most, however
\* long an attempt takes.
THEOREM OverSoonAfterOutage == Spec => []SoonAfterOutage
<1>1. LatestInv => SoonAfterOutage
  BY DEF LatestInv
<1> QED
  BY <1>1, RetryInvariant, PTL
=============================================================================
