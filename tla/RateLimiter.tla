---------------------------- MODULE RateLimiter ----------------------------
(***************************************************************************)
(* The per-device limiter of the ingestion service                         *)
(* (apps/ingestion/rate_limiter.py): one Redis counter per device, which a *)
(* Lua script increments and, when it starts at 1, sets to expire a window *)
(* later.  Every pod calls the same script, so a call is one atomic step,  *)
(* whoever makes it.  Time is counted in ticks; a key that is past its     *)
(* expiry does not exist for Redis.                                        *)
(***************************************************************************)
EXTENDS Integers, Sequences, FiniteSets

CONSTANTS
  Devices,
  Limit,       \* settings.RATE_LIMIT_MAX_EVENTS
  Window,      \* settings.RATE_LIMIT_WINDOW_SECONDS, in ticks
  MaxTime,     \* bound: the clock stops here
  MaxCount,    \* bound: calls per device and window
  MaxFaults    \* bound: failed calls and evictions

ASSUME LimiterAssumption ==
  /\ Limit \in Nat /\ Window \in Nat \ {0}
  /\ MaxTime \in Nat /\ MaxCount \in Nat /\ MaxFaults \in Nat

VARIABLES
  now,        \* the clock of Redis
  counter,    \* the value of iotflow:ratelimit:<device>
  expiry,     \* the tick at which the key expires
  faults,     \* faults so far
  admits,     \* history: the ticks of the calls that returned True, by device
  unmetered,  \* history: calls admitted because Redis failed, by device
  evictions   \* history: keys evicted before their expiry, by device

vars == <<now, counter, expiry, faults, admits, unmetered, evictions>>

Init ==
  /\ now = 0
  /\ counter = [d \in Devices |-> 0]
  /\ expiry = [d \in Devices |-> 0]
  /\ faults = 0
  /\ admits = [d \in Devices |-> <<>>]
  /\ unmetered = [d \in Devices |-> 0]
  /\ evictions = [d \in Devices |-> 0]

\* What GET of the device's key would return.
Current(d) == IF now < expiry[d] THEN counter[d] ELSE 0

\* A variant: INCR and EXPIRE are two calls, and the second never comes.
ScriptWithoutExpire(d) ==
  /\ counter' = [counter EXCEPT ![d] = Current(d) + 1]
  /\ expiry' = [expiry EXCEPT ![d] = IF now < @ THEN @ ELSE MaxTime + Window]

\* A variant: the client repeats a call that the script has answered.
ScriptTwice(d) ==
  /\ counter' = [counter EXCEPT ![d] = Current(d) + 2]
  /\ expiry' = [expiry EXCEPT ![d] = IF Current(d) = 0 THEN now + Window ELSE @]

\* INCR, then EXPIRE when the counter has just been created.
Script(d) ==
  /\ counter' = [counter EXCEPT ![d] = Current(d) + 1]
  /\ expiry' = [expiry EXCEPT ![d] = IF Current(d) = 0 THEN now + Window ELSE @]

Admit(d) == admits' = [admits EXCEPT ![d] = Append(@, now)]

\* Variants: the comparison is off by one.
WithinOrAt(n) == n <= Limit + 1
WithinBelow(n) == n < Limit

\* "if current > limit then return 0"
Within(n) == n <= Limit

Allowed(d) ==
  /\ Current(d) < MaxCount
  /\ Within(Current(d) + 1)
  /\ Script(d)
  /\ Admit(d)
  /\ UNCHANGED <<now, faults, unmetered, evictions>>

Refused(d) ==
  /\ Current(d) < MaxCount
  /\ ~Within(Current(d) + 1)
  /\ Script(d)
  /\ UNCHANGED <<now, faults, admits, unmetered, evictions>>

Fault == faults < MaxFaults /\ faults' = faults + 1

\* The call raises, before or after the script ran: the event is let through.
FailsOpen(d) ==
  /\ Fault
  /\ Current(d) < MaxCount
  /\ Script(d) \/ UNCHANGED <<counter, expiry>>
  /\ Admit(d)
  /\ unmetered' = [unmetered EXCEPT ![d] = @ + 1]
  /\ UNCHANGED <<now, evictions>>

\* Redis makes room (maxmemory-policy allkeys-lru).
Evict(d) ==
  /\ Fault
  /\ Current(d) > 0
  /\ counter' = [counter EXCEPT ![d] = 0]
  /\ expiry' = [expiry EXCEPT ![d] = now]
  /\ evictions' = [evictions EXCEPT ![d] = @ + 1]
  /\ UNCHANGED <<now, admits, unmetered>>

Tick ==
  /\ now < MaxTime
  /\ now' = now + 1
  /\ UNCHANGED <<counter, expiry, faults, admits, unmetered, evictions>>

Next ==
  \/ Tick
  \/ \E d \in Devices : Allowed(d) \/ Refused(d) \/ FailsOpen(d) \/ Evict(d)

Spec == Init /\ [][Next]_vars
-----------------------------------------------------------------------------
\* Every variable has its type, and the bounds hold.
TypeOK ==
  /\ now \in 0..MaxTime
  /\ counter \in [Devices -> 0..MaxCount]
  /\ expiry \in [Devices -> Nat]
  /\ faults \in 0..MaxFaults
  /\ admits \in [Devices -> Seq(0..MaxTime)]
  /\ unmetered \in [Devices -> 0..MaxFaults]
  /\ evictions \in [Devices -> 0..MaxFaults]

\* A device is never shut out for longer than a window: its key, if there is
\* one, always has an expiry, at most a window away (the script sets it in the
\* step that creates the key, rate_limiter.py:27-30).
KeyAlwaysExpires == \A d \in Devices : expiry[d] <= now + Window

\* Events of a device admitted in the ticks of a set, and during the Window
\* ticks from t on.
AdmittedIn(d, ticks) == Cardinality({i \in DOMAIN admits[d] : admits[d][i] \in ticks})
AdmittedFrom(d, t) == AdmittedIn(d, t .. t + Window - 1)

\* In any stretch of time as long as the window a device gets at most twice the
\* limit through, because the stretch meets at most two windows; beyond that,
\* only calls that Redis failed and windows that an eviction cut short count.
AtMostTwiceLimit ==
  \A d \in Devices : \A t \in 0..MaxTime :
    AdmittedFrom(d, t) <= (2 + evictions[d]) * Limit + unmetered[d]

\* The limiter refuses nobody early: a refused device got its limit through
\* within the window that is running.
RefusedOnlyAtLimit ==
  [][\A d \in Devices : counter'[d] > counter[d] /\ admits'[d] = admits[d] =>
       AdmittedFrom(d, expiry[d] - Window) >= Limit]_vars

(***************************************************************************)
(* Why both hold.  The admissions that the key of a device has counted so  *)
(* far fell into its window.  A stretch that is not over yet began at most *)
(* a window ago: it saw these, and if it is older than the key, no more    *)
(* than one window and those that an eviction cut short before.            *)
(***************************************************************************)
HasKey(d) == now < expiry[d]
Counted(d) == IF ~HasKey(d) THEN 0 ELSE IF counter[d] < Limit THEN counter[d] ELSE Limit

\* What windows other than that of the key may have let through since t.
OtherWindows(d, t) ==
  IF HasKey(d) /\ expiry[d] - Window < t THEN 0 ELSE Limit + evictions[d] * Limit

DeviceWindow(d) ==
  /\ \A i \in DOMAIN admits[d] : admits[d][i] <= now
  /\ HasKey(d) => counter[d] > 0 /\ AdmittedFrom(d, expiry[d] - Window) >= Counted(d)
  /\ \A t \in 0..MaxTime :
       now < t + Window =>
         AdmittedIn(d, t .. MaxTime) <= OtherWindows(d, t) + Counted(d) + unmetered[d]

WindowInv == \A d \in Devices : DeviceWindow(d)
-----------------------------------------------------------------------------
\* rate_limiter.py:2 calls the limiter a sliding window: no stretch of time as
\* long as the window sees more than the limit.
SlidingWindow ==
  \A d \in Devices : \A t \in 0..MaxTime : AdmittedFrom(d, t) <= Limit
=============================================================================
