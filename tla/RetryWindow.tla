----------------------------- MODULE RetryWindow -----------------------------
(***************************************************************************)
(* One call of with_retry (apps/worker/retry.py) in time: the attempts of  *)
(* an INSERT, the delays between them, and one outage of the database.     *)
(* Module Worker has the same loop without a clock.  The unit of time is   *)
(* chosen so that a quarter of every delay is a whole number of ticks.     *)
(* An attempt that meets the outage takes any time: it may wait for one of *)
(* the pool's connections, for which db.py sets no timeout, for a new      *)
(* connection, and for its statement.                                      *)
(***************************************************************************)
EXTENDS Integers

CONSTANTS
  MaxAttempts,  \* settings.RETRY_MAX_ATTEMPTS
  Base,         \* settings.RETRY_BASE_DELAY_SECONDS, in ticks
  Multiplier,   \* settings.RETRY_MULTIPLIER
  MaxDelay,     \* settings.RETRY_MAX_DELAY_SECONDS, in ticks
  JitterParts,  \* settings.RETRY_JITTER_FACTOR is one part in so many
  LongestTry,   \* bound: the longest an attempt takes, for which the code has none
  MaxOutage     \* bound: the longest outage

ASSUME RetryAssumption ==
  /\ MaxAttempts \in Nat \ {0} /\ Multiplier \in Nat \ {0} /\ JitterParts \in Nat \ {0}
  /\ Base \in Nat /\ MaxDelay \in Nat /\ LongestTry \in Nat /\ MaxOutage \in Nat

VARIABLES
  stage,    \* what the call does
  attempt,  \* the attempt it is at, from 1
  timer,    \* ticks until the attempt or the delay is over
  elapsed,  \* history: ticks since the call began
  outage,   \* ticks the database stays down; 0 when it is up
  length    \* history: what outage was when the call began

vars == <<stage, attempt, timer, elapsed, outage, length>>

Stages == {"trying", "calling", "sleeping", "stored", "exhausted"}

\* The call begins while the database is down, or before it goes down.
Init ==
  /\ stage = "trying"
  /\ attempt = 1
  /\ timer = 0
  /\ elapsed = 0
  /\ length \in 0..MaxOutage
  /\ outage = length

-----------------------------------------------------------------------------
(***************************************************************************)
(* _compute_delay.                                                         *)
(***************************************************************************)

\* Base * Multiplier ^ (n - 1).
Raw[n \in 1..MaxAttempts] == IF n = 1 THEN Base ELSE Multiplier * Raw[n - 1]

\* A variant: the cap is forgotten.
BackoffUncapped(n) == Raw[n]

Backoff(n) == IF Raw[n] < MaxDelay THEN Raw[n] ELSE MaxDelay

Jitter(n) == Backoff(n) \div JitterParts

\* A variant: random(0, backoff), the "full jitter" of failover_analysis.md:31.
DelaysFull(n) == 0..Backoff(n)

\* The jitter comes after the cap, so a delay may be longer than MaxDelay.
Delays(n) == Backoff(n) - Jitter(n) .. Backoff(n) + Jitter(n)

-----------------------------------------------------------------------------
\* The attempt finds the database up.
Succeed ==
  /\ stage = "trying"
  /\ outage = 0
  /\ stage' = "stored"
  /\ UNCHANGED <<attempt, timer, elapsed, outage, length>>

\* The attempt meets the outage: it is refused at once, or waits.
Call ==
  /\ stage = "trying"
  /\ outage > 0
  /\ stage' = "calling"
  /\ timer' \in 0..LongestTry
  /\ UNCHANGED <<attempt, elapsed, outage, length>>

Answered == stage = "calling" /\ timer = 0

\* The database came back in time for the attempt.
SucceedLate ==
  /\ Answered
  /\ outage = 0
  /\ stage' = "stored"
  /\ UNCHANGED <<attempt, timer, elapsed, outage, length>>

\* A variant: range() goes one attempt too far.
RetriesLeftOneMore == attempt <= MaxAttempts

RetriesLeft == attempt < MaxAttempts

\* The attempt raises.
Sleep ==
  /\ Answered
  /\ RetriesLeft
  /\ stage' = "sleeping"
  /\ timer' \in Delays(attempt)
  /\ UNCHANGED <<attempt, elapsed, outage, length>>

GiveUp ==
  /\ Answered
  /\ ~RetriesLeft
  /\ stage' = "exhausted"
  /\ UNCHANGED <<attempt, timer, elapsed, outage, length>>

TryAgain ==
  /\ stage = "sleeping"
  /\ timer = 0
  /\ stage' = "trying"
  /\ attempt' = attempt + 1
  /\ UNCHANGED <<timer, elapsed, outage, length>>

\* Time passes while the call waits for the database or for its delay.
Tick ==
  /\ timer > 0
  /\ timer' = timer - 1
  /\ elapsed' = elapsed + 1
  /\ outage' = IF outage > 0 THEN outage - 1 ELSE 0
  /\ UNCHANGED <<stage, attempt, length>>

Next == Succeed \/ Call \/ SucceedLate \/ Sleep \/ GiveUp \/ TryAgain \/ Tick

Spec == Init /\ [][Next]_vars

-----------------------------------------------------------------------------
\* The least time from the first attempt to the n-th.
LeastWait[n \in 1..MaxAttempts] ==
  IF n = 1 THEN 0 ELSE LeastWait[n - 1] + Backoff(n - 1) - Jitter(n - 1)

\* The cap with its jitter.
LongestDelay == MaxDelay + MaxDelay \div JitterParts

\* Every variable has its type; the attempts stay within RETRY_MAX_ATTEMPTS.
TypeOK ==
  /\ stage \in Stages
  /\ attempt \in 1..MaxAttempts
  /\ timer \in Nat
  /\ elapsed \in Nat
  /\ outage \in 0..length
  /\ length \in 0..MaxOutage

\* An outage that is no longer than all the delays at their shortest sends
\* nothing to the dead letters: the last attempt comes after its end, however
\* the jitter falls and however soon the attempts fail (retry.py:50-52, :65).
ShortOutageHarmless == stage = "exhausted" => length > LeastWait[MaxAttempts]

\* Once the outage is over, the call goes on for no longer than the attempt that
\* met it may take, and one delay: the retries of an event never keep its permit
\* for several delays after the database is back.  The jitter that takes a delay
\* past its cap counts (consumer.py:121, retry.py:50-52, :78).
SoonAfterOutage == elapsed <= length + LongestTry + LongestDelay

(***************************************************************************)
(* Why both hold: no attempt begins earlier than its delays allow, and one *)
(* that fails began before the end of the outage.                          *)
(***************************************************************************)
ClockInv ==
  /\ outage = IF elapsed < length THEN length - elapsed ELSE 0
  /\ stage \in {"trying", "stored", "exhausted"} => timer = 0

EarliestInv ==
  /\ stage = "sleeping" => attempt < MaxAttempts /\ elapsed + timer >= LeastWait[attempt + 1]
  /\ stage # "sleeping" => elapsed >= LeastWait[attempt]
  /\ stage \in {"calling", "exhausted"} => length > LeastWait[attempt]
  /\ stage = "exhausted" => attempt = MaxAttempts

LatestInv ==
  /\ SoonAfterOutage
  /\ stage \in {"calling", "exhausted"} => elapsed + timer <= length + LongestTry
  /\ stage = "sleeping" => elapsed + timer <= length + LongestTry + LongestDelay

-----------------------------------------------------------------------------
(***************************************************************************)
(* What a document promises, and the code does not keep.                   *)
(***************************************************************************)

\* retry_dlq_design.md:14-22: the window is about 31 times the base delay, as a
\* delay also follows the last attempt.
DocumentedWindow ==
  stage = "exhausted" => length > LeastWait[MaxAttempts] + Backoff(MaxAttempts) - Jitter(MaxAttempts)
=============================================================================
