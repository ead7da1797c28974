-------------------------- MODULE IdempotencyBatch ---------------------------
(***************************************************************************)
(* IdempotencyGuard.are_new_batch (apps/worker/idempotency.py): a caller   *)
(* pipelines a SET NX for every id of a list and gets a verdict for each.  *)
(* The pipeline is no transaction: Redis runs its commands one by one, and *)
(* those of other callers in between.  Redis can answer a command with an  *)
(* error, the connection can go at any moment, and what Redis has already  *)
(* read of a lost connection it may still run.                             *)
(***************************************************************************)
EXTENDS Integers, Sequences, FiniteSets

CONSTANTS
  Callers,   \* coroutines that call are_new_batch
  Events,    \* event ids
  Batches,   \* the lists they pass; the empty one returns before any step
  MaxCalls,  \* bound: calls in all
  Budget     \* how many faults of each kind may happen

\* "error": Redis answers a command with an error.  "lost": the connection is
\* lost.  "evict": a key expires or is evicted.  "crash": a caller dies.
Faults == {"error", "lost", "evict", "crash"}

ASSUME BatchAssumption ==
  /\ Batches \subseteq Seq(Events) \ {<<>>}
  /\ MaxCalls \in Nat
  /\ Budget \in [Faults -> Nat]

VARIABLES
  keys,     \* ids whose iotflow:idempotency key exists
  batch,    \* the list of a caller's call; empty when it has none
  replies,  \* Redis's replies to the call so far
  late,     \* ids of commands that Redis has of a connection that is lost
  calls,    \* calls so far
  budget,   \* faults that may still happen
  claimed,  \* history: SET NX commands of a live call that set the key of an id
  granted,  \* history: verdicts True for an id
  waived,   \* history: those of them that no claim of the call stands behind
  freed,    \* history: keys of an id that were released, evicted or expired
  orphaned  \* history: claims on an id whose caller died before its verdict

tallies == <<claimed, granted, waived, freed, orphaned>>
vars == <<keys, batch, replies, late, calls, budget, tallies>>

Replies == {"set", "nil", "error"}
NoTally == [e \in Events |-> 0]

Init ==
  /\ keys = {}
  /\ batch = [c \in Callers |-> <<>>]
  /\ replies = [c \in Callers |-> <<>>]
  /\ late = {}
  /\ calls = 0
  /\ budget = Budget
  /\ claimed = NoTally /\ granted = NoTally /\ waived = NoTally
  /\ freed = NoTally /\ orphaned = NoTally

Spend(fault) ==
  /\ budget[fault] > 0
  /\ budget' = [budget EXCEPT ![fault] = @ - 1]

Calling(c) == batch[c] # <<>>
Answered(c) == Len(replies[c]) = Len(batch[c])
NextId(c) == batch[c][Len(replies[c]) + 1]

\* Positions of a call's list that hold the id, and those Redis set the key for.
PositionsOf(c, e) == {i \in DOMAIN batch[c] : batch[c][i] = e}
WonFor(c, e) == {i \in PositionsOf(c, e) \cap DOMAIN replies[c] : replies[c][i] = "set"}

Wins(c) == [e \in Events |-> Cardinality(WonFor(c, e))]
Unclaimed(c) == [e \in Events |-> Cardinality(PositionsOf(c, e) \ WonFor(c, e))]

Plus(f, g) == [e \in Events |-> f[e] + g[e]]

-----------------------------------------------------------------------------
Call(c, b) ==
  /\ ~Calling(c)
  /\ calls < MaxCalls
  /\ calls' = calls + 1
  /\ batch' = [batch EXCEPT ![c] = b]
  /\ UNCHANGED <<keys, replies, late, budget, tallies>>

Reply(c, r) == replies' = [replies EXCEPT ![c] = Append(@, r)]

\* A variant: SET without NX.
SetCommandWithoutNX(c) ==
  /\ Reply(c, "set")
  /\ keys' = keys \cup {NextId(c)}
  /\ claimed' = [claimed EXCEPT ![NextId(c)] = @ + 1]

\* Redis runs the next SET NX of the pipeline.
SetCommand(c) ==
  IF NextId(c) \in keys
  THEN Reply(c, "nil") /\ UNCHANGED <<keys, claimed>>
  ELSE /\ Reply(c, "set")
       /\ keys' = keys \cup {NextId(c)}
       /\ claimed' = [claimed EXCEPT ![NextId(c)] = @ + 1]

Execute(c) ==
  /\ Calling(c) /\ ~Answered(c)
  /\ SetCommand(c)
  /\ UNCHANGED <<batch, late, calls, budget, granted, waived, freed, orphaned>>

CommandFails(c) ==
  /\ Calling(c) /\ ~Answered(c)
  /\ Spend("error")
  /\ Reply(c, "error")
  /\ UNCHANGED <<keys, batch, late, calls, tallies>>

Failed(c) == \E i \in DOMAIN replies[c] : replies[c][i] = "error"

\* A variant: the list of results is kept from one call to the next.
ReturnKeepingReplies(c) ==
  /\ batch' = [batch EXCEPT ![c] = <<>>]
  /\ UNCHANGED replies

\* The call is over.
Return(c) ==
  /\ batch' = [batch EXCEPT ![c] = <<>>]
  /\ replies' = [replies EXCEPT ![c] = <<>>]

\* zip(event_ids, results): the verdict is False where the key existed.
Verdicts(c) ==
  /\ Calling(c) /\ Answered(c) /\ ~Failed(c)
  /\ granted' = Plus(granted, Wins(c))
  /\ Return(c)
  /\ UNCHANGED <<keys, late, calls, budget, claimed, waived, freed, orphaned>>

\* A variant: an error makes duplicates of the whole batch.
AllTrueClosed(c) == UNCHANGED <<granted, waived>>

\* [True] * len(event_ids): the ids it claimed and those it did not.
AllTrue(c) ==
  /\ granted' = Plus(granted, Plus(Wins(c), Unclaimed(c)))
  /\ waived' = Plus(waived, Unclaimed(c))

\* execute() raises the first error among the replies, once all are there.
FailsOpen(c) ==
  /\ Calling(c) /\ Answered(c) /\ Failed(c)
  /\ AllTrue(c)
  /\ Return(c)
  /\ UNCHANGED <<keys, late, calls, budget, claimed, freed, orphaned>>

\* The connection is lost; Redis has some of the commands still to run.
ConnectionLost(c) ==
  /\ Calling(c)
  /\ Spend("lost")
  /\ AllTrue(c)
  /\ \E n \in Len(replies[c])..Len(batch[c]) :
       late' = late \cup {batch[c][i] : i \in Len(replies[c]) + 1 .. n}
  /\ Return(c)
  /\ UNCHANGED <<keys, calls, claimed, freed, orphaned>>

LateCommand(e) ==
  /\ e \in late
  /\ late' = late \ {e}
  /\ keys' = keys \cup {e}
  /\ UNCHANGED <<batch, replies, calls, budget, tallies>>

Free(e) ==
  /\ keys' = keys \ {e}
  /\ freed' = [freed EXCEPT ![e] = @ + 1]

\* IdempotencyGuard.release, for an id that a caller was told to process.
Release(e) ==
  /\ e \in keys
  /\ granted[e] > 0
  /\ Free(e)
  /\ UNCHANGED <<batch, replies, late, calls, budget, claimed, granted, waived, orphaned>>

Evict(e) ==
  /\ e \in keys
  /\ Spend("evict")
  /\ Free(e)
  /\ UNCHANGED <<batch, replies, late, calls, claimed, granted, waived, orphaned>>

Crash(c) ==
  /\ Calling(c)
  /\ Spend("crash")
  /\ orphaned' = Plus(orphaned, Wins(c))
  /\ Return(c)
  /\ UNCHANGED <<keys, late, calls, claimed, granted, waived, freed>>

-----------------------------------------------------------------------------
Next ==
  \/ \E c \in Callers :
       \/ \E b \in Batches : Call(c, b)
       \/ Execute(c) \/ CommandFails(c) \/ Verdicts(c) \/ FailsOpen(c)
       \/ ConnectionLost(c) \/ Crash(c)
  \/ \E e \in Events : LateCommand(e) \/ Release(e) \/ Evict(e)

Spec == Init /\ [][Next]_vars

-----------------------------------------------------------------------------
\* Every variable has its type, and Redis answers no more commands of a call
\* than it has.
TypeOK ==
  /\ keys \subseteq Events
  /\ batch \in [Callers -> Batches \cup {<<>>}]
  /\ replies \in [Callers -> Seq(Replies)]
  /\ \A c \in Callers : Len(replies[c]) <= Len(batch[c])
  /\ late \subseteq Events
  /\ calls \in 0..MaxCalls
  /\ budget \in [Faults -> Nat]
  /\ claimed \in [Events -> Nat] /\ granted \in [Events -> Nat] /\ waived \in [Events -> Nat]
  /\ freed \in [Events -> Nat] /\ orphaned \in [Events -> Nat]

\* However the commands of several callers interleave, and however often an id
\* stands in a list, an id is let through a second time only if a fault defeated
\* the claim: a call that failed open without having set the key, or a key that
\* expired, was evicted or released.  A failed call is charged only for the ids
\* that it had not claimed (idempotency.py:87-109, :116).
GrantedOnce == \A e \in Events : granted[e] <= 1 + waived[e] + freed[e]

\* No claim goes astray: every key that a call set gets the verdict True for its
\* position, or is one of a call under way, or its caller died.  In particular a
\* pipeline that breaks off half-way gives up none of the ids it had claimed.
PendingWins(e) == UNION {{c} \X WonFor(c, e) : c \in Callers}
EveryClaimGranted ==
  \A e \in Events :
    claimed[e] + waived[e] = granted[e] + orphaned[e] + Cardinality(PendingWins(e))
=============================================================================
