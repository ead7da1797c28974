------------------------- MODULE MCIdempotencyBatch --------------------------
(***************************************************************************)
(* A small instance of IdempotencyBatch for TLC: two callers whose lists   *)
(* hold the same ids in different orders, or one id twice.                 *)
(***************************************************************************)
EXTENDS IdempotencyBatch, TLC

CONSTANTS a, b

MCBatches == {<<a, b>>, <<b, a>>, <<a, b, a>>}
MCBudget == [f \in Faults |-> 1]
Symmetry == Permutations(Callers)
=============================================================================
