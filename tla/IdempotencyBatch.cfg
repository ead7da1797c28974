SPECIFICATION Spec
CONSTANTS
  a = a  b = b
  Callers = {c1, c2}
  Events = {a, b}
  Batches <- MCBatches
  MaxCalls = 3
  Budget <- MCBudget
SYMMETRY Symmetry
INVARIANTS TypeOK GrantedOnce EveryClaimGranted
CHECK_DEADLOCK FALSE
