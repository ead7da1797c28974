SPECIFICATION Spec
CONSTANTS
  MaxAttempts = 5
  Base = 4
  Multiplier = 2
  MaxDelay = 12
  JitterParts = 4
  LongestTry = 5
  MaxOutage = 100
INVARIANTS TypeOK ShortOutageHarmless SoonAfterOutage
CHECK_DEADLOCK FALSE
