SPECIFICATION Spec
CONSTANTS
  Devices = {d1}
  Limit = 2
  Window = 3
  MaxTime = 7
  MaxCount = 5
  MaxFaults = 2
INVARIANTS TypeOK KeyAlwaysExpires AtMostTwiceLimit
PROPERTIES RefusedOnlyAtLimit
CHECK_DEADLOCK FALSE
