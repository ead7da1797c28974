SPECIFICATION Spec
CONSTANTS
  Devices = {d1}
  Limit = 2
  Window = 3
  MaxTime = 5
  MaxCount = 3
  MaxFaults = 0
INVARIANTS SlidingWindow
CHECK_DEADLOCK FALSE
