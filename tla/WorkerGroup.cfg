SPECIFICATION Spec
CONSTANTS
  p1 = p1  p2 = p2  d1 = d1  d2 = d2
  a = a  b = b  low = low  odd = odd  bad = bad  dev = dev
  null = null  num = num  list = list  junk = junk  late = late
  Workers = {w1, w2}
  Tasks = {t1, t2}
  Partitions = {p1, p2}
  Events = {a, low}
  Devices = {d1, d2}
  Log <- LogTwoPartitions
  Kind <- MCKind
  Upper <- MCUpper
  Unrecordable <- MCUnrecordable
  DeviceOf <- MCDeviceOf
  StampOf <- MCStampOf
  MaxConcurrentTasks = 2
  RetryMaxAttempts = 1
  Budget <- GroupFaults
  NoWorker = NoWorker  NoMsg = NoMsg  NoEvent = NoEvent
SYMMETRY Symmetry
INVARIANTS TypeOK PermitsConserved NoSilentLoss KeptUndisturbed ExtraRowsPaid
CHECK_DEADLOCK FALSE
