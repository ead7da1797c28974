SPECIFICATION Spec
CONSTANTS
  p1 = p1  p2 = p2  d1 = d1  d2 = d2
  a = a  b = b  low = low  odd = odd  bad = bad  dev = dev
  null = null  num = num  list = list  junk = junk  late = late
  Workers = {w1}
  Tasks = {t1, t2}
  Partitions = {p1}
  Events = {num, a}
  Devices = {d1}
  Log <- LogNum
  Kind <- MCKind
  Upper <- MCUpper
  Unrecordable <- MCUnrecordable
  DeviceOf <- MCDeviceOf
  StampOf <- MCStampOf
  MaxConcurrentTasks = 1
  RetryMaxAttempts = 2
  Budget <- NoFaults
  NoWorker = NoWorker  NoMsg = NoMsg  NoEvent = NoEvent
PROPERTIES ProcessNeverRaises
CHECK_DEADLOCK FALSE
