CONSTANTS
  p1 = p1
  p2 = p2
  d1 = d1
  d2 = d2
  m1 = m1
  m2 = m2
  m3 = m3
  m4 = m4
  NoMsg = NoMsg
  Pods = {p1, p2}
  Devices = {d1, d2}
  Messages = {m1}
  Kind <- AllEvents
  TopicDevice <- TwoDevices
  EventDevice <- TwoDevices
  RawPayloadBound = TRUE
  QueueSize = 2
  Limit = 1
  DelayMin = 1
  DelayMax = 4
  Network = 0
  Redis = 0
  Kafka = 0
  Stops = 0
  Budget <- FaultBudget
SPECIFICATION FairSpec
PROPERTIES SubscriptionSettles
CHECK_DEADLOCK FALSE
