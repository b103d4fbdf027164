CONSTANTS
  d1 = d1
  d2 = d2
  noDevice = noDevice
  r1 = r1
  r2 = r2
  Device <- TwoDevices
  NoDevice = noDevice
  Request <- TwoRequests
  TTL = 2
  MaxMessages = 2
  MaxFaults = 1
  MaxStops = 1
SPECIFICATION MCSpec
INVARIANTS TypeOK AuditTruthful DeadLetterHonest UndisturbedDelivered OneCreator StaleWindowBounded
PROPERTIES HandledOnce KeepsIngestLedger Drains
CHECK_DEADLOCK FALSE
