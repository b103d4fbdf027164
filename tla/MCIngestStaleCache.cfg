CONSTANTS
  d1 = d1
  d2 = d2
  noDevice = noDevice
  r1 = r1
  r2 = r2
  Device <- OneDevice
  NoDevice = noDevice
  Request <- OneRequest
  TTL = 1
  MaxMessages = 1
  MaxFaults = 0
  MaxStops = 0
SPECIFICATION Spec
INVARIANT DeleteInvalidates
CHECK_DEADLOCK FALSE
