CONSTANTS
  r1 = r1
  r2 = r2
  r3 = r3
  Request <- TwoRequests
  MaxOps = 2
  MaxFaults = 0
  MaxStops = 0
SPECIFICATION Spec
PROPERTY RefusesOnlyUnreachable
CHECK_DEADLOCK FALSE
