CONSTANTS
  r1 = r1
  r2 = r2
  r3 = r3
  root = root
  nobody = nobody
  Request <- OneRequest
  User <- OneUser
  NewName = nobody
  MaxKeys = 1
  MaxFaults = 0
  MaxStops = 0
SPECIFICATION Spec
INVARIANT LinesCarryId
CHECK_DEADLOCK FALSE
