CONSTANTS
  r1 = r1
  r2 = r2
  r3 = r3
  root = root
  nobody = nobody
  Request <- ThreeRequests
  User <- OneUser
  NewName = nobody
  MaxKeys = 2
  MaxFaults = 1
  MaxStops = 1
SPECIFICATION MCSpec
INVARIANTS TypeOK RevokedStaysOut OrphansAreFailures LoggedOnce
PROPERTY KeepsKeyLedger RequestsAnswered
CHECK_DEADLOCK FALSE
