CONSTANTS
  r1 = r1
  r2 = r2
  r3 = r3
  Request <- ThreeRequests
  MaxOps = 4
  MaxFaults = 1
  MaxStops = 1
SPECIFICATION Spec
INVARIANTS TypeOK OneInClient AnswersAreTrue AtMostOneRetry RecoversByItself
PROPERTIES KeepsCommandLedger CommandsAnswered
CHECK_DEADLOCK FALSE
