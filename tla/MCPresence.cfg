CONSTANTS
  d1 = d1
  d2 = d2
  none = none
  None = none
  Device <- TwoDevices
  Rule <- AllRules
  Level <- Levels
  DefaultTimeout = 2
  MinDelay = 1
  MaxDelay = 3
  Interval = 2
  Window = 2
  Horizon = 6
  MaxOps = 4
  MaxFaults = 1
SPECIFICATION MCSpec
INVARIANTS TypeOK CatchesUp RetainedHeals OnlineHasSource OnlineIsNotOffline DetectedInTime ClearedInTime OfflineCountExact
PROPERTY Returns
