CONSTANTS
  d1 = d1
  d2 = d2
  g1 = g1
  r1 = r1
  r2 = r2
  none = none
  Device <- OneDevice
  Group <- NoGroup
  Rule <- OneRule
  None = none
  SilenceRule <- OneRule
  MaxOps = 2
  MaxFaults = 0
  MaxKills = 0
SPECIFICATION Spec
PROPERTY ReachableMeansLive
