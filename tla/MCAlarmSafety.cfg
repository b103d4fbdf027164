CONSTANTS
  d1 = d1
  d2 = d2
  g1 = g1
  r1 = r1
  r2 = r2
  none = none
  Device <- TwoDevices
  Group <- OneGroup
  Rule <- TwoRules
  None = none
  SilenceRule <- FirstRule
  MaxOps = 3
  MaxFaults = 1
  MaxKills = 1
SPECIFICATION MCSpec
INVARIANTS TypeOK OneActivePerRule ResolveIsOwn NoDanglingAlarm AnnouncedOnce CycleIsExact
PROPERTIES NoRuleSkipped KeepsAlarmLedger Converges
