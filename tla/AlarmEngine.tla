---------------------------- MODULE AlarmEngine ----------------------------
(***************************************************************************)
(* The evaluate_* functions of services/alarm_engine.py and the worker's   *)
(* dispatch on rule_type.  Times are ages in ticks, so that "now" is the   *)
(* moment of the evaluation.                                               *)
(***************************************************************************)
EXTENDS Integers

CONSTANTS
  None,            \* SQL NULL, and a query that returns no row
  DefaultTimeout   \* 300 s

ASSUME DefaultAssumption == DefaultTimeout \in Nat \ {0}

RuleType == {"threshold_gt", "threshold_lt", "battery_low", "device_offline", "sensor_timeout"}

\* `rule.timeout_seconds or 300`: NULL and 0 are the default.
DefaultForNullOnly(rule) == IF rule.timeout = None THEN DefaultTimeout ELSE rule.timeout
Timeout(rule) == IF rule.timeout \in {None, 0} THEN DefaultTimeout ELSE rule.timeout

\* The comparisons are strict, and a missing side never triggers.
ThresholdGt(rule, value) ==
  value # None /\ rule.threshold # None /\ value > rule.threshold

ThresholdLt(rule, value) ==
  value # None /\ rule.threshold # None /\ value < rule.threshold

BatteryLow(rule, value) == ThresholdLt(rule, value)

\* A device without a row is offline; so is one whose last row says so, however new.
SilentIsFine(rule, row) ==
  row # None /\ (row.status = "offline" \/ row.age > Timeout(rule))
DeviceOffline(rule, row) ==
  row = None \/ row.status = "offline" \/ row.age > Timeout(rule)

SensorTimeout(rule, reading) == reading = None \/ reading.age > Timeout(rule)

\* latest_telemetry_value: a NULL metric matches no row, except that battery_low
\* then means "battery".
Metric(rule) ==
  IF rule.type = "battery_low" /\ rule.metric = None THEN "battery" ELSE rule.metric

Reading(rule, readings) ==
  IF Metric(rule) \in DOMAIN readings THEN readings[Metric(rule)] ELSE None

Value(reading) == IF reading = None THEN None ELSE reading.value

\* _evaluate_for_device; an unknown type never triggers.
Triggers(rule, row, readings) ==
  LET reading == Reading(rule, readings)
  IN  \/ rule.type = "threshold_gt" /\ ThresholdGt(rule, Value(reading))
      \/ rule.type = "threshold_lt" /\ ThresholdLt(rule, Value(reading))
      \/ rule.type = "battery_low" /\ BatteryLow(rule, Value(reading))
      \/ rule.type = "device_offline" /\ DeviceOffline(rule, row)
      \/ rule.type = "sensor_timeout" /\ SensorTimeout(rule, reading)

=============================================================================
