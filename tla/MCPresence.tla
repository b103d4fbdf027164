----------------------------- MODULE MCPresence -----------------------------
(* Presence for TLC. *)
EXTENDS Presence, TLC

CONSTANTS d1, d2, none

OneDevice == {d1}
TwoDevices == {d1, d2}

\* A timeout of 0 is the default, a NULL metric is "battery".
OfflineRule == [type |-> "device_offline", metric |-> none, threshold |-> none, timeout |-> 0]
SilenceRule == [type |-> "sensor_timeout", metric |-> "battery", threshold |-> none,
                timeout |-> 1]
BatteryRule == [type |-> "battery_low", metric |-> none, threshold |-> 2, timeout |-> none]
HighRule == [type |-> "threshold_gt", metric |-> "battery", threshold |-> 1, timeout |-> none]
LowRule == [type |-> "threshold_lt", metric |-> none, threshold |-> 2, timeout |-> none]

AllRules == {OfflineRule, SilenceRule, BatteryRule, HighRule, LowRule}
Levels == {1, 2}

\* Two operations, with anything they cause, on both devices; all of them while the
\* second device is active and silent.
Untouched == retained[d2] = None /\ d2 \in active /\ d2 \notin running
Scope == ops <= 2 \/ Untouched

\* No fair step leaves the scope, so that fairness means the same as in Spec.
MCInit == Init /\ Scope
MCNext == Next /\ Scope'
MCSpec == MCInit /\ [][MCNext]_vars /\ Fairness

=============================================================================
