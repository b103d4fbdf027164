------------------------------ MODULE MCAlarm ------------------------------
(* AlarmWorker for TLC. *)
EXTENDS AlarmWorker, TLC

CONSTANTS d1, d2, g1, r1, r2, none

OneDevice == {d1}
TwoDevices == {d1, d2}
OneGroup == {g1}
NoGroup == {}
OneRule == {r1}
TwoRules == {r1, r2}
FirstRule == {r1}

(***************************************************************************)
(* Two scopes in one run: two rules, one device and no group, with a fault *)
(* or a kill; or one rule, two devices and a group.                        *)
(***************************************************************************)
Ungrouped ==
  /\ devices \subseteq {d1}
  /\ profile[d1].group = None
  /\ faults + kills <= 1
  /\ \A r \in Rule : config[r].group = None

OnlyFirstRule == used \subseteq {r1} /\ ops <= 2
Scope == Ungrouped \/ OnlyFirstRule

\* No fair step leaves the scope, so that fairness means the same as in Spec.
MCInit == Init /\ Scope
MCNext == Next /\ Scope'
MCSpec == MCInit /\ [][MCNext]_vars /\ Fairness

=============================================================================
