---------------------------- MODULE AlarmLedger ----------------------------
(***************************************************************************)
(* What the alarm subsystem promises about the `alarms` table, whoever     *)
(* writes it: an alarm is opened for a device and a rule that have none    *)
(* open, under a new id; an open alarm may be closed, once and for good;   *)
(* and rows go only with their device, rule ids only with their rule.      *)
(***************************************************************************)
EXTENDS Naturals

CONSTANTS Device, Rule, None

VARIABLES alarms, lastId

Init == alarms = {} /\ lastId = 0

IsOpen(d, r) == \E a \in alarms : a.active /\ a.device = d /\ a.rule = r

Open(d, r) ==
  /\ ~IsOpen(d, r)
  /\ lastId' = lastId + 1
  /\ alarms' = alarms \cup {[id |-> lastId + 1, device |-> d, rule |-> r, active |-> TRUE]}

Close(a) ==
  /\ a.active
  /\ alarms' = (alarms \ {a}) \cup {[a EXCEPT !.active = FALSE]}
  /\ lastId' = lastId

\* A device goes with its alarms, or some rules go; their alarms stay.
Purge(lost, gone) ==
  /\ alarms' = {[a EXCEPT !.rule = IF a.rule \in gone THEN None ELSE a.rule] :
                  a \in {b \in alarms : b.device \notin lost}}
  /\ lastId' = lastId

Next ==
  \/ \E d \in Device, r \in Rule : Open(d, r)
  \/ \E a \in alarms : Close(a)
  \/ \E lost \in SUBSET Device, gone \in SUBSET Rule : Purge(lost, gone)

Spec == Init /\ [][Next]_<<alarms, lastId>>

=============================================================================
