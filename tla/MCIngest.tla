------------------------------ MODULE MCIngest ------------------------------
(* MqttIngest for TLC. *)
EXTENDS MqttIngest, TLC

CONSTANTS d1, d2, noDevice, r1, r2

OneDevice  == {d1}
TwoDevices == {d1, d2}
OneRequest == {r1}
TwoRequests == {r1, r2}

(***************************************************************************)
(* Two scopes in one run: two requests about the only device there is, or  *)
(* two devices and one request in a process nobody kills.  Next treats     *)
(* requests alike, so of two that differ r1 is the creation.               *)
(***************************************************************************)
OnlyFirstDevice ==
  /\ devices \subseteq {d1}
  /\ \A r \in Request : req[r].device = d1
  /\ \A i \in 1..Len(inbox) : inbox[i].device # d2

OneActiveRequest ==
  /\ req[r2] = [op |-> "delete", device |-> d2, at |-> "new", status |-> 0]
  /\ stops = 0

Ordered == req[r2].op = "create" => req[r1].op = "create"
Scope == Ordered /\ (OnlyFirstDevice \/ OneActiveRequest)

\* No fair step leaves the scope, so that fairness means the same as in Spec.
MCInit == Init /\ Scope
MCNext == Next /\ Scope'
MCSpec == MCInit /\ [][MCNext]_vars /\ Fairness

=============================================================================
