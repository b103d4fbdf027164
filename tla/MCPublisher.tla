---------------------------- MODULE MCPublisher ----------------------------
(* MqttPublisher for TLC. *)
EXTENDS MqttPublisher, TLC

CONSTANTS r1, r2, r3

TwoRequests == {r1, r2}
ThreeRequests == {r1, r2, r3}

=============================================================================
