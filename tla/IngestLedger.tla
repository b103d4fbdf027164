---------------------------- MODULE IngestLedger ----------------------------
(***************************************************************************)
(* What ingestion promises to whoever reads the tables.  Messages are      *)
(* taken in their order.  The one at the frontier gets its rows at most    *)
(* once, while it has no verdict and its device exists; "processed" is     *)
(* only ever its first verdict, and each verdict comes once.  Behind the   *)
(* frontier nothing changes any more, except that a device goes with its   *)
(* rows.                                                                   *)
(***************************************************************************)
EXTENDS Naturals

CONSTANTS Device, Id

VARIABLES
  devices,
  stored,    \* [message, device] with rows
  verdict,   \* of each message: what the audit table says of it
  frontier   \* the message being handled, or the next one

Init ==
  /\ devices \in SUBSET Device
  /\ stored = {}
  /\ verdict = [i \in Id |-> {}]
  /\ frontier = 1

Pending == frontier \in Id /\ verdict[frontier] = {}

Register(d) ==
  /\ devices' = devices \cup {d}
  /\ UNCHANGED <<stored, verdict, frontier>>

Delete(d) ==
  /\ devices' = devices \ {d}
  /\ stored' = {s \in stored : s.device # d}
  /\ UNCHANGED <<verdict, frontier>>

Write(d) ==
  /\ Pending
  /\ d \in devices
  /\ \A s \in stored : s.message # frontier
  /\ stored' = stored \cup {[message |-> frontier, device |-> d]}
  /\ UNCHANGED <<devices, verdict, frontier>>

\* A verdict whose answer is lost is committed, and the frontier stays.
Judge(v) ==
  /\ frontier \in Id
  /\ IF v = "processed" THEN Pending ELSE v \notin verdict[frontier]
  /\ verdict' = [verdict EXCEPT ![frontier] = @ \cup {v}]
  /\ frontier' \in {frontier, frontier + 1}
  /\ UNCHANGED <<devices, stored>>

\* The messages queued in the client are gone with it.
Lose ==
  /\ \E i \in Id : i >= frontier /\ frontier' = i + 1
  /\ UNCHANGED <<devices, stored, verdict>>

Next ==
  \/ \E d \in Device : Register(d) \/ Delete(d) \/ Write(d)
  \/ \E v \in {"processed", "unprocessed"} : Judge(v)
  \/ Lose

Spec == Init /\ [][Next]_<<devices, stored, verdict, frontier>>

=============================================================================
