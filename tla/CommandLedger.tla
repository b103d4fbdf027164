--------------------------- MODULE CommandLedger ---------------------------
(***************************************************************************)
(* What the command endpoint promises its callers.  Commands wait in one   *)
(* line and are handled in the order they joined it; only the first of the *)
(* line is sent, at most twice.  Whoever leaves the line leaves it with an *)
(* answer that is true of what was sent, or with the process; either way   *)
(* it is through for good.                                                 *)
(***************************************************************************)
EXTENDS Naturals, Sequences

CONSTANTS Request

VARIABLES
  line,      \* commands in the order they are handled
  stage,     \* of each: not there yet, in the line, through
  answer,    \* of each: 0 until it has one
  copies,    \* of each: how often the broker got it
  assured    \* the commands that ask for an acknowledgement

Init ==
  /\ line = << >>
  /\ stage = [r \in Request |-> "new"]
  /\ answer = [r \in Request |-> 0]
  /\ copies = [r \in Request |-> 0]
  /\ assured \in SUBSET Request

Through(r, code) ==
  /\ stage' = [stage EXCEPT ![r] = "through"]
  /\ answer' = [answer EXCEPT ![r] = code]

\* An unknown device, or a database that fails to look it up.
Refuse(r) ==
  /\ stage[r] = "new"
  /\ \E code \in {404, 500} : Through(r, code)
  /\ UNCHANGED <<line, copies, assured>>

Join(r) ==
  /\ stage[r] = "new"
  /\ stage' = [stage EXCEPT ![r] = "inside"]
  /\ line' = Append(line, r)
  /\ UNCHANGED <<answer, copies, assured>>

Sends(r) == copies[r] < 2 /\ copies' = [copies EXCEPT ![r] = @ + 1]

TrueAnswer(r, code) ==
  /\ code = 202 /\ r \in assured => copies'[r] > 0
  /\ code = 503 => copies'[r] = 0

\* The first of the line is sent, answered, or both.
Serve(r) ==
  /\ line # << >>
  /\ r = Head(line)
  /\ Sends(r) \/ UNCHANGED copies
  /\ \/ UNCHANGED <<line, stage, answer>>
     \/ \E code \in {202, 500, 503} :
          TrueAnswer(r, code) /\ Through(r, code) /\ line' = Tail(line)
  /\ UNCHANGED assured

\* The process ends with everyone in the line.
Die ==
  /\ line' = << >>
  /\ stage' = [r \in Request |-> IF stage[r] = "inside" THEN "through" ELSE stage[r]]
  /\ UNCHANGED <<answer, copies, assured>>

Next == Die \/ \E r \in Request : Refuse(r) \/ Join(r) \/ Serve(r)

Spec == Init /\ [][Next]_<<line, stage, answer, copies, assured>>

=============================================================================
