-------------------------- MODULE MqttIngestProofs --------------------------
(***************************************************************************)
(* Proofs about MqttIngest, for every set of devices and requests, every   *)
(* lifetime of a cache entry and every bound.                              *)
(***************************************************************************)
EXTENDS MqttIngest, TLAPS

\* Delivering a message changes no earlier one.
LEMMA DeliverKeeps ==
  ASSUME NEW S, NEW s \in Seq(S), NEW m \in S
  PROVE  /\ Append(s, m) \in Seq(S)
         /\ Len(Append(s, m)) = Len(s) + 1
         /\ \A i \in 1..Len(s) : Append(s, m)[i] = s[i]
  OBVIOUS

\* The message in hand is a message.
LEMMA CurrentIsMessage ==
  ASSUME TypeOK, next <= Len(inbox)
  PROVE  current \in Message /\ next \in 1..Len(inbox) /\ next \in Id
  BY BoundsAssumption DEF TypeOK, current, Id

\* What each kind of cache update returns.
LEMMA CacheType ==
  ASSUME TypeOK, NEW p \in Process, NEW d \in Device
  PROVE  /\ Remember(p, d) \in [Process -> [Device -> 0..TTL]]
         /\ Forget(p, d) \in [Process -> [Device -> 0..TTL]]
         /\ Fresh(d) \in [Device -> Nat]
  BY BoundsAssumption DEF TypeOK, Remember, Forget, Fresh

\* ... and what the worker then reads of its own copy.
LEMMA WorkerCache ==
  ASSUME TypeOK, NEW p \in Process, NEW d \in Device, NEW e \in Device
  PROVE  /\ Remember("worker", d)["worker"][e] = IF e = d THEN TTL ELSE known["worker"][e]
         /\ Forget(p, d)["worker"][e] \in {0, known["worker"][e]}
  BY DEF TypeOK, Process, Remember, Forget

\* The answer to a request keeps it a request.
LEMMA RequestType ==
  ASSUME TypeOK, NEW r \in Request,
         (\E stage \in Stage : MoveTo(r, stage)) \/ (\E code \in Status : Answer(r, code))
  PROVE  req' \in [Request -> RequestRecord]
  <1>1. req[r] \in RequestRecord  BY DEF TypeOK
  <1>2. CASE \E stage \in Stage : MoveTo(r, stage)
    <2> PICK stage \in Stage : MoveTo(r, stage)  BY <1>2
    <2>1. [req[r] EXCEPT !.at = stage] \in RequestRecord  BY <1>1 DEF RequestRecord
    <2>2. req' = [req EXCEPT ![r] = [req[r] EXCEPT !.at = stage]]  BY DEF MoveTo
    <2> QED BY <2>1, <2>2 DEF TypeOK
  <1>3. CASE \E code \in Status : Answer(r, code)
    <2> PICK code \in Status : Answer(r, code)  BY <1>3
    <2>1. [req[r] EXCEPT !.at = "done", !.status = code] \in RequestRecord
      BY <1>1 DEF RequestRecord, Stage
    <2>2. req' = [req EXCEPT ![r] = [req[r] EXCEPT !.at = "done", !.status = code]]
      BY DEF Answer
    <2> QED BY <2>1, <2>2 DEF TypeOK
  <1> QED BY <1>2, <1>3

-----------------------------------------------------------------------------
(* Type correctness.                                                       *)

LEMMA InitType == Init => TypeOK
  <1> SUFFICES ASSUME Init PROVE TypeOK  OBVIOUS
  <1>1. req \in [Request -> RequestRecord]
    BY DEF Init, RequestRecord, Stage, Status
  <1>2. inbox \in Seq(Message) /\ Len(inbox) = 0
    BY DEF Init
  <1> QED BY <1>1, <1>2, BoundsAssumption DEF Init, TypeOK, Handling, WorkerPhase, Process, Id

LEMMA WorkerStepType == TypeOK /\ WorkerStep => TypeOK'
  <1> SUFFICES ASSUME TypeOK, WorkerStep PROVE TypeOK'  OBVIOUS
  <1>0. /\ current \in Message
        /\ next \in 1..Len(inbox) /\ next \in Id
        /\ "worker" \in Process
        /\ phase \in Handling \ {"dlq"} => current.device \in Device
    BY CurrentIsMessage DEF TypeOK, Handling, WorkerStep, Take, Lookup, Register, Store, Ack,
       DeadLetter, Process
  <1>1. CASE Take
    BY <1>0, <1>1 DEF Take, Rejected, Hit, Message, TypeOK, Handling, WorkerPhase, current,
       tables, budget, history
  <1>2. CASE Lookup \/ Register
    <2>1. current.device \in Device  BY <1>0, <1>2 DEF Lookup, Register, Handling
    <2>2. known' \in [Process -> [Device -> 0..TTL]] /\ staleFor' \in [Device -> Nat]
      <3>1. known \in [Process -> [Device -> 0..TTL]] /\ staleFor \in [Device -> Nat]
        BY DEF TypeOK
      <3> QED BY <1>0, <1>2, <2>1, <3>1, CacheType DEF Lookup, Register
    <2>3. devices' \subseteq Device /\ phase' \in {"store", "register", "dlq"} /\ next <= Len(inbox)
      BY <1>0, <1>2, <2>1 DEF Lookup, Register, TypeOK, tables
    <2> QED BY <1>2, <2>1, <2>2, <2>3
        DEF Lookup, Register, TypeOK, Handling, WorkerPhase, current, tables, budget
  <1>3. CASE Store
    <2>1. rows' \subseteq 1..Len(inbox)
      BY <1>0, <1>3 DEF Store, RolledBack, TypeOK
    <2>2. phase' \in {"ack", "dlq"}  BY <1>3 DEF Store, AfterStoreError
    <2> QED BY <1>0, <1>3, <2>1, <2>2
        DEF Store, TypeOK, Handling, WorkerPhase, current, budget, history
  <1>4. CASE Ack
    BY <1>0, <1>4 DEF Ack, TypeOK, Handling, WorkerPhase, budget, history
  <1>5. CASE DeadLetter
    BY <1>0, <1>5 DEF DeadLetter, AuditFailure, TypeOK, Handling, WorkerPhase, budget, history
  <1> QED BY <1>1, <1>2, <1>3, <1>4, <1>5 DEF WorkerStep

LEMMA RequestStepType ==
  ASSUME TypeOK, NEW r \in Request, RequestStep(r)
  PROVE  TypeOK'
  <1> USE DEF TypeOK
  <1>0. req[r].device \in Device /\ "api" \in Process
    BY DEF RequestRecord, Process
  <1>1. req' \in [Request -> RequestRecord]
    BY RequestType DEF RequestStep, CreateCheck, CreateInsert, CreateRefresh, DeleteCheck,
       DeleteAgain, DeleteErase, Stage, Status
  <1>2. CASE CreateCheck(r) \/ DeleteCheck(r) \/ DeleteAgain(r)
    BY <1>1, <1>2 DEF CreateCheck, DeleteCheck, DeleteAgain, tables, worker, budget, history, current
  <1>3. CASE CreateInsert(r)
    BY <1>0, <1>1, <1>3 DEF CreateInsert, worker, budget, current
  <1>4. CASE CreateRefresh(r)
    BY <1>0, <1>1, <1>4, CacheType DEF CreateRefresh, tables, worker, budget, history, current
  <1>5. CASE DeleteErase(r)
    BY <1>0, <1>1, <1>5, CacheType DEF DeleteErase, RowsAfterDelete, worker, budget, current
  <1> QED BY <1>2, <1>3, <1>4, <1>5 DEF RequestStep

LEMMA FailureType == TypeOK /\ Failure => TypeOK'
  <1> SUFFICES ASSUME TypeOK, Failure PROVE TypeOK'  OBVIOUS
  <1> USE BoundsAssumption
  <1>0. phase \in Handling => next \in 1..Len(inbox) /\ next \in Id
    BY CurrentIsMessage DEF TypeOK
  <1>1. CASE Fault
    BY <1>0, <1>1 DEF Fault, KnownAfterFault, SpendFault, TypeOK, Handling, WorkerPhase, tables, current
  <1>2. CASE LostCommit
    <2>1. phase \in Handling \ {"dlq"} /\ current.device \in Device
      BY <1>2 DEF LostCommit, Handling, TypeOK
    <2>2. devices' \subseteq Device /\ rows' \subseteq 1..Len(inbox) /\ processed' \in [Id -> Nat]
      <3>1. devices' \subseteq Device  BY <1>2, <2>1 DEF LostCommit, TypeOK
      <3>2. rows' \subseteq 1..Len(inbox)  BY <1>0, <1>2, <2>1 DEF LostCommit, TypeOK
      <3>3. processed' \in [Id -> Nat]  BY <1>0, <1>2, <2>1 DEF LostCommit, TypeOK
      <3> QED BY <3>1, <3>2, <3>3
    <2> QED BY <1>0, <1>2, <2>1, <2>2
        DEF LostCommit, KnownAfterFault, SpendFault, TypeOK, Handling, WorkerPhase
  <1>3. CASE FaultInDeadLetter
    <2>1. deadLetter' \in [Id -> Nat]
      BY <1>0, <1>3 DEF FaultInDeadLetter, AuditFailure, TypeOK, Handling
    <2> QED BY <1>0, <1>3, <2>1 DEF FaultInDeadLetter, SpendFault, TypeOK, Handling, WorkerPhase
  <1>4. CASE Kill
    BY <1>4 DEF Kill, SpendStop, TypeOK, Handling, WorkerPhase, tables, history
  <1>5. CASE Disconnect
    BY <1>5 DEF Disconnect, SpendStop, TypeOK, Handling, WorkerPhase, tables, history
  <1>6. ASSUME NEW r \in Request, RequestFault(r) PROVE TypeOK'
    <2>1. req' \in [Request -> RequestRecord]
      BY <1>6, RequestType DEF RequestFault, Status
    <2>2. req[r].device \in Device  BY DEF TypeOK, RequestRecord
    <2>3. devices' \subseteq Device /\ rows' \subseteq rows /\ added' \subseteq Device /\ erased' \subseteq Device
      BY <1>6, <2>2 DEF RequestFault, RowsAfterDelete, TypeOK
    <2> QED BY <1>6, <2>1, <2>3 DEF RequestFault, SpendFault, TypeOK, worker, current
  <1> QED BY <1>1, <1>2, <1>3, <1>4, <1>5, <1>6 DEF Failure

LEMMA NextType == TypeOK /\ [Next]_vars => TypeOK'
  <1> SUFFICES ASSUME TypeOK, [Next]_vars PROVE TypeOK'  OBVIOUS
  <1>1. CASE Deliver
    <2> PICK m \in Message : inbox' = Append(inbox, m)  BY <1>1 DEF Deliver
    <2>1. /\ inbox' \in Seq(Message) /\ Len(inbox') = Len(inbox) + 1
          /\ \A i \in 1..Len(inbox) : inbox'[i] = inbox[i]
      BY DeliverKeeps DEF TypeOK
    <2>2. phase \in Handling => inbox'[next] = inbox[next]
      BY <2>1 DEF TypeOK
    <2>3. Len(inbox) \in Nat  BY DEF TypeOK
    <2> QED BY <1>1, <2>1, <2>2, <2>3, BoundsAssumption DEF Deliver, TypeOK, current, tables, budget, history
  <1>2. CASE WorkerStep  BY <1>2, WorkerStepType
  <1>3. CASE Restart
    BY <1>3, BoundsAssumption DEF Restart, TypeOK, Handling, WorkerPhase, current, Process, tables, budget, history
  <1>4. CASE Tick
    BY <1>4, BoundsAssumption DEF Tick, TypeOK, Cached, current, tables, worker, budget
  <1>5. ASSUME NEW p \in Process, NEW d \in Device, Evict(p, d) PROVE TypeOK'
    BY <1>5, CacheType DEF Evict, TypeOK, current, tables, worker, budget, history
  <1>6. ASSUME NEW r \in Request, RequestStep(r) PROVE TypeOK'
    BY <1>6, RequestStepType
  <1>7. CASE Failure  BY <1>7, FailureType
  <1>8. CASE UNCHANGED vars
    BY <1>8 DEF vars, TypeOK, current, tables, worker, budget, history
  <1> QED BY <1>1, <1>2, <1>3, <1>4, <1>5, <1>6, <1>7, <1>8 DEF Next

\* Every variable keeps its type: the cache's lifetimes stay within TTL, the
\* message in hand exists, and one past the audit's early returns names a device.
THEOREM TypeCorrect == Spec => []TypeOK
  <1>1. Init => TypeOK  BY InitType
  <1>2. TypeOK /\ [Next]_vars => TypeOK'  BY NextType
  <1> QED BY <1>1, <1>2, PTL DEF Spec

-----------------------------------------------------------------------------
(* The inductive invariant, a part for each property and the facts it needs. *)

\* Nothing is written about a message before it is delivered.
Unseen == \A i \in Id : i > Len(inbox) => processed[i] = 0 /\ deadLetter[i] = 0

Accepted(i) ==
  /\ inbox[i].body \in {"readings", "empty"}
  /\ inbox[i].body = "readings" /\ inbox[i].device \notin erased => i \in rows

\* A message reaches its processed row ("ack") only with its rows made; a delete
\* that takes them away afterwards is remembered in `erased`.
AuditInv ==
  /\ phase \in Handling \ {"dlq"} => ~Rejected(current)
  /\ phase = "ack" => Accepted(next)
  /\ \A i \in 1..Len(inbox) : processed[i] > 0 => Accepted(i)

\* Rows of a message whose handling is not over, or failed, are the trace of a
\* statement that failed after their commit.
DeadInv ==
  /\ \A i \in rows : i < next \/ (i = next /\ phase \in {"ack", "dlq", "down"})
  /\ phase = "dlq" /\ next \in rows => next \in faulted
  /\ \A i \in Id : i >= next /\ deadLetter[i] > 0 => i \in faulted
  /\ \A i \in Id : deadLetter[i] > 0 /\ i \in rows => i \in faulted

\* Audit rows so far, phase by phase: none before the last statement, one more after.
CountInv ==
  /\ \A i \in Id : i > next => processed[i] = 0 /\ deadLetter[i] = 0
  /\ phase \in {"idle", "lookup", "register", "store", "ack"} /\ next \in Id =>
       processed[next] = 0 /\ deadLetter[next] = 0
  /\ phase = "dlq" =>
       /\ deadLetter[next] = 0
       /\ processed[next] = 0 \/ (processed[next] = 1 /\ next \in faulted)

\* Devices the API created or deleted; messages that may rightly be dead-lettered.
Touched == added \cup erased
Excused(i) ==
  \/ Rejected(inbox[i]) \/ inbox[i].body = "malformed"
  \/ inbox[i].device \in Touched \/ i \in faulted

\* Of a device the API left alone, the cache and the position in process_message tell
\* the truth about its row.
KnownInv ==
  /\ \A d \in Device : Cached("worker", d) /\ d \notin Touched => d \in devices
  /\ phase = "register" /\ current.device \notin Touched => current.device \notin devices
  /\ phase = "store" /\ current.device \notin Touched => current.device \in devices
  /\ phase = "dlq" => Excused(next)
  /\ \A i \in 1..Len(inbox) : deadLetter[i] > 0 => Excused(i)

\* The time a stale entry was believed and the time it has left make up one lifetime.
StaleInv == \A d \in Device : staleFor[d] + known["worker"][d] <= TTL

\* A registration whose INSERT was made holds the device's row, until a delete.
Inserted(r) == req[r].op = "create" /\ (req[r].at = "refresh" \/ req[r].status = 201)
CreatorInv ==
  /\ \A r \in Request : Inserted(r) /\ req[r].device \notin erased => req[r].device \in devices
  /\ \A r \in Request : req[r].at # "done" => req[r].status = 0
  /\ \A r, s \in Request :
       r # s /\ Inserted(r) /\ Inserted(s) /\ req[r].device = req[s].device
       => req[r].device \in erased

\* Deleting a device while its messages are in flight leaves no row behind.
NoOrphanRows == \A i \in rows : inbox[i].device \in devices

\* The inductive invariant.
IInv == /\ TypeOK
        /\ Unseen /\ AuditInv /\ DeadInv /\ CountInv
        /\ KnownInv /\ StaleInv /\ NoOrphanRows /\ CreatorInv

-----------------------------------------------------------------------------
(* Facts every part uses.                                                  *)

\* What Deliver does to the inbox.
LEMMA Delivered ==
  ASSUME TypeOK, Deliver
  PROVE  /\ Len(inbox) \in Nat /\ Len(inbox') = Len(inbox) + 1
         /\ \A i \in 1..Len(inbox) : inbox'[i] = inbox[i]
         /\ next \in 1..(Len(inbox) + 1)
         /\ phase \in Handling => next \in 1..Len(inbox)
         /\ next' = next /\ phase' = phase
  <1> PICK m \in Message : inbox' = Append(inbox, m)  BY DEF Deliver
  <1> QED BY DeliverKeeps DEF TypeOK, Deliver

\* Where the worker's next message is.
LEMMA NextRange ==
  ASSUME TypeOK
  PROVE  /\ Len(inbox) \in Nat /\ Len(inbox) <= MaxMessages
         /\ next \in 1..(Len(inbox) + 1)
         /\ phase \in Handling => next \in 1..Len(inbox) /\ next \in Id
         /\ \A i \in 1..Len(inbox) : i \in Id
         /\ \A i \in Id : i \in Nat /\ processed[i] \in Nat /\ deadLetter[i] \in Nat
         /\ \A i \in rows : i \in 1..Len(inbox)
  BY CurrentIsMessage, BoundsAssumption DEF TypeOK, Id

\* The steps that touch neither the worker nor what it wrote.
Aside(r) ==
  \/ CreateCheck(r) \/ CreateInsert(r) \/ CreateRefresh(r) \/ DeleteCheck(r) \/ DeleteAgain(r)

LEMMA AsideKeeps ==
  ASSUME (\E r \in Request : Aside(r)) \/ Tick \/ (\E p \in Process, d \in Device : Evict(p, d))
           \/ UNCHANGED vars
  PROVE  UNCHANGED <<rows, processed, deadLetter, inbox, next, phase, faulted, erased>>
  BY DEF Aside, CreateCheck, CreateInsert, CreateRefresh, DeleteCheck, DeleteAgain, Tick, Evict,
     vars, tables, worker, budget, history

-----------------------------------------------------------------------------
LEMMA AuditNext ==
  ASSUME TypeOK, Unseen, AuditInv, [Next]_vars
  PROVE  AuditInv' /\ Unseen'
  <1> USE NextRange DEF AuditInv, Unseen, Accepted, Rejected, current, Handling
  <1>1. CASE Deliver
    <2>1. /\ Len(inbox) \in Nat /\ Len(inbox') = Len(inbox) + 1
          /\ \A i \in 1..Len(inbox) : inbox'[i] = inbox[i]
          /\ phase \in Handling => next \in 1..Len(inbox)
          /\ UNCHANGED <<rows, processed, deadLetter, erased, next, phase>>
      BY <1>1, Delivered DEF Deliver, tables, history
    <2>2. Unseen'  BY <2>1
    <2>3. \A i \in 1..Len(inbox') : processed'[i] > 0 => i \in 1..Len(inbox)
      <3>1. Len(inbox) < MaxMessages  BY <1>1 DEF Deliver
      <3>2. \A i \in 1..Len(inbox') : i \in Id  BY <2>1, <3>1, BoundsAssumption DEF Id
      <3> QED BY <2>1, <3>2
    <2>4. \A i \in 1..Len(inbox) : Accepted(i) => Accepted(i)'
      BY <2>1
    <2> QED BY <2>1, <2>2, <2>3, <2>4
  <1>2. CASE Take
    BY <1>2 DEF Take, tables, budget, history
  <1>3. CASE Lookup \/ Register
    BY <1>3 DEF Lookup, Register, tables
  <1>4. CASE Store
    BY <1>4 DEF Store, Stores, AfterStoreError, RolledBack, history
  <1>5. CASE Ack
    BY <1>5 DEF Ack, TypeOK, history
  <1>6. CASE DeadLetter
    BY <1>6 DEF DeadLetter, AuditFailure, TypeOK, history
  <1>7. CASE Fault
    BY <1>7 DEF Fault, tables
  <1>8. CASE LostCommit
    <2>1. /\ UNCHANGED <<deadLetter, inbox, next, erased>> /\ phase' = "dlq"
          /\ rows \subseteq rows'
      BY <1>8 DEF LostCommit
    <2>2. \A i \in Id : processed'[i] = processed[i] \/ (i = next /\ phase = "ack")
      BY <1>8 DEF LostCommit, TypeOK
    <2>3. phase \in Handling  BY <1>8 DEF LostCommit
    <2> QED BY <2>1, <2>2, <2>3
  <1>9. CASE FaultInDeadLetter
    BY <1>9 DEF FaultInDeadLetter, AuditFailure, TypeOK
  <1>10. CASE Kill \/ Disconnect \/ Restart
    BY <1>10 DEF Kill, Disconnect, Restart, tables, history
  <1>11. ASSUME NEW r \in Request, DeleteErase(r) \/ RequestFault(r) PROVE AuditInv' /\ Unseen'
    BY <1>11 DEF DeleteErase, RequestFault, RowsAfterDelete, worker
  <1>12. CASE (\E r \in Request : Aside(r)) \/ Tick \/ (\E p \in Process, d \in Device : Evict(p, d))
                \/ UNCHANGED vars
    BY <1>12, AsideKeeps
  <1> QED BY <1>1, <1>2, <1>3, <1>4, <1>5, <1>6, <1>7, <1>8, <1>9, <1>10, <1>11, <1>12
          DEF Next, WorkerStep, Failure, RequestStep, Aside

LEMMA DeadNext ==
  ASSUME TypeOK, DeadInv, [Next]_vars
  PROVE  DeadInv'
  <1> USE NextRange DEF DeadInv, Handling
  <1>1. CASE Deliver
    BY <1>1, Delivered DEF Deliver, tables, history
  <1>2. CASE Take
    BY <1>2 DEF Take, tables, budget, history
  <1>3. CASE Lookup \/ Register
    BY <1>3 DEF Lookup, Register, tables
  <1>4. CASE Store
    BY <1>4 DEF Store, AfterStoreError, RolledBack, history
  <1>5. CASE Ack
    BY <1>5 DEF Ack, history
  <1>6. CASE DeadLetter
    BY <1>6 DEF DeadLetter, AuditFailure, TypeOK, history
  <1>7. CASE Fault
    BY <1>7 DEF Fault, tables
  <1>8. CASE LostCommit
    BY <1>8 DEF LostCommit
  <1>9. CASE FaultInDeadLetter
    BY <1>9 DEF FaultInDeadLetter, AuditFailure, TypeOK
  <1>10. CASE Kill \/ Disconnect \/ Restart
    BY <1>10 DEF Kill, Disconnect, Restart, tables, history
  <1>11. ASSUME NEW r \in Request, DeleteErase(r) \/ RequestFault(r) PROVE DeadInv'
    BY <1>11 DEF DeleteErase, RequestFault, RowsAfterDelete, worker
  <1>12. CASE (\E r \in Request : Aside(r)) \/ Tick \/ (\E p \in Process, d \in Device : Evict(p, d))
                \/ UNCHANGED vars
    BY <1>12, AsideKeeps
  <1> QED BY <1>1, <1>2, <1>3, <1>4, <1>5, <1>6, <1>7, <1>8, <1>9, <1>10, <1>11, <1>12
          DEF Next, WorkerStep, Failure, RequestStep, Aside

LEMMA CountNext ==
  ASSUME TypeOK, Unseen, CountInv, [Next]_vars
  PROVE  CountInv'
  <1> USE NextRange DEF CountInv, Handling
  <1>1. CASE Deliver
    BY <1>1, Delivered DEF Deliver, tables, history
  <1>2. CASE Take
    BY <1>2 DEF Take, tables, budget, history
  <1>3. CASE Lookup \/ Register
    BY <1>3 DEF Lookup, Register, tables
  <1>4. CASE Store
    BY <1>4 DEF Store, AfterStoreError, history
  <1>5. CASE Ack
    BY <1>5 DEF Ack, TypeOK, history
  <1>6. CASE DeadLetter
    BY <1>6 DEF DeadLetter, AuditFailure, TypeOK, history
  <1>7. CASE Fault
    BY <1>7 DEF Fault, tables
  <1>8. CASE LostCommit
    BY <1>8 DEF LostCommit, TypeOK
  <1>9. CASE FaultInDeadLetter
    BY <1>9 DEF FaultInDeadLetter, AuditFailure, TypeOK
  <1>10. CASE Kill \/ Disconnect \/ Restart
    BY <1>10 DEF Kill, Disconnect, Restart, Unseen, Id, tables, history
  <1>11. ASSUME NEW r \in Request, DeleteErase(r) \/ RequestFault(r) PROVE CountInv'
    BY <1>11 DEF DeleteErase, RequestFault, worker
  <1>12. CASE (\E r \in Request : Aside(r)) \/ Tick \/ (\E p \in Process, d \in Device : Evict(p, d))
                \/ UNCHANGED vars
    BY <1>12, AsideKeeps
  <1> QED BY <1>1, <1>2, <1>3, <1>4, <1>5, <1>6, <1>7, <1>8, <1>9, <1>10, <1>11, <1>12
          DEF Next, WorkerStep, Failure, RequestStep, Aside

LEMMA StaleNext ==
  ASSUME TypeOK, StaleInv, [Next]_vars
  PROVE  StaleInv'
  <1> USE BoundsAssumption DEF StaleInv
  <1>0. \A d \in Device : staleFor[d] \in Nat /\ known["worker"][d] \in 0..TTL
    BY DEF TypeOK, Process
  <1>1. ASSUME NEW d \in Device, known' = Remember("worker", d), staleFor' = Fresh(d)
        PROVE  StaleInv'
    BY <1>0, <1>1 DEF Remember, Fresh, TypeOK, Process
  <1>2. CASE UNCHANGED <<known, staleFor>>  BY <1>2
  <1>3. CASE Lookup \/ Register
    BY <1>1, <1>2, <1>3 DEF Lookup, Register, TypeOK, Handling
  <1>4. CASE Tick
    BY <1>0, <1>4 DEF Tick, Cached, Process
  <1>5. ASSUME NEW p \in Process, NEW d \in Device, known' = Forget(p, d), staleFor' = staleFor
        PROVE  StaleInv'
    BY <1>0, <1>5 DEF Forget, TypeOK, Process
  <1>6. ASSUME NEW p \in Process, NEW d \in Device, Evict(p, d) PROVE StaleInv'
    BY <1>5, <1>6 DEF Evict, history
  <1>7. ASSUME NEW r \in Request, RequestStep(r) PROVE StaleInv'
    <2>1. known' = known \/ known' = Remember("api", req[r].device) \/ known' = Forget("api", req[r].device)
      BY <1>7 DEF RequestStep, CreateCheck, CreateInsert, CreateRefresh, DeleteCheck, DeleteAgain, DeleteErase
    <2>2. staleFor' = staleFor
      BY <1>7 DEF RequestStep, CreateCheck, CreateInsert, CreateRefresh, DeleteCheck, DeleteAgain,
         DeleteErase, history
    <2>3. known'["worker"] = known["worker"]
      BY <2>1 DEF Remember, Forget, TypeOK, Process
    <2> QED BY <2>2, <2>3
  <1>8. CASE Restart
    BY <1>0, <1>8 DEF Restart, TypeOK, Process, history
  <1>9. CASE Deliver \/ Take \/ Store \/ Ack \/ DeadLetter \/ Failure
    BY <1>2, <1>9 DEF Deliver, Take, Hit, Store, Ack, DeadLetter, Failure, Fault, KnownAfterFault,
       LostCommit, FaultInDeadLetter, Kill, Disconnect, RequestFault, history
  <1>10. CASE UNCHANGED vars  BY <1>2, <1>10 DEF vars, history
  <1> QED BY <1>3, <1>4, <1>6, <1>7, <1>8, <1>9, <1>10 DEF Next, WorkerStep

LEMMA OrphanNext ==
  ASSUME TypeOK, NoOrphanRows, [Next]_vars
  PROVE  NoOrphanRows'
  <1> USE NextRange DEF NoOrphanRows
  <1>1. CASE Deliver
    BY <1>1, Delivered DEF Deliver, tables
  <1>2. CASE Take \/ Ack \/ DeadLetter \/ Fault \/ FaultInDeadLetter \/ Kill \/ Disconnect \/ Restart
    BY <1>2 DEF Take, Ack, DeadLetter, Fault, FaultInDeadLetter, Kill, Disconnect, Restart, tables
  <1>3. CASE Lookup \/ Register
    BY <1>3 DEF Lookup, Register, tables
  <1>4. CASE Store
    BY <1>4 DEF Store, Stores, RowsAccepted, RolledBack, current
  <1>5. CASE LostCommit
    BY <1>5 DEF LostCommit, Stores, RowsAccepted, current
  <1>6. ASSUME NEW r \in Request, RequestStep(r) \/ RequestFault(r) PROVE NoOrphanRows'
    <2>1. inbox' = inbox
      BY <1>6 DEF RequestStep, CreateCheck, CreateInsert, CreateRefresh, DeleteCheck, DeleteAgain,
         DeleteErase, RequestFault, worker
    <2>2. \/ rows' = rows /\ devices \subseteq devices'
          \/ rows' = RowsAfterDelete(req[r].device) /\ devices' = devices \ {req[r].device}
      BY <1>6 DEF RequestStep, CreateCheck, CreateInsert, CreateRefresh, DeleteCheck, DeleteAgain,
         DeleteErase, RequestFault, tables
    <2> QED BY <2>1, <2>2 DEF RowsAfterDelete
  <1>7. CASE Tick \/ (\E p \in Process, d \in Device : Evict(p, d)) \/ UNCHANGED vars
    BY <1>7 DEF Tick, Evict, vars, tables, worker
  <1> QED BY <1>1, <1>2, <1>3, <1>4, <1>5, <1>6, <1>7 DEF Next, WorkerStep, Failure

LEMMA KnownNext ==
  ASSUME TypeOK, Unseen, KnownInv, [Next]_vars
  PROVE  KnownInv'
  <1> USE NextRange DEF KnownInv, Excused, Rejected, Touched, Handling, current
  <1>1. CASE Deliver
    <2>1. /\ Len(inbox) \in Nat /\ Len(inbox') = Len(inbox) + 1
          /\ \A i \in 1..Len(inbox) : inbox'[i] = inbox[i]
          /\ phase \in Handling => next \in 1..Len(inbox)
          /\ UNCHANGED <<devices, deadLetter, known, added, erased, faulted, next, phase>>
      BY <1>1, Delivered DEF Deliver, tables, history
    <2>2. \A i \in 1..Len(inbox') : deadLetter'[i] > 0 => i \in 1..Len(inbox)
      <3>1. Len(inbox) < MaxMessages  BY <1>1 DEF Deliver
      <3>2. \A i \in 1..Len(inbox') : i \in Id  BY <2>1, <3>1, BoundsAssumption DEF Id
      <3> QED BY <2>1, <3>2 DEF Unseen
    <2>3. \A i \in 1..Len(inbox) : Excused(i) => Excused(i)'
      BY <2>1
    <2> QED BY <2>1, <2>2, <2>3 DEF Cached
  <1>2. CASE Take
    <2>1. ~Rejected(inbox[next]) => inbox[next].device \in Device
      BY <1>2, CurrentIsMessage DEF Take, Message
    <2> QED BY <1>2, <2>1 DEF Take, Hit, Cached, tables, budget, history
  <1>3. CASE Lookup \/ Register
    <2>1. \A d \in Device : Cached("worker", d)' => Cached("worker", d) \/ (d = inbox[next].device /\ d \in devices')
      <3>1. inbox[next].device \in Device  BY <1>3 DEF Lookup, Register, TypeOK
      <3>2. CASE known' = known /\ UNCHANGED devices  BY <3>2 DEF Cached
      <3>3. CASE known' = Remember("worker", inbox[next].device) /\ inbox[next].device \in devices'
        BY <3>1, <3>3, WorkerCache DEF Cached, Process
      <3> QED BY <1>3, <3>2, <3>3 DEF Lookup, Register, tables
    <2>2. UNCHANGED <<inbox, next, deadLetter, added, erased, faulted>> /\ devices \subseteq devices'
      BY <1>3 DEF Lookup, Register, tables
    <2>3. /\ phase' \in {"register", "store", "dlq"}
          /\ phase' = "register" => inbox[next].device \notin devices'
          /\ phase' = "store" => inbox[next].device \in devices'
      BY <1>3 DEF Lookup, Register, tables
    <2>4. phase' = "dlq" => Excused(next)
      BY <1>3 DEF Lookup, Register, KeyTaken
    <2>5. \A d \in Device : Cached("worker", d)' /\ d \notin Touched => d \in devices'
      BY <2>1, <2>2
    <2>6. \A i \in 1..Len(inbox) : deadLetter'[i] > 0 => Excused(i)'
      BY <2>2
    <2> QED BY <2>2, <2>3, <2>4, <2>5, <2>6
  <1>4. CASE Store
    BY <1>4 DEF Store, StoreRaises, RowsAccepted, AfterStoreError, Cached, history
  <1>5. CASE Ack
    BY <1>5 DEF Ack, Cached, history
  <1>6. CASE DeadLetter
    BY <1>6 DEF DeadLetter, AuditFailure, TypeOK, Cached, history
  <1>7. CASE Fault
    BY <1>7 DEF Fault, KnownAfterFault, Cached, tables
  <1>8. CASE LostCommit
    BY <1>8 DEF LostCommit, KnownAfterFault, Cached
  <1>9. CASE FaultInDeadLetter
    BY <1>9 DEF FaultInDeadLetter, AuditFailure, TypeOK, Cached
  <1>10. CASE Kill \/ Disconnect
    BY <1>10 DEF Kill, Disconnect, Cached, tables, history
  <1>11. CASE Restart
    BY <1>11 DEF Restart, TypeOK, Process, Cached, tables, history
  <1>12. ASSUME NEW r \in Request, RequestStep(r) \/ RequestFault(r) PROVE KnownInv'
    <2>1. UNCHANGED <<inbox, next, phase, deadLetter, faulted>>
      BY <1>12 DEF RequestStep, CreateCheck, CreateInsert, CreateRefresh, DeleteCheck, DeleteAgain,
         DeleteErase, RequestFault, tables, worker, history
    <2>2. /\ Touched \subseteq Touched'
          /\ \A d \in Device : d \notin Touched' => (d \in devices <=> d \in devices')
      BY <1>12 DEF RequestStep, CreateCheck, CreateInsert, CreateRefresh, DeleteCheck, DeleteAgain,
         DeleteErase, RequestFault, tables, history
    <2>3. known' = known \/ known' = Remember("api", req[r].device) \/ known' = Forget("api", req[r].device)
      BY <1>12 DEF RequestStep, CreateCheck, CreateInsert, CreateRefresh, DeleteCheck, DeleteAgain,
         DeleteErase, RequestFault
    <2>4. known'["worker"] = known["worker"]
      BY <2>3 DEF Remember, Forget, TypeOK, Process
    <2>5. phase \in {"register", "store"} => inbox[next].device \in Device
      BY DEF TypeOK
    <2> QED BY <2>1, <2>2, <2>4, <2>5 DEF Cached
  <1>13. CASE Tick \/ (\E p \in Process, d \in Device : Evict(p, d))
    <2>1. UNCHANGED <<inbox, next, phase, devices, deadLetter, faulted, added, erased>>
      BY <1>13 DEF Tick, Evict, tables, worker, history
    <2>2. \A d \in Device : Cached("worker", d)' => Cached("worker", d)
      <3>0. \A d \in Device : known["worker"][d] \in 0..TTL  BY DEF TypeOK, Process
      <3>1. CASE Tick
        BY <3>0, <3>1, BoundsAssumption DEF Tick, Cached, Process
      <3>2. ASSUME NEW p \in Process, NEW e \in Device, Evict(p, e)
            PROVE  \A d \in Device : Cached("worker", d)' => Cached("worker", d)
        BY <3>2, WorkerCache DEF Evict, Cached
      <3> QED BY <1>13, <3>1, <3>2
    <2> QED BY <2>1, <2>2
  <1>14. CASE UNCHANGED vars
    BY <1>14 DEF vars, tables, worker, history, Cached
  <1> QED BY <1>1, <1>2, <1>3, <1>4, <1>5, <1>6, <1>7, <1>8, <1>9, <1>10, <1>11, <1>12, <1>13, <1>14
          DEF Next, WorkerStep, Failure

LEMMA CreatorNext ==
  ASSUME TypeOK, CreatorInv, [Next]_vars
  PROVE  CreatorInv'
  <1> USE DEF CreatorInv, Inserted
  <1>0. \A r \in Request : req[r] \in RequestRecord  BY DEF TypeOK
  <1>1. CASE req' = req /\ erased' = erased /\ devices \subseteq devices'
    BY <1>1
  <1>2. CASE Deliver \/ WorkerStep \/ Restart \/ Tick \/ (\E p \in Process, d \in Device : Evict(p, d))
    BY <1>1, <1>2 DEF Deliver, WorkerStep, Take, Lookup, Register, Store, Ack, DeadLetter, Restart,
       Tick, Evict, tables, budget, history
  <1>3. CASE Fault \/ LostCommit \/ FaultInDeadLetter \/ Kill \/ Disconnect
    BY <1>1, <1>3 DEF Fault, LostCommit, FaultInDeadLetter, Kill, Disconnect, tables, history
  <1>4. ASSUME NEW r \in Request, RequestStep(r) \/ RequestFault(r) PROVE CreatorInv'
    <2>1. /\ \A s \in Request : s # r => req'[s] = req[s]
          /\ req'[r].op = req[r].op /\ req'[r].device = req[r].device
      BY <1>0, <1>4 DEF RequestStep, CreateCheck, CreateInsert, CreateRefresh, DeleteCheck, DeleteAgain,
         DeleteErase, RequestFault, MoveTo, Answer, TypeOK, RequestRecord
    <2>2. req'[r].at # "done" => req'[r].status = 0
      BY <1>0, <1>4 DEF RequestStep, CreateCheck, CreateInsert, CreateRefresh, DeleteCheck, DeleteAgain,
         DeleteErase, RequestFault, MoveTo, Answer, At, TypeOK, RequestRecord
    <2>3. erased \subseteq erased'
      BY <1>4 DEF RequestStep, CreateCheck, CreateInsert, CreateRefresh, DeleteCheck, DeleteAgain,
         DeleteErase, RequestFault, history
    <2>4. \A d \in devices : d \in devices' \/ d \in erased'
      BY <1>4 DEF RequestStep, CreateCheck, CreateInsert, CreateRefresh, DeleteCheck, DeleteAgain,
         DeleteErase, RequestFault, history, tables
    <2>5. Inserted(r)' => Inserted(r) \/ (req[r].device \notin devices /\ req[r].device \in devices')
      BY <1>0, <1>4 DEF RequestStep, CreateCheck, CreateInsert, CreateRefresh, DeleteCheck, DeleteAgain,
         DeleteErase, RequestFault, MoveTo, Answer, At, KeyTaken, TypeOK, RequestRecord
    <2> QED BY <2>1, <2>2, <2>3, <2>4, <2>5
  <1>5. CASE UNCHANGED vars
    BY <1>1, <1>5 DEF vars, tables, history
  <1> QED BY <1>2, <1>3, <1>4, <1>5 DEF Next, Failure

-----------------------------------------------------------------------------
LEMMA InitInv == Init => IInv
  <1> SUFFICES ASSUME Init PROVE IInv  OBVIOUS
  <1>1. TypeOK  BY InitType
  <1>2. Unseen /\ AuditInv /\ DeadInv /\ CountInv /\ NoOrphanRows
    BY DEF Init, Unseen, AuditInv, DeadInv, CountInv, NoOrphanRows, Handling, Id
  <1>3. KnownInv /\ StaleInv
    BY BoundsAssumption DEF Init, KnownInv, StaleInv, Cached, Process
  <1>4. CreatorInv
    BY DEF Init, CreatorInv, Inserted
  <1> QED BY <1>1, <1>2, <1>3, <1>4 DEF IInv

\* The invariant holds at the start and every step keeps it.
THEOREM Inductive == Spec => []IInv
  <1>1. Init => IInv  BY InitInv
  <1>2. IInv /\ [Next]_vars => IInv'
    BY NextType, AuditNext, DeadNext, CountNext, KnownNext, StaleNext, OrphanNext, CreatorNext DEF IInv
  <1> QED BY <1>1, <1>2, PTL DEF Spec

-----------------------------------------------------------------------------
(* What the invariant gives.                                               *)

\* The audit table does not lie about a message marked processed
\* (mqtt_worker.py:148-160), under any interleaving with the API's deletes.
THEOREM AuditIsTruthful == Spec => []AuditTruthful
  <1>1. IInv => AuditTruthful  BY DEF IInv, AuditInv, AuditTruthful, Accepted
  <1> QED BY <1>1, Inductive, PTL

\* A dead-lettered message (mqtt_worker.py:161-167) left no rows behind, unless
\* the database failed after their commit.
THEOREM DeadLetterIsHonest == Spec => []DeadLetterHonest
  <1>1. IInv => DeadLetterHonest  BY NextRange DEF IInv, DeadInv, DeadLetterHonest
  <1> QED BY <1>1, Inductive, PTL

\* No row of a deleted device survives, whatever was in flight
\* (init.sql:33, 48, device_repository.py:49-54).
THEOREM RowsHaveDevices == Spec => []NoOrphanRows
  <1>1. IInv => NoOrphanRows  BY DEF IInv
  <1> QED BY <1>1, Inductive, PTL

\* The API's deletes and registrations, and failed statements, are the only ways
\* a well-formed message is dead-lettered.
THEOREM UndisturbedIsDelivered == Spec => []UndisturbedDelivered
  <1>1. IInv => UndisturbedDelivered
    BY NextRange DEF IInv, KnownInv, Excused, Touched, UndisturbedDelivered, TypeOK
  <1> QED BY <1>1, Inductive, PTL

\* One of several concurrent registrations wins (api/devices.py:15-38).
THEOREM OneRegistrationWins == Spec => []OneCreator
  <1>1. IInv => OneCreator  BY DEF IInv, CreatorInv, Inserted, OneCreator
  <1> QED BY <1>1, Inductive, PTL

\* The worker's cache outlives a delete by one TTL at most
\* (device_repository.py:14, 60).
THEOREM StaleWindowIsBounded == Spec => []StaleWindowBounded
  <1>1. IInv => StaleWindowBounded
    <2> SUFFICES ASSUME IInv, NEW d \in Device PROVE staleFor[d] <= TTL
      BY DEF StaleWindowBounded
    <2>1. staleFor[d] \in Nat /\ known["worker"][d] \in 0..TTL
      BY DEF IInv, TypeOK, Process
    <2>2. staleFor[d] + known["worker"][d] <= TTL  BY DEF IInv, StaleInv
    <2> QED BY <2>1, <2>2, BoundsAssumption
  <1> QED BY <1>1, Inductive, PTL

\* The loop passes no message without its audit row.
THEOREM EveryMessageHandledOnce == Spec => HandledOnce
  <1>1. IInv /\ [Next]_vars => [PassedWithAuditRow]_vars
    <2> SUFFICES ASSUME IInv, Next, phase \in Handling, next' # next
                 PROVE  PassedWithAuditRow
      BY DEF PassedWithAuditRow
    <2> USE DEF IInv
    <2>1. next \in Id /\ processed \in [Id -> Nat] /\ deadLetter \in [Id -> Nat]
      BY NextRange DEF TypeOK
    <2>2. Ack \/ DeadLetter
      BY DEF Next, WorkerStep, Failure, RequestStep, Deliver, Take, Lookup, Register, Store, Restart,
         Tick, Evict, Fault, LostCommit, FaultInDeadLetter, Kill, Disconnect, RequestFault,
         CreateCheck, CreateInsert, CreateRefresh, DeleteCheck, DeleteAgain, DeleteErase,
         worker, Handling
    <2>3. CASE Ack
      BY <2>1, <2>3 DEF Ack, CountInv, PassedWithAuditRow
    <2>4. CASE DeadLetter
      BY <2>1, <2>4 DEF DeadLetter, AuditFailure, CountInv, PassedWithAuditRow
    <2> QED BY <2>2, <2>3, <2>4
  <1> QED BY <1>1, Inductive, PTL DEF Spec, HandledOnce

-----------------------------------------------------------------------------
(* The worker and the API implement IngestLedger.                          *)

\* A step that leaves the audit rows alone leaves the verdicts alone, and so for rows.
LEMMA SameVerdict ==
  ASSUME processed' = processed, deadLetter' = deadLetter
  PROVE  Verdict' = Verdict
  BY DEF Verdict

LEMMA SameStored ==
  ASSUME IInv, rows' = rows, \A i \in rows : inbox'[i] = inbox[i]
  PROVE  Stored' = Stored
  BY DEF Stored

\* What one more audit row does to the verdicts.
LEMMA JudgedProcessed ==
  ASSUME IInv, next \in Id, processed' = [processed EXCEPT ![next] = @ + 1],
         deadLetter' = deadLetter
  PROVE  Verdict' = [Verdict EXCEPT ![next] = @ \cup {"processed"}]
  <1>1. processed \in [Id -> Nat]  BY DEF IInv, TypeOK
  <1>2. processed'[next] > 0 /\ \A i \in Id \ {next} : processed'[i] = processed[i]
    BY <1>1
  <1> QED BY <1>2 DEF Verdict

LEMMA JudgedUnprocessed ==
  ASSUME IInv, next \in Id, deadLetter' = AuditFailure, processed' = processed
  PROVE  Verdict' = [Verdict EXCEPT ![next] = @ \cup {"unprocessed"}]
  <1>1. deadLetter \in [Id -> Nat]  BY DEF IInv, TypeOK
  <1>2. deadLetter'[next] > 0 /\ \A i \in Id \ {next} : deadLetter'[i] = deadLetter[i]
    BY <1>1 DEF AuditFailure
  <1> QED BY <1>2 DEF Verdict

\* While the handler runs the message has no verdict, at the dead letter no "unprocessed".
LEMMA Undecided ==
  ASSUME IInv, phase \in Handling
  PROVE  /\ next \in Id
         /\ phase # "dlq" => Verdict[next] = {}
         /\ phase = "dlq" => "unprocessed" \notin Verdict[next]
  <1>1. next \in Id  BY NextRange DEF IInv
  <1>2. CASE phase # "dlq"
    BY <1>1, <1>2 DEF IInv, CountInv, Handling, Verdict
  <1>3. CASE phase = "dlq"
    BY <1>1, <1>3 DEF IInv, CountInv, Verdict
  <1> QED BY <1>1, <1>2, <1>3

\* The rows of a message are written once, while its device exists.
LEMMA WritesRows ==
  ASSUME IInv, phase = "store", Stores(current), rows' = rows \cup {next}, inbox' = inbox,
         devices' = devices, processed' = processed, deadLetter' = deadLetter, next' = next
  PROVE  Ledger!Next
  <1>1. next \in Id /\ Verdict[next] = {}
    BY Undecided DEF Handling
  <1>2. current.device \in devices /\ current.device \in Device
    BY DEF Stores, RowsAccepted, IInv, TypeOK
  <1>3. next \notin rows  BY DEF IInv, DeadInv, TypeOK
  <1>4. \A s \in Stored : s.message # next  BY <1>3 DEF Stored
  <1>5. Stored' = Stored \cup {[message |-> next, device |-> current.device]}
    BY DEF Stored, current
  <1>6. Ledger!Write(current.device)
    BY <1>1, <1>2, <1>4, <1>5, SameVerdict DEF Ledger!Write, Ledger!Pending
  <1> QED BY <1>2, <1>6 DEF Ledger!Next

LEMMA RegistersDevice ==
  ASSUME NEW d \in Device, devices' = devices \cup {d}, rows' = rows, inbox' = inbox,
         processed' = processed, deadLetter' = deadLetter, next' = next, IInv
  PROVE  Ledger!Next
  <1>1. Stored' = Stored /\ Verdict' = Verdict  BY SameStored, SameVerdict
  <1>2. Ledger!Register(d)  BY <1>1 DEF Ledger!Register
  <1> QED BY <1>2 DEF Ledger!Next

LEMMA ErasesDevice ==
  ASSUME NEW d \in Device, devices' = devices \ {d}, rows' = RowsAfterDelete(d), inbox' = inbox,
         processed' = processed, deadLetter' = deadLetter, next' = next
  PROVE  Ledger!Next
  <1>1. Stored' = {s \in Stored : s.device # d}  BY DEF Stored, RowsAfterDelete
  <1>2. Verdict' = Verdict  BY SameVerdict
  <1>3. Ledger!Delete(d)  BY <1>1, <1>2 DEF Ledger!Delete
  <1> QED BY <1>3 DEF Ledger!Next

LEMMA JudgesProcessed ==
  ASSUME IInv, phase = "ack", processed' = [processed EXCEPT ![next] = @ + 1],
         deadLetter' = deadLetter, devices' = devices, rows' = rows, inbox' = inbox,
         next' \in {next, next + 1}
  PROVE  Ledger!Next
  <1>1. next \in Id /\ Verdict[next] = {}  BY Undecided DEF Handling
  <1>2. Verdict' = [Verdict EXCEPT ![next] = @ \cup {"processed"}]
    BY <1>1, JudgedProcessed
  <1>3. Stored' = Stored  BY SameStored
  <1>4. Ledger!Judge("processed")
    BY <1>1, <1>2, <1>3 DEF Ledger!Judge, Ledger!Pending
  <1> QED BY <1>4 DEF Ledger!Next

LEMMA JudgesUnprocessed ==
  ASSUME IInv, phase = "dlq", deadLetter' = AuditFailure, processed' = processed,
         devices' = devices, rows' = rows, inbox' = inbox, next' \in {next, next + 1}
  PROVE  Ledger!Next
  <1>1. next \in Id /\ "unprocessed" \notin Verdict[next]  BY Undecided DEF Handling
  <1>2. Verdict' = [Verdict EXCEPT ![next] = @ \cup {"unprocessed"}]
    BY <1>1, JudgedUnprocessed
  <1>3. Stored' = Stored  BY SameStored
  <1>4. Ledger!Judge("unprocessed")
    BY <1>1, <1>2, <1>3 DEF Ledger!Judge
  <1> QED BY <1>4 DEF Ledger!Next

\* The rest of the queue is lost, if there is one.
LEMMA LosesQueue ==
  ASSUME IInv, next' = Len(inbox) + 1, UNCHANGED <<tables, inbox>>
  PROVE  Ledger!Next \/ UNCHANGED <<devices, Stored, Verdict, next>>
  <1>1. Stored' = Stored /\ Verdict' = Verdict /\ devices' = devices
    BY SameStored, SameVerdict DEF tables
  <1>2. /\ Len(inbox) \in Nat /\ next \in 1..(Len(inbox) + 1)
        /\ Len(inbox) <= MaxMessages /\ MaxMessages \in Nat
    BY BoundsAssumption DEF IInv, TypeOK
  <1>3. CASE next = Len(inbox) + 1  BY <1>1, <1>3
  <1>4. CASE next # Len(inbox) + 1
    <2>1. Len(inbox) \in Id /\ Len(inbox) >= next  BY <1>2, <1>4 DEF Id
    <2>2. Ledger!Lose  BY <1>1, <2>1 DEF Ledger!Lose
    <2> QED BY <2>2 DEF Ledger!Next
  <1> QED BY <1>3, <1>4

-----------------------------------------------------------------------------
\* The worker's own steps.
LEMMA WorkerKeepsLedger ==
  IInv /\ WorkerStep => Ledger!Next \/ UNCHANGED <<devices, Stored, Verdict, next>>
  <1> SUFFICES ASSUME IInv, WorkerStep
               PROVE  Ledger!Next \/ UNCHANGED <<devices, Stored, Verdict, next>>
    OBVIOUS
  <1>1. CASE Take
    BY <1>1, SameStored, SameVerdict DEF Take, tables
  <1>2. CASE Lookup
    BY <1>2, SameStored, SameVerdict DEF Lookup, tables
  <1>3. CASE Register
    <2>1. current.device \in Device  BY <1>3 DEF Register, IInv, TypeOK, Handling
    <2>2. CASE ~KeyTaken(current.device)
      BY <1>3, <2>1, <2>2, RegistersDevice DEF Register
    <2>3. CASE KeyTaken(current.device)
      BY <1>3, <2>3, SameStored, SameVerdict DEF Register
    <2> QED BY <2>2, <2>3
  <1>4. CASE Store
    <2>1. CASE Stores(current) /\ rows' = rows \cup {next}
      BY <1>4, <2>1, WritesRows DEF Store
    <2>2. CASE rows' = rows
      BY <1>4, <2>2, SameStored, SameVerdict DEF Store
    <2> QED BY <1>4, <2>1, <2>2 DEF Store, RolledBack
  <1>5. CASE Ack
    BY <1>5, JudgesProcessed DEF Ack
  <1>6. CASE DeadLetter
    BY <1>6, JudgesUnprocessed DEF DeadLetter
  <1> QED BY <1>1, <1>2, <1>3, <1>4, <1>5, <1>6 DEF WorkerStep

\* The handlers' steps.
LEMMA RequestKeepsLedger ==
  ASSUME IInv, NEW r \in Request, RequestStep(r)
  PROVE  Ledger!Next \/ UNCHANGED <<devices, Stored, Verdict, next>>
  <1>0. req[r].device \in Device  BY DEF IInv, TypeOK, RequestRecord
  <1>1. CASE CreateCheck(r) \/ CreateRefresh(r) \/ DeleteCheck(r) \/ DeleteAgain(r)
    BY <1>1, SameStored, SameVerdict
       DEF CreateCheck, CreateRefresh, DeleteCheck, DeleteAgain, tables, worker
  <1>2. CASE CreateInsert(r)
    <2>1. CASE KeyTaken(req[r].device)
      BY <1>2, <2>1, SameStored, SameVerdict DEF CreateInsert, worker
    <2>2. CASE ~KeyTaken(req[r].device)
      BY <1>0, <1>2, <2>2, RegistersDevice DEF CreateInsert, worker
    <2> QED BY <2>1, <2>2
  <1>3. CASE DeleteErase(r)
    BY <1>0, <1>3, ErasesDevice DEF DeleteErase, worker
  <1> QED BY <1>1, <1>2, <1>3 DEF RequestStep

\* The failures.
LEMMA FailureKeepsLedger ==
  IInv /\ Failure => Ledger!Next \/ UNCHANGED <<devices, Stored, Verdict, next>>
  <1> SUFFICES ASSUME IInv, Failure
               PROVE  Ledger!Next \/ UNCHANGED <<devices, Stored, Verdict, next>>
    OBVIOUS
  <1>1. CASE Fault
    BY <1>1, SameStored, SameVerdict DEF Fault, tables
  <1>2. CASE LostCommit
    <2>1. CASE /\ phase = "register" /\ devices' = devices \cup {current.device}
               /\ UNCHANGED <<rows, processed>>
      <3>1. current.device \in Device  BY <2>1 DEF IInv, TypeOK, Handling
      <3> QED BY <1>2, <2>1, <3>1, RegistersDevice DEF LostCommit
    <2>2. CASE /\ phase = "store" /\ Stores(current) /\ rows' = rows \cup {next}
               /\ UNCHANGED <<devices, processed>>
      BY <1>2, <2>2, WritesRows DEF LostCommit
    <2>3. CASE /\ phase = "ack" /\ processed' = [processed EXCEPT ![next] = @ + 1]
               /\ UNCHANGED <<devices, rows>>
      BY <1>2, <2>3, JudgesProcessed DEF LostCommit
    <2> QED BY <1>2, <2>1, <2>2, <2>3 DEF LostCommit
  <1>3. CASE FaultInDeadLetter
    <2>1. CASE deadLetter' = deadLetter
      BY <1>3, <2>1, SameStored, SameVerdict DEF FaultInDeadLetter
    <2>2. CASE deadLetter' = AuditFailure
      BY <1>3, <2>2, JudgesUnprocessed DEF FaultInDeadLetter
    <2> QED BY <1>3, <2>1, <2>2 DEF FaultInDeadLetter
  <1>4. CASE Kill
    BY <1>4, SameStored, SameVerdict DEF Kill, tables
  <1>5. CASE Disconnect
    BY <1>5, LosesQueue DEF Disconnect
  <1>6. ASSUME NEW r \in Request, RequestFault(r)
        PROVE  Ledger!Next \/ UNCHANGED <<devices, Stored, Verdict, next>>
    <2>0. req[r].device \in Device  BY DEF IInv, TypeOK, RequestRecord
    <2>1. CASE UNCHANGED <<devices, rows>>
      BY <1>6, <2>1, SameStored, SameVerdict DEF RequestFault, worker
    <2>2. CASE devices' = devices \cup {req[r].device} /\ rows' = rows
      BY <1>6, <2>0, <2>2, RegistersDevice DEF RequestFault, worker
    <2>3. CASE devices' = devices \ {req[r].device} /\ rows' = RowsAfterDelete(req[r].device)
      BY <1>6, <2>0, <2>3, ErasesDevice DEF RequestFault, worker
    <2> QED BY <1>6, <2>1, <2>2, <2>3 DEF RequestFault
  <1> QED BY <1>1, <1>2, <1>3, <1>4, <1>5, <1>6 DEF Failure

\* The worker, the API and their failures implement the ledger of messages: rows are
\* written once and before the verdict, verdicts come in order (mqtt_worker.py:119-168).
THEOREM ImplementsLedger == Spec => KeepsIngestLedger
  <1>1. Init => Ledger!Init
    BY DEF Init, Ledger!Init, Stored, Verdict
  <1>2. IInv /\ [Next]_vars => [Ledger!Next]_<<devices, Stored, Verdict, next>>
    <2> SUFFICES ASSUME IInv, [Next]_vars
                 PROVE  Ledger!Next \/ UNCHANGED <<devices, Stored, Verdict, next>>
      OBVIOUS
    <2>1. CASE Deliver
      <3>1. \A i \in rows : inbox'[i] = inbox[i]
        BY <2>1, Delivered DEF IInv, TypeOK
      <3> QED BY <2>1, <3>1, SameStored, SameVerdict DEF Deliver, tables
    <2>2. CASE WorkerStep  BY <2>2, WorkerKeepsLedger
    <2>3. CASE Restart  BY <2>3, LosesQueue DEF Restart
    <2>4. CASE Tick  BY <2>4, SameStored, SameVerdict DEF Tick, tables, worker
    <2>5. ASSUME NEW p \in Process, NEW d \in Device, Evict(p, d)
          PROVE  UNCHANGED <<devices, Stored, Verdict, next>>
      BY <2>5, SameStored, SameVerdict DEF Evict, tables, worker
    <2>6. ASSUME NEW r \in Request, RequestStep(r)
          PROVE  Ledger!Next \/ UNCHANGED <<devices, Stored, Verdict, next>>
      BY <2>6, RequestKeepsLedger
    <2>7. CASE Failure  BY <2>7, FailureKeepsLedger
    <2>8. CASE UNCHANGED vars  BY <2>8, SameStored, SameVerdict DEF vars, tables, worker
    <2> QED BY <2>1, <2>2, <2>3, <2>4, <2>5, <2>6, <2>7, <2>8 DEF Next
  <1> QED BY <1>1, <1>2, Inductive, PTL DEF Spec, KeepsIngestLedger, Ledger!Spec

-----------------------------------------------------------------------------
(* What `Drains` rests on but fairness: the loop never goes back, and each *)
(* of its steps brings the message in hand nearer to its verdict.          *)

\* Steps that a message has before it at most, the wait for a new process included.
Left(stage) ==
  CASE stage = "down" -> 7 [] stage = "idle" -> 6 [] stage = "lookup" -> 5
    [] stage = "register" -> 4 [] stage = "store" -> 3 [] stage = "ack" -> 2
    [] OTHER -> 1

\* The loop stays at a message only to come nearer to its end, or because it died.
LoopAdvances ==
  /\ next' >= next
  /\ WorkerStep \/ Restart => next' > next \/ Left(phase') < Left(phase)
  /\ next' = next /\ phase' # "down" => Left(phase') <= Left(phase)

\* What is behind the frontier is settled: no verdict is added, no row comes back.
SettledStays ==
  \A i \in 1..(next - 1) :
    /\ processed'[i] = processed[i] /\ deadLetter'[i] = deadLetter[i]
    /\ i \in rows' => i \in rows

LEMMA WorkerAdvances ==
  ASSUME IInv, WorkerStep
  PROVE  LoopAdvances
  <1>1. next \in Nat  BY DEF IInv, TypeOK
  <1>2. phase \in {"idle", "lookup", "register", "store", "ack", "dlq"}
    BY DEF WorkerStep, Take, Lookup, Register, Store, Ack, DeadLetter
  <1>3. CASE Ack \/ DeadLetter
    <2>1. next' = next + 1  BY <1>3 DEF Ack, DeadLetter
    <2> QED BY <1>1, <2>1 DEF LoopAdvances
  <1>4. CASE Take \/ Lookup \/ Register \/ Store
    <2>1. /\ next' = next
          /\ \/ phase = "idle" /\ phase' \in {"dlq", "store", "lookup"}
             \/ phase = "lookup" /\ phase' \in {"store", "register"}
             \/ phase = "register" /\ phase' \in {"store", "dlq"}
             \/ phase = "store" /\ phase' \in {"ack", "dlq"}
      BY <1>4 DEF Take, Lookup, Register, Store, AfterStoreError
    <2>2. Left(phase') < Left(phase) /\ Left(phase') <= Left(phase)  BY <2>1 DEF Left
    <2> QED BY <1>1, <2>1, <2>2 DEF LoopAdvances
  <1> QED BY <1>3, <1>4 DEF WorkerStep

LEMMA StepAdvances == IInv /\ [Next]_vars => [LoopAdvances]_vars
  <1> SUFFICES ASSUME IInv, Next PROVE LoopAdvances
    <2>1. UNCHANGED vars => [LoopAdvances]_vars  OBVIOUS
    <2> QED BY <2>1
  <1>0. /\ next \in Nat /\ next <= Len(inbox) + 1 /\ Len(inbox) \in Nat
        /\ phase \in WorkerPhase
    BY NextRange DEF IInv, TypeOK
  <1>1. CASE WorkerStep  BY <1>1, WorkerAdvances
  <1>2. ASSUME UNCHANGED <<next, phase>>, ~WorkerStep PROVE LoopAdvances
    <2>1. ~Restart  BY <1>2 DEF Restart
    <2>2. Left(phase') <= Left(phase)  BY <1>2 DEF Left
    <2> QED BY <1>0, <1>2, <2>1, <2>2 DEF LoopAdvances
  <1>3. CASE /\ ~WorkerStep
             /\ \/ Deliver \/ Tick
                \/ \E p \in Process, d \in Device : Evict(p, d)
                \/ \E r \in Request : RequestStep(r) \/ RequestFault(r)
    BY <1>2, <1>3
       DEF Deliver, Tick, Evict, RequestStep, CreateCheck, CreateInsert, CreateRefresh,
           DeleteCheck, DeleteAgain, DeleteErase, RequestFault, worker
  <1>4. CASE Restart
    <2>1. next' >= next /\ phase = "down" /\ phase' = "idle"  BY <1>0, <1>4 DEF Restart
    <2>2. Left("idle") < Left("down") /\ Left("idle") <= Left("down")  BY DEF Left
    <2> QED BY <2>1, <2>2 DEF LoopAdvances
  <1>5. CASE ~WorkerStep /\ (Fault \/ LostCommit)
    <2>1. next' = next /\ phase \in Handling /\ phase' = "dlq"
      BY <1>5 DEF Fault, LostCommit, Handling
    <2>2. Left(phase') <= Left(phase)  BY <2>1 DEF Left, Handling
    <2>3. ~Restart  BY <2>1 DEF Restart, Handling
    <2> QED BY <1>0, <1>5, <2>1, <2>2, <2>3 DEF LoopAdvances
  <1>6. CASE ~WorkerStep /\ (FaultInDeadLetter \/ Kill)
    <2>1. next' = next /\ phase' = "down"  BY <1>6 DEF FaultInDeadLetter, Kill
    <2>2. ~Restart  BY <2>1 DEF Restart
    <2> QED BY <1>0, <1>6, <2>1, <2>2 DEF LoopAdvances
  <1>7. CASE ~WorkerStep /\ Disconnect
    <2>1. next' >= next /\ phase = "idle" /\ phase' = phase  BY <1>0, <1>7 DEF Disconnect
    <2>2. Left(phase') <= Left(phase)  BY <2>1 DEF Left
    <2>3. ~Restart  BY <2>1 DEF Restart
    <2> QED BY <1>7, <2>1, <2>2, <2>3 DEF LoopAdvances
  <1> QED BY <1>1, <1>3, <1>4, <1>5, <1>6, <1>7 DEF Next, Failure

\* mqtt_worker.py:196-206: the loop takes messages in order and never goes back; its own
\* steps end each message, after at most one wait for a new process for each death.
THEOREM LoopTerminates == Spec => [][LoopAdvances]_vars
  <1>1. IInv /\ [Next]_vars => [LoopAdvances]_vars  BY StepAdvances
  <1> QED BY <1>1, Inductive, PTL DEF Spec

LEMMA SettledStep == IInv /\ [Next]_vars => [SettledStays]_vars
  <1> SUFFICES ASSUME IInv, Next, NEW i \in 1..(next - 1)
               PROVE  /\ processed'[i] = processed[i] /\ deadLetter'[i] = deadLetter[i]
                      /\ i \in rows' => i \in rows
    BY DEF SettledStays
  <1>n. next \in 1..(Len(inbox) + 1) /\ Len(inbox) \in Nat /\ TypeOK
    BY NextRange DEF IInv
  <1>0. i \in 1..Len(inbox) /\ i # next  BY <1>n
  <1>i. i \in Id  BY <1>0, NextRange DEF IInv
  <1>e. /\ [processed EXCEPT ![next] = @ + 1][i] = processed[i]
        /\ [deadLetter EXCEPT ![next] = @ + 1][i] = deadLetter[i]
    BY <1>n, <1>0, <1>i DEF TypeOK
  <1>1. CASE WorkerStep
    BY <1>0, <1>e, <1>1
       DEF WorkerStep, Take, Lookup, Register, Store, Ack, DeadLetter, AuditFailure, RolledBack, tables
  <1>2. CASE Failure
    <2>1. CASE Fault \/ LostCommit \/ FaultInDeadLetter \/ Kill \/ Disconnect
      BY <1>0, <1>e, <2>1
         DEF Fault, LostCommit, FaultInDeadLetter, Kill, Disconnect, AuditFailure, tables
    <2>2. CASE \E r \in Request : RequestFault(r)
      BY <2>2 DEF RequestFault, RowsAfterDelete
    <2> QED BY <1>2, <2>1, <2>2 DEF Failure
  <1>3. CASE \/ Deliver \/ Restart \/ Tick
             \/ \E p \in Process, d \in Device : Evict(p, d)
    BY <1>3 DEF Deliver, Restart, Tick, Evict, tables
  <1>4. CASE \E r \in Request : RequestStep(r)
    BY <1>4 DEF RequestStep, CreateCheck, CreateInsert, CreateRefresh, DeleteCheck, DeleteAgain,
       DeleteErase, RowsAfterDelete, tables
  <1> QED BY <1>1, <1>2, <1>3, <1>4 DEF Next

\* What the loop has passed is never judged again nor given rows, whatever restarts,
\* faults and lost commits follow (mqtt_worker.py:157-168).
THEOREM PassedIsSettled == Spec => [][SettledStays]_vars
  <1>1. IInv /\ [Next]_vars => [SettledStays]_vars  BY SettledStep
  <1> QED BY <1>1, Inductive, PTL DEF Spec

=============================================================================
