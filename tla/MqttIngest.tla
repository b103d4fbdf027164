----------------------------- MODULE MqttIngest -----------------------------
(***************************************************************************)
(* The ingestion path: the single mqtt-worker process handling one MQTT    *)
(* message at a time, and the REST handlers that create and delete devices *)
(* in the API process, over the tables of sql/init.sql they share.         *)
(*                                                                         *)
(* A step is what happens between two awaits: one SQL statement (with its  *)
(* COMMIT) and the synchronous code after it.  PostgreSQL runs READ        *)
(* COMMITTED, so every statement sees the last committed tables.           *)
(***************************************************************************)
EXTENDS Naturals, Sequences

CONSTANTS
  Device,       \* device ids: topic level 2, and devices.device_id
  NoDevice,     \* extract_device_id gave None or ""
  Request,      \* concurrent REST requests
  TTL,          \* lifetime of a cache entry, in ticks (60 s in the code)
  MaxMessages,  \* bound: messages delivered to the worker
  MaxFaults,    \* bound: SQL statements that fail
  MaxStops      \* bound: times the worker's process or its connection dies

ASSUME NoDeviceAssumption == NoDevice \notin Device
ASSUME BoundsAssumption ==
  TTL \in Nat \ {0} /\ MaxMessages \in Nat /\ MaxFaults \in Nat /\ MaxStops \in Nat

Id == 1..MaxMessages
Process == {"worker", "api"}   \* each has its own copy of the module-level cache

(***************************************************************************)
(* What handling can tell apart in a payload: "readings" makes rows,       *)
(* "empty" is valid with no numeric value, "malformed" is JSON the handler *)
(* or a CHECK constraint refuses, "bad_json" does not parse.               *)
(***************************************************************************)
Message ==
  [device : Device, body : {"readings", "empty", "malformed", "bad_json"}]
    \cup [device : {NoDevice}, body : {"readings"}]

Handling == {"lookup", "register", "store", "ack", "dlq"}
WorkerPhase == Handling \cup {"idle", "down"}
Stage == {"new", "insert", "refresh", "reget", "erase", "done"}
Status == {0, 201, 204, 404, 409, 500}

VARIABLES
  devices,      \* rows of `devices`
  rows,         \* messages whose telemetry / device_status rows are in the database
  processed,    \* audit rows with processed = true, per message
  deadLetter,   \* audit rows with processed = false, per message
  inbox,        \* messages delivered so far; those before `next` are handled or lost
  next,         \* the message being handled, or the next one
  phase,        \* where process_message stands
  known,        \* _known_device_cache: remaining lifetime per process, 0 = absent
  req,          \* the REST requests
  faults, stops,
  faulted,      \* history: messages whose handling met a failed statement
  added,        \* history: devices whose row the API has inserted
  erased,       \* history: devices whose row the API has deleted
  staleFor      \* history: ticks the worker has held an entry without a row

tables  == <<devices, rows, processed, deadLetter>>
worker  == <<inbox, next, phase>>
history == <<faulted, added, erased, staleFor>>
budget  == <<faults, stops>>
vars    == <<tables, worker, known, req, budget, history>>

RequestRecord == [op : {"create", "delete"}, device : Device, at : Stage, status : Status]

current == inbox[next]

TypeOK ==
  /\ devices \subseteq Device
  /\ rows \subseteq 1..Len(inbox)
  /\ processed \in [Id -> Nat]
  /\ deadLetter \in [Id -> Nat]
  /\ inbox \in Seq(Message)
  /\ Len(inbox) <= MaxMessages
  /\ next \in 1..(Len(inbox) + 1)
  /\ phase \in WorkerPhase
  /\ phase \in Handling => next <= Len(inbox)
  /\ phase \in Handling \ {"dlq"} => current.device \in Device
  /\ known \in [Process -> [Device -> 0..TTL]]
  /\ req \in [Request -> RequestRecord]
  /\ faults \in 0..MaxFaults
  /\ stops \in 0..MaxStops
  /\ faulted \subseteq Id
  /\ added \subseteq Device
  /\ erased \subseteq Device
  /\ staleFor \in [Device -> Nat]

Init ==
  /\ devices \in SUBSET Device
  /\ rows = {}
  /\ processed = [i \in Id |-> 0]
  /\ deadLetter = [i \in Id |-> 0]
  /\ inbox = << >>
  /\ next = 1
  /\ phase = "idle"
  /\ known = [p \in Process |-> [d \in Device |-> 0]]
  /\ req \in [Request -> [op : {"create", "delete"}, device : Device,
                          at : {"new"}, status : {0}]]
  /\ faults = 0
  /\ stops = 0
  /\ faulted = {}
  /\ added = {}
  /\ erased = {}
  /\ staleFor = [d \in Device |-> 0]

-----------------------------------------------------------------------------
(* The cache, and what the schema does.                                    *)

Cached(p, d) == known[p][d] > 0
RememberTooLong(p, d) == [known EXCEPT ![p][d] = TTL + 1]
Remember(p, d) == [known EXCEPT ![p][d] = TTL]
Forget(p, d) == [known EXCEPT ![p][d] = 0]

\* The worker has just seen or written the row: its entry is not stale.
Fresh(d) == [staleFor EXCEPT ![d] = 0]

\* A cache hit leaves the entry's deadline alone: TTLCache does not slide.
HitSlides(d) == Remember("worker", d)
Hit(d) == known

\* FOREIGN KEY (device_id) REFERENCES devices on telemetry and device_status.
RowsAccepted(m) == m.device \in devices

\* ON DELETE CASCADE of the same keys.
NoCascade(d) == rows
RowsAfterDelete(d) == {i \in rows : inbox[i].device # d}

\* devices.device_id is the primary key.
KeyNeverTaken(d) == FALSE
KeyTaken(d) == d \in devices

-----------------------------------------------------------------------------
(* The worker.                                                             *)

Rejected(m) == m.body = "bad_json" \/ m.device = NoDevice

\* aiomqtt puts a message of a subscribed topic in the client's queue; the
\* session is clean, so nothing arrives while the worker is down.
Deliver ==
  /\ phase # "down"
  /\ Len(inbox) < MaxMessages
  /\ \E m \in Message : inbox' = Append(inbox, m)
  /\ UNCHANGED <<tables, next, phase, known, req, budget, history>>

\* The loop takes a message; bad JSON or no device id goes straight to the
\* audit table, and a cached device skips the lookup.
Take ==
  /\ phase = "idle"
  /\ next <= Len(inbox)
  /\ \/ /\ Rejected(current)
        /\ phase' = "dlq"
        /\ known' = known
     \/ /\ ~Rejected(current)
        /\ Cached("worker", current.device)
        /\ phase' = "store"
        /\ known' = Hit(current.device)
     \/ /\ ~Rejected(current)
        /\ ~Cached("worker", current.device)
        /\ phase' = "lookup"
        /\ known' = known
  /\ UNCHANGED <<tables, inbox, next, req, budget, history>>

\* upsert_from_telemetry: SELECT, then cache the row it found.
Lookup ==
  /\ phase = "lookup"
  /\ \/ /\ current.device \in devices
        /\ known' = Remember("worker", current.device)
        /\ staleFor' = Fresh(current.device)
        /\ phase' = "store"
     \/ /\ current.device \notin devices
        /\ phase' = "register"
        /\ UNCHANGED <<known, staleFor>>
  /\ UNCHANGED <<tables, inbox, next, req, budget, faulted, added, erased>>

\* upsert_from_telemetry: INSERT the row, then cache it.  The primary key refuses
\* it when the API inserted the row since the SELECT; the message is dead-lettered.
Register ==
  /\ phase = "register"
  /\ \/ /\ ~KeyTaken(current.device)
        /\ devices' = devices \cup {current.device}
        /\ known' = Remember("worker", current.device)
        /\ staleFor' = Fresh(current.device)
        /\ phase' = "store"
     \/ /\ KeyTaken(current.device)
        /\ phase' = "dlq"
        /\ UNCHANGED <<devices, known, staleFor>>
  /\ UNCHANGED <<rows, processed, deadLetter, inbox, next, req, budget, faulted, added, erased>>

\* What handle_telemetry / handle_status leave in the database: all the rows of
\* the message in one commit, or nothing.
Stores(m) == m.body = "readings" /\ RowsAccepted(m)
StoreRaises(m) == m.body = "malformed" \/ (m.body = "readings" /\ ~RowsAccepted(m))

StoreRetried == "store"
StoreErrorSwallowed == "ack"
AfterStoreError == "dlq"

CommittedPerMetric == IF current.device \in devices THEN rows \cup {next} ELSE rows
RolledBack == rows

Store ==
  /\ phase = "store"
  /\ \/ /\ Stores(current)
        /\ rows' = rows \cup {next}
        /\ phase' = "ack"
     \/ /\ current.body = "empty"
        /\ rows' = rows
        /\ phase' = "ack"
     \/ /\ StoreRaises(current)
        /\ rows' = RolledBack
        /\ phase' = AfterStoreError
  /\ UNCHANGED <<devices, processed, deadLetter, inbox, next, known, req, budget, history>>

\* store_raw_message(processed=True), and the loop moves on.
Ack ==
  /\ phase = "ack"
  /\ processed' = [processed EXCEPT ![next] = @ + 1]
  /\ next' = next + 1
  /\ phase' = "idle"
  /\ UNCHANGED <<devices, rows, deadLetter, inbox, known, req, budget, history>>

\* store_raw_message(processed=False): from the except clause, after the
\* rollback, or from one of the two early returns.
AuditSkipped == deadLetter
AuditFailure == [deadLetter EXCEPT ![next] = @ + 1]

DeadLetter ==
  /\ phase = "dlq"
  /\ deadLetter' = AuditFailure
  /\ next' = next + 1
  /\ phase' = "idle"
  /\ UNCHANGED <<devices, rows, processed, inbox, known, req, budget, history>>

-----------------------------------------------------------------------------
(* Failures of the database, the process and the connection.               *)

SpendFault ==
  /\ faults < MaxFaults
  /\ faults' = faults + 1
  /\ stops' = stops

\* The cache entry is written after the INSERT's commit, not before it.
KnownIfCachedFirst ==
  IF phase = "register" THEN Remember("worker", current.device) ELSE known
KnownAfterFault == known

\* A statement of the try block raises, and its transaction is rolled back.
Fault ==
  /\ SpendFault
  /\ phase \in Handling \ {"dlq"}
  /\ phase' = "dlq"
  /\ known' = KnownAfterFault
  /\ faulted' = faulted \cup {next}
  /\ UNCHANGED <<tables, inbox, next, req, added, erased, staleFor>>

\* The same, when the server committed and the connection died before it said so.
LostCommit ==
  /\ SpendFault
  /\ \/ /\ phase = "register" /\ ~KeyTaken(current.device)
        /\ devices' = devices \cup {current.device}
        /\ UNCHANGED <<rows, processed>>
     \/ /\ phase = "store" /\ Stores(current)
        /\ rows' = rows \cup {next}
        /\ UNCHANGED <<devices, processed>>
     \/ /\ phase = "ack"
        /\ processed' = [processed EXCEPT ![next] = @ + 1]
        /\ UNCHANGED <<devices, rows>>
  /\ phase' = "dlq"
  /\ known' = KnownAfterFault
  /\ faulted' = faulted \cup {next}
  /\ UNCHANGED <<deadLetter, inbox, next, req, added, erased, staleFor>>

\* The audit INSERT itself raises: nothing catches it (run_worker only expects
\* MqttError), and the process exits.
FaultInDeadLetter ==
  /\ SpendFault
  /\ phase = "dlq"
  /\ deadLetter' \in {deadLetter, AuditFailure}
  /\ phase' = "down"
  /\ faulted' = faulted \cup {next}
  /\ UNCHANGED <<devices, rows, processed, inbox, next, known, req, added, erased, staleFor>>

SpendStop ==
  /\ stops < MaxStops
  /\ stops' = stops + 1
  /\ faults' = faults

Kill ==
  /\ SpendStop
  /\ phase # "down"
  /\ phase' = "down"
  /\ UNCHANGED <<tables, inbox, next, known, req, history>>

\* A new process: an empty cache, and a new clean session.  paho acknowledged
\* what it had queued, so the broker does not send it again.
Restart ==
  /\ phase = "down"
  /\ phase' = "idle"
  /\ next' = Len(inbox) + 1
  /\ known' = [known EXCEPT !["worker"] = [d \in Device |-> 0]]
  /\ UNCHANGED <<tables, inbox, req, budget, history>>

\* MqttError out of the message loop: the same process, with the same cache,
\* makes a new client and drops the old client's queue.
Disconnect ==
  /\ SpendStop
  /\ phase = "idle"
  /\ next' = Len(inbox) + 1
  /\ UNCHANGED <<tables, inbox, phase, known, req, history>>

\* The clock: every entry of both caches is a tick closer to its end.
Tick ==
  /\ \E p \in Process, d \in Device : Cached(p, d)
  /\ known' = [p \in Process |-> [d \in Device |-> IF Cached(p, d) THEN known[p][d] - 1 ELSE 0]]
  /\ staleFor' = [d \in Device |->
       IF Cached("worker", d) /\ d \notin devices THEN staleFor[d] + 1 ELSE 0]
  /\ UNCHANGED <<tables, worker, req, budget, faulted, added, erased>>

\* A full TTLCache throws entries out before their time.
Evict(p, d) ==
  /\ Cached(p, d)
  /\ known' = Forget(p, d)
  /\ UNCHANGED <<tables, worker, req, budget, history>>

-----------------------------------------------------------------------------
(* The REST handlers of api/devices.py, one SQL statement at a time.       *)

MoveTo(r, stage) == req' = [req EXCEPT ![r].at = stage]
Answer(r, code) == req' = [req EXCEPT ![r].at = "done", ![r].status = code]
At(r, op, stage) == req[r].op = op /\ req[r].at = stage

\* create_device: `if await repo.get(...)`.
CreateCheck(r) ==
  /\ At(r, "create", "new")
  /\ \/ req[r].device \in devices /\ Answer(r, 409)
     \/ req[r].device \notin devices /\ MoveTo(r, "insert")
  /\ UNCHANGED <<tables, worker, known, budget, history>>

\* repo.create: INSERT and commit.  An IntegrityError is nobody's to catch: 500.
CreateInsert(r) ==
  /\ At(r, "create", "insert")
  /\ \/ /\ KeyTaken(req[r].device)
        /\ Answer(r, 500)
        /\ UNCHANGED <<devices, added>>
     \/ /\ ~KeyTaken(req[r].device)
        /\ devices' = devices \cup {req[r].device}
        /\ added' = added \cup {req[r].device}
        /\ MoveTo(r, "refresh")
  /\ UNCHANGED <<rows, processed, deadLetter, worker, known, budget, faulted, erased, staleFor>>

\* repo.create: refresh re-reads the row, and raises when it is already gone.
CreateRefresh(r) ==
  /\ At(r, "create", "refresh")
  /\ \/ /\ req[r].device \in devices
        /\ known' = Remember("api", req[r].device)
        /\ Answer(r, 201)
     \/ /\ req[r].device \notin devices
        /\ known' = known
        /\ Answer(r, 500)
  /\ UNCHANGED <<tables, worker, budget, history>>

\* delete_device: `if not await repo.get(...)`.
DeleteCheck(r) ==
  /\ At(r, "delete", "new")
  /\ \/ req[r].device \notin devices /\ Answer(r, 404)
     \/ req[r].device \in devices /\ MoveTo(r, "reget")
  /\ UNCHANGED <<tables, worker, known, budget, history>>

\* repo.delete reads the row again, and does nothing when it is gone.
DeleteAgain(r) ==
  /\ At(r, "delete", "reget")
  /\ \/ req[r].device \notin devices /\ Answer(r, 204)
     \/ req[r].device \in devices /\ MoveTo(r, "erase")
  /\ UNCHANGED <<tables, worker, known, budget, history>>

\* repo.delete: DELETE (of no row, if another request was first: a warning),
\* commit, and forget the entry of this process's cache.
DeleteErase(r) ==
  /\ At(r, "delete", "erase")
  /\ devices' = devices \ {req[r].device}
  /\ rows' = RowsAfterDelete(req[r].device)
  /\ known' = Forget("api", req[r].device)
  /\ erased' = erased \cup {req[r].device}
  /\ Answer(r, 204)
  /\ UNCHANGED <<processed, deadLetter, worker, budget, faulted, added, staleFor>>

\* A statement of the handler raises, its effect made or not: 500.
RequestFault(r) ==
  /\ SpendFault
  /\ req[r].at # "done"
  /\ Answer(r, 500)
  /\ \/ UNCHANGED <<devices, rows, added, erased>>
     \/ /\ At(r, "create", "insert") /\ ~KeyTaken(req[r].device)
        /\ devices' = devices \cup {req[r].device}
        /\ added' = added \cup {req[r].device}
        /\ UNCHANGED <<rows, erased>>
     \/ /\ At(r, "delete", "erase")
        /\ devices' = devices \ {req[r].device}
        /\ rows' = RowsAfterDelete(req[r].device)
        /\ erased' = erased \cup {req[r].device}
        /\ added' = added
  /\ UNCHANGED <<processed, deadLetter, worker, known, faulted, staleFor>>

-----------------------------------------------------------------------------
WorkerStep == Take \/ Lookup \/ Register \/ Store \/ Ack \/ DeadLetter

RequestStep(r) ==
  \/ CreateCheck(r) \/ CreateInsert(r) \/ CreateRefresh(r)
  \/ DeleteCheck(r) \/ DeleteAgain(r) \/ DeleteErase(r)

Failure ==
  \/ Fault \/ LostCommit \/ FaultInDeadLetter \/ Kill \/ Disconnect
  \/ \E r \in Request : RequestFault(r)

Next ==
  \/ Deliver
  \/ WorkerStep
  \/ Restart
  \/ Tick
  \/ \E p \in Process, d \in Device : Evict(p, d)
  \/ \E r \in Request : RequestStep(r)
  \/ Failure

\* The event loop runs a ready task, and compose restarts a container that exits.
Fairness == WF_vars(WorkerStep) /\ WF_vars(Restart)

Spec == Init /\ [][Next]_vars /\ Fairness

-----------------------------------------------------------------------------
(* Properties.                                                             *)

\* The audit table does not lie: a message marked processed was one the handler
\* accepts, and its rows are in the database unless its device was deleted.
AuditTruthful ==
  \A i \in 1..Len(inbox) : processed[i] > 0 =>
    /\ inbox[i].body \in {"readings", "empty"}
    /\ inbox[i].body = "readings" /\ inbox[i].device \notin erased => i \in rows

\* A message marked unprocessed left no rows, so that it can be replayed, unless
\* a statement after its rows' commit failed.
DeadLetterHonest ==
  \A i \in 1..Len(inbox) : deadLetter[i] > 0 /\ i \notin faulted => i \notin rows

\* A well-formed message of a device the API left alone is dead-lettered only if
\* the database failed while that very message was handled.
UndisturbedDelivered ==
  \A i \in 1..Len(inbox) :
    /\ ~Rejected(inbox[i])
    /\ inbox[i].body # "malformed"
    /\ inbox[i].device \notin added \cup erased
    /\ i \notin faulted
    => deadLetter[i] = 0

\* Of the requests that register one device only one is told it did, unless
\* the device was deleted between them.
OneCreator ==
  \A r, s \in Request :
    /\ r # s /\ req[r].op = "create" /\ req[s].op = "create"
    /\ req[r].status = 201 /\ req[s].status = 201
    /\ req[r].device = req[s].device
    => req[r].device \in erased

\* After a device is deleted the worker can believe in it for one lifetime of a
\* cache entry and no longer, however many of its messages keep coming.
StaleWindowBounded == \A d \in Device : staleFor[d] <= TTL

PassedWithAuditRow ==
  phase \in Handling /\ next' # next =>
    LET audit == processed'[next] + deadLetter'[next]
    IN next' = next + 1 /\ (audit = 1 \/ (audit = 2 /\ next \in faulted))

\* The loop never passes a message without its audit row, and writes exactly
\* one unless the database failed under it.
HandledOnce == [][PassedWithAuditRow]_vars

\* What the tables show of all this: messages are judged in order, rows come before the
\* verdict and with their device, whatever the API, failures and restarts do.
Stored == {[message |-> i, device |-> inbox[i].device] : i \in rows}
Verdict == [i \in Id |-> {v \in {"processed", "unprocessed"} :
                           IF v = "processed" THEN processed[i] > 0 ELSE deadLetter[i] > 0}]

Ledger == INSTANCE IngestLedger WITH stored <- Stored, verdict <- Verdict, frontier <- next
KeepsIngestLedger == Ledger!Spec

\* No message stops the loop: every message delivered is handled or lost.
Drains == \A i \in Id : Len(inbox) >= i ~> next > i

\* device_repository.py:12 "Registrations/deletes invalidate their own entry
\* immediately": after a delete was answered nobody holds the device as known.
DeleteInvalidates ==
  \A r \in Request :
    req[r].op = "delete" /\ req[r].status = 204 /\ req[r].device \notin devices
    => \A p \in Process : ~Cached(p, req[r].device)

\* mqtt_worker.py:161 "route any failure to the DLQ row instead of crashing the
\* worker": with nobody to kill it, the worker never goes down.
NeverCrashes == phase # "down"

=============================================================================
