---------------------------- MODULE AlarmWorker ----------------------------
(***************************************************************************)
(* The alarm evaluation worker, one awaited statement at a time, over the  *)
(* tables the REST API changes under it, with the broker its notifications *)
(* go to.                                                                  *)
(*                                                                         *)
(* Telemetry is abstracted to `violating`: the pairs for which the latest  *)
(* row, read now, makes the rule's evaluate_* function trigger.            *)
(***************************************************************************)
EXTENDS Naturals

CONSTANTS
  Device, Group, Rule,
  None,          \* SQL NULL
  SilenceRule,   \* rules that trigger when there is no row at all
  MaxOps,        \* bound: changes by the API, the devices and the broker
  MaxFaults,     \* bound: SQL statements of the worker that fail
  MaxKills       \* bound: times the worker's container is killed

ASSUME NoneAssumption == None \notin Device \cup Group \cup Rule
ASSUME SilenceAssumption == SilenceRule \subseteq Rule
ASSUME BoundsAssumption == MaxOps \in Nat /\ MaxFaults \in Nat /\ MaxKills \in Nat

Profile == [active : BOOLEAN, group : Group \cup {None}]
Config  == [enabled : BOOLEAN, pin : Device \cup {None}, group : Group \cup {None}]
Job     == [rule : Rule, pin : Device \cup {None}, group : Group \cup {None}]
Alarm   == [id : Nat, device : Device, rule : Rule \cup {None}, active : BOOLEAN]

NewProfile == [active |-> TRUE, group |-> None]
NewConfig  == [enabled |-> TRUE, pin |-> None, group |-> None]
NoJob      == [rule |-> None, pin |-> None, group |-> None]
NoAlarm    == [id |-> 0, device |-> None, rule |-> None, active |-> FALSE]

InRule == {"target", "device", "lookup", "create", "refresh", "dispatch", "reread", "resolve"}
Phase  == InRule \cup {"connect", "list", "rule", "down"}

VARIABLES
  devices, profile,      \* `devices`: the rows, and their is_active / device_group
  rules, config, used,   \* `alarm_rules`: the rows, their columns, ids ever given out
  alarms, lastId,        \* `alarms`, and its BIGSERIAL
  violating,             \* <<rule, device>>: what evaluating the latest row gives
  phase,                 \* where the worker stands
  todo, job,             \* rules of this cycle still to do; the one in hand
  targets, dev,          \* devices of the rule still to do; the one in hand
  triggered, found,      \* the evaluation's result; the alarm a lookup returned
  client,                \* the worker's MQTT client
  broker,                \* is the broker up
  published,             \* ids of the alarms that reached the broker
  quiet,                 \* history: in a cycle, and since it listed the rules nobody
                         \* changed anything and no statement failed
  ops, faults, kills

tables == <<devices, profile, rules, config, used, alarms, lastId, violating>>
ruleTables == <<rules, config, used>>
deviceTables == <<devices, profile>>
position == <<todo, job, targets, dev, triggered, found>>
mqtt   == <<client, broker, published>>
budget == <<ops, faults, kills, quiet>>
vars   == <<tables, phase, position, mqtt, budget>>

TypeOK ==
  /\ devices \subseteq Device
  /\ profile \in [Device -> Profile]
  /\ rules \subseteq used
  /\ used \subseteq Rule
  /\ config \in [Rule -> Config]
  /\ alarms \subseteq Alarm
  /\ lastId \in Nat
  /\ violating \subseteq Rule \X Device
  /\ phase \in Phase
  /\ todo \subseteq Job
  /\ job \in Job \cup {NoJob}
  /\ phase \in InRule => job \in Job
  /\ targets \subseteq Device
  /\ dev \in Device \cup {None}
  /\ phase \in InRule \ {"target", "device"} => dev \in Device
  /\ triggered \in BOOLEAN
  /\ found \in Alarm \cup {NoAlarm}
  /\ client \in {"none", "live", "dead"}
  /\ broker \in BOOLEAN
  /\ published \subseteq Nat
  /\ quiet \in BOOLEAN
  /\ ops \in 0..MaxOps
  /\ faults \in 0..MaxFaults
  /\ kills \in 0..MaxKills

Init ==
  /\ devices \in SUBSET Device
  /\ profile = [d \in Device |-> NewProfile]
  /\ rules \in SUBSET Rule
  /\ used = rules
  /\ config \in [Rule -> Config]
  /\ \A r \in rules : config[r].enabled /\ config[r].pin \in devices \cup {None}
  /\ \A r \in Rule \ rules : config[r] = NewConfig
  /\ alarms = {}
  /\ lastId = 0
  /\ violating = SilenceRule \X Device
  /\ phase = "connect"
  /\ todo = {}
  /\ job = NoJob
  /\ targets = {}
  /\ dev = None
  /\ triggered = FALSE
  /\ found = NoAlarm
  /\ client = "none"
  /\ broker = TRUE
  /\ published = {}
  /\ quiet = FALSE
  /\ ops = 0
  /\ faults = 0
  /\ kills = 0

-----------------------------------------------------------------------------
(* Queries and the schema's part.                                          *)

ActiveOfDevice(d, r) == {a \in alarms : a.active /\ a.device = d}
ActiveFor(d, r) == {a \in alarms : a.active /\ a.device = d /\ a.rule = r}

\* scalar_one_or_none: nothing, the row, or MultipleResultsFound.
Ambiguous(result) == \E a, b \in result : a # b
OneOrNone(result) == IF result = {} THEN NoAlarm ELSE CHOOSE a \in result : TRUE

\* ON DELETE SET NULL on alarms.rule_id.
RulesKept(gone, rows) == rows
RulesForgotten(gone, rows) ==
  {[a EXCEPT !.rule = IF a.rule \in gone THEN None ELSE a.rule] : a \in rows}

-----------------------------------------------------------------------------
(* The rest of the platform, each request at the statement that commits.   *)

SpendOp == ops < MaxOps /\ ops' = ops + 1 /\ quiet' = FALSE /\ UNCHANGED <<faults, kills>>

CreateRule(r) ==
  /\ SpendOp
  /\ r \in Rule \ used
  /\ rules' = rules \cup {r}
  /\ used' = used \cup {r}
  /\ \E c \in Config : c.pin \in devices \cup {None} /\ config' = [config EXCEPT ![r] = c]
  /\ UNCHANGED <<deviceTables, alarms, lastId, violating, phase, position, mqtt>>

\* PATCH sets any of the columns; a device_id no row has is refused by the key.
UpdateRule(r) ==
  /\ SpendOp
  /\ r \in rules
  /\ \E c \in Config : c.pin \in devices \cup {None} /\ config' = [config EXCEPT ![r] = c]
  /\ UNCHANGED <<deviceTables, rules, used, alarms, lastId, violating, phase, position, mqtt>>

DeleteRule(r) ==
  /\ SpendOp
  /\ r \in rules
  /\ rules' = rules \ {r}
  /\ config' = [config EXCEPT ![r] = NewConfig]
  /\ alarms' = RulesForgotten({r}, alarms)
  /\ UNCHANGED <<deviceTables, used, lastId, violating, phase, position, mqtt>>

\* repo.resolve: UPDATE by id, whatever state the row is in (on a closed one the
\* request only moves resolved_at).
Closed(id, rows) == {[a EXCEPT !.active = a.active /\ a.id # id] : a \in rows}

ResolveAlarm(id) ==
  /\ SpendOp
  /\ \E a \in alarms : a.id = id /\ a.active
  /\ alarms' = Closed(id, alarms)
  /\ UNCHANGED <<deviceTables, ruleTables, lastId, violating, phase, position, mqtt>>

\* By the API, or (in no group) by the ingestion worker on a first message.
CreateDevice(d) ==
  /\ SpendOp
  /\ d \notin devices
  /\ devices' = devices \cup {d}
  /\ \E g \in Group \cup {None} :
       profile' = [profile EXCEPT ![d] = [NewProfile EXCEPT !.group = g]]
  /\ UNCHANGED <<ruleTables, alarms, lastId, violating, phase, position, mqtt>>

UpdateDevice(d) ==
  /\ SpendOp
  /\ d \in devices
  /\ \E p \in Profile : profile' = [profile EXCEPT ![d] = p]
  /\ UNCHANGED <<devices, ruleTables, alarms, lastId, violating, phase, position, mqtt>>

\* ON DELETE CASCADE: its alarms, its rows, and the rules pinned to it (whose
\* alarms on other devices, left from an earlier pin, lose their rule).
DeleteDevice(d) ==
  LET pinned == {r \in rules : config[r].pin = d}
  IN  /\ SpendOp
      /\ d \in devices
      /\ devices' = devices \ {d}
      /\ profile' = [profile EXCEPT ![d] = NewProfile]
      /\ rules' = rules \ pinned
      /\ config' = [r \in Rule |-> IF r \in pinned THEN NewConfig ELSE config[r]]
      /\ alarms' = RulesForgotten(pinned, {a \in alarms : a.device # d})
      /\ violating' = {v \in violating : v[2] # d} \cup SilenceRule \X {d}
      /\ UNCHANGED <<used, lastId, phase, position, mqtt>>

\* Telemetry arrives, time passes, or a rule's threshold is changed.
ConditionChange(r, d) ==
  /\ SpendOp
  /\ d \in devices
  /\ violating' = IF <<r, d>> \in violating THEN violating \ {<<r, d>>}
                                            ELSE violating \cup {<<r, d>>}
  /\ UNCHANGED <<deviceTables, ruleTables, alarms, lastId, phase, position, mqtt>>

\* aiomqtt does not reconnect a client whose connection is gone.
BrokerDown ==
  /\ SpendOp
  /\ broker
  /\ broker' = FALSE
  /\ client' = IF client = "live" THEN "dead" ELSE client
  /\ UNCHANGED <<tables, phase, position, published>>

BrokerUp ==
  /\ SpendOp
  /\ ~broker
  /\ broker' = TRUE
  /\ UNCHANGED <<tables, phase, position, client, published>>

-----------------------------------------------------------------------------
(* The worker.                                                             *)

\* `async with aiomqtt.Client(...)`; with no broker, the null client's cycle.
OnlyWithBroker == IF broker THEN "list" ELSE "connect"
AfterConnect == "list"

Connect ==
  /\ phase = "connect"
  /\ client' = IF broker THEN "live" ELSE "none"
  /\ phase' = AfterConnect
  /\ UNCHANGED <<tables, position, broker, published, budget>>

\* rule_repo.list(enabled_only=True): what the cycle knows of the rules.
JobOf(r) == [rule |-> r, pin |-> config[r].pin, group |-> config[r].group]

ListRules ==
  /\ phase = "list"
  /\ todo' = {JobOf(r) : r \in {q \in rules : config[q].enabled}}
  /\ phase' = "rule"
  /\ quiet' = TRUE
  /\ UNCHANGED <<tables, job, targets, dev, triggered, found, mqtt, ops, faults, kills>>

TakeRule ==
  /\ phase = "rule"
  /\ \E j \in todo : job' = j /\ todo' = todo \ {j}
  /\ phase' = "target"
  /\ UNCHANGED <<tables, targets, dev, triggered, found, mqtt, budget>>

\* The end of a cycle and its sleep.  Nothing in a cycle raises MqttError, so
\* only the null client's cycle goes back to make a client.
EndCycle ==
  /\ phase = "rule"
  /\ todo = {}
  /\ phase' = IF client = "none" THEN "connect" ELSE "list"
  /\ quiet' = FALSE
  /\ UNCHANGED <<tables, position, mqtt, ops, faults, kills>>

PinUnchecked(j) == {j.pin}

\* target_devices: specific device > group > all; only the last two look at
\* is_active, or at whether the device is there.
TargetDevices(j) ==
  IF j.pin # None THEN {j.pin}
  ELSE {d \in devices : profile[d].active /\ (j.group = None \/ profile[d].group = j.group)}

Target ==
  /\ phase = "target"
  /\ targets' = TargetDevices(job)
  /\ phase' = "device"
  /\ UNCHANGED <<tables, todo, job, dev, triggered, found, mqtt, budget>>

Leave(next) ==
  /\ phase' = next
  /\ dev' = None
  /\ triggered' = FALSE
  /\ found' = NoAlarm

\* _evaluate_for_device on the next device.
Evaluate ==
  /\ phase = "device"
  /\ \E d \in targets :
       /\ dev' = d
       /\ targets' = targets \ {d}
       /\ triggered' = (<<job.rule, d>> \in violating)
  /\ phase' = "lookup"
  /\ UNCHANGED <<tables, todo, job, found, mqtt, budget>>

\* The end of evaluate_rule.
RuleDone ==
  /\ Leave("rule")
  /\ job' = NoJob
  /\ targets' = {}

EndRule ==
  /\ phase = "device"
  /\ targets = {}
  /\ RuleDone
  /\ UNCHANGED <<tables, todo, mqtt, budget>>

\* An exception out of evaluate_rule: logged, and the next rule's turn.
CycleAborted == {}
RulesLeft == todo
AbortRule == RuleDone /\ todo' = RulesLeft

\* get_active_for_rule(device_id, rule.id), and the branch on what it returned.
AlwaysFires(existing) == triggered
Fires(existing) == triggered /\ existing = NoAlarm

Lookup ==
  LET existing == OneOrNone(ActiveFor(dev, job.rule))
  IN  /\ phase = "lookup"
      /\ ~Ambiguous(ActiveFor(dev, job.rule))
      /\ \/ /\ Fires(existing)
            /\ phase' = "create"
            /\ UNCHANGED <<dev, triggered, found>>
         \/ /\ triggered /\ ~Fires(existing)
            /\ Leave("device")
         \/ /\ ~triggered
            /\ phase' = "reread"
            /\ UNCHANGED <<dev, triggered, found>>
      /\ UNCHANGED <<tables, todo, job, targets, mqtt, budget>>

\* alarm_repo.create: INSERT and commit, if both foreign keys are met.
Insertable == dev \in devices /\ job.rule \in rules
ReopenedAlarm == [id |-> IF lastId = 0 THEN 1 ELSE lastId,
                  device |-> dev, rule |-> job.rule, active |-> TRUE]
NewAlarm == [id |-> lastId + 1, device |-> dev, rule |-> job.rule, active |-> TRUE]

InsertAlarm ==
  /\ Insertable
  /\ alarms' = alarms \cup {NewAlarm}
  /\ lastId' = lastId + 1

Create ==
  /\ phase = "create"
  /\ InsertAlarm
  /\ found' = NewAlarm
  /\ phase' = "refresh"
  /\ UNCHANGED <<deviceTables, ruleTables, violating, todo, job, targets, dev, triggered,
                 mqtt, budget>>

\* A key that refuses the INSERT, or a lookup that finds two alarms.
Raises ==
  \/ phase = "create" /\ ~Insertable
  \/ phase \in {"lookup", "reread"} /\ Ambiguous(ActiveFor(dev, job.rule))

EvaluationRaises ==
  /\ Raises
  /\ AbortRule
  /\ UNCHANGED <<tables, mqtt, budget>>

\* alarm_repo.create: refresh re-reads the row by id, and raises when it is gone.
Refresh ==
  /\ phase = "refresh"
  /\ \/ /\ \E a \in alarms : a.id = found.id
        /\ phase' = "dispatch"
        /\ UNCHANGED position
     \/ /\ \A a \in alarms : a.id # found.id
        /\ AbortRule
  /\ UNCHANGED <<tables, mqtt, budget>>

\* dispatch_notifications: a failed publish is logged and forgotten.
Dispatch ==
  /\ phase = "dispatch"
  /\ published' = IF client = "live" THEN published \cup {found.id} ELSE published
  /\ Leave("device")
  /\ UNCHANGED <<tables, todo, job, targets, client, broker, budget>>

\* auto_resolve_for_rule: the same lookup once more...
Reread ==
  LET active == ActiveFor(dev, job.rule)
  IN  /\ phase = "reread"
      /\ ~Ambiguous(active)
      /\ \/ /\ active = {}
            /\ Leave("device")
         \/ /\ active # {}
            /\ found' = OneOrNone(active)
            /\ phase' = "resolve"
            /\ UNCHANGED <<dev, triggered>>
      /\ UNCHANGED <<tables, todo, job, targets, mqtt, budget>>

\* ... and the UPDATE by id.
NeverCommitted == alarms
CloseFound == Closed(found.id, alarms)

Resolve ==
  /\ phase = "resolve"
  /\ alarms' = CloseFound
  /\ Leave("device")
  /\ UNCHANGED <<deviceTables, ruleTables, lastId, violating, todo, job, targets, mqtt, budget>>

-----------------------------------------------------------------------------
(* Failures.                                                               *)

SpendFault == faults < MaxFaults /\ faults' = faults + 1 /\ quiet' = FALSE /\ UNCHANGED <<ops, kills>>

\* A statement inside evaluate_rule raises, its transaction rolled back.
Fault ==
  /\ SpendFault
  /\ phase \in InRule \ {"device", "dispatch"} \/ (phase = "device" /\ targets # {})
  /\ AbortRule
  /\ UNCHANGED <<tables, mqtt>>

\* The same, when the server committed and the connection died before it said so.
LostCommit ==
  /\ SpendFault
  /\ \/ /\ phase = "create"
        /\ InsertAlarm
     \/ /\ phase = "resolve"
        /\ alarms' = CloseFound
        /\ lastId' = lastId
  /\ AbortRule
  /\ UNCHANGED <<deviceTables, ruleTables, violating, mqtt>>

\* The process ends: position and client are gone with it.
GoDown ==
  /\ phase' = "down"
  /\ todo' = {}
  /\ job' = NoJob
  /\ targets' = {}
  /\ dev' = None
  /\ triggered' = FALSE
  /\ found' = NoAlarm
  /\ client' = "none"
  /\ UNCHANGED <<tables, broker, published>>

\* Nothing catches a failed rule_repo.list.
FaultInList == SpendFault /\ phase = "list" /\ GoDown

Kill ==
  /\ kills < MaxKills
  /\ kills' = kills + 1
  /\ phase # "down"
  /\ quiet' = FALSE
  /\ GoDown
  /\ UNCHANGED <<ops, faults>>

Restart ==
  /\ phase = "down"
  /\ phase' = "connect"
  /\ UNCHANGED <<tables, position, mqtt, budget>>

-----------------------------------------------------------------------------
Environment ==
  \/ \E r \in Rule : CreateRule(r) \/ UpdateRule(r) \/ DeleteRule(r)
  \/ \E d \in Device : CreateDevice(d) \/ UpdateDevice(d) \/ DeleteDevice(d)
  \/ \E r \in Rule, d \in Device : ConditionChange(r, d)
  \/ \E id \in 1..lastId : ResolveAlarm(id)
  \/ BrokerDown \/ BrokerUp

WorkerStep ==
  \/ Connect \/ ListRules \/ TakeRule \/ EndCycle
  \/ Target \/ Evaluate \/ EndRule
  \/ Lookup \/ Create \/ EvaluationRaises \/ Refresh \/ Dispatch
  \/ Reread \/ Resolve

Failure == Fault \/ LostCommit \/ FaultInList \/ Kill

Next == Environment \/ WorkerStep \/ Failure \/ Restart

\* The event loop runs a ready task, and compose restarts a container that exits.
Fairness == WF_vars(WorkerStep) /\ WF_vars(Restart)

Spec == Init /\ [][Next]_vars /\ Fairness

-----------------------------------------------------------------------------
(* Properties.                                                             *)

\* The worker and everybody else who writes `alarms` keep to the ledger: nothing
\* opens a second alarm of a pair, reopens one, or reuses an id.
Ledger == INSTANCE AlarmLedger WITH alarms <- alarms, lastId <- lastId
KeepsAlarmLedger == Ledger!Spec

\* alarm_repository.py:60: one active alarm per (device, rule), whatever the
\* operators, faults and restarts between the lookup and the INSERT.
OneActivePerRule ==
  \A a, b \in alarms :
    a.active /\ b.active /\ a.rule # None /\ a.rule = b.rule /\ a.device = b.device => a = b

\* The alarm the worker is about to close is, if it is still there, of the pair
\* it evaluated, and that evaluation did not trigger.
ResolveIsOwn ==
  phase = "resolve" =>
    /\ ~triggered
    /\ \A a \in alarms : a.id = found.id => a.device = dev /\ a.rule \in {job.rule, None}

\* alarm_repository.py:60 "prevents duplicate alarm spam": the broker hears only of
\* alarms that were committed, of each once and in their order, restarts included.
AnnouncedOnce ==
  /\ \A id \in published : id <= lastId
  /\ phase \in {"refresh", "dispatch"} =>
       found.id <= lastId /\ \A id \in published : id < found.id

\* Deletes in flight leave no alarm without its device, and none with a rule that
\* is gone.
NoDanglingAlarm ==
  \A a \in alarms : a.device \in devices /\ a.rule \in rules \cup {None}

\* alarm_worker.py:134 "one bad rule must not stop the others": a listed rule
\* leaves the cycle only to be evaluated, or with the process.
NoRuleSkipped == [][\A j \in todo \ todo' : job' = j \/ phase' = "down"]_vars

\* A pair an enabled rule covers, and an open alarm of it exactly when its condition
\* holds.
Covered(r, d) == r \in rules /\ config[r].enabled /\ d \in TargetDevices(JobOf(r))
Exact(r, d) == ActiveFor(d, r) # {} <=> <<r, d>> \in violating

\* "evaluating each rule against the latest telemetry/status for its target devices"
\* (alarm_worker.py:5): a cycle that nothing disturbs leaves each rule it is through with
\* exact on all of them, whatever the tables held before.
CycleIsExact ==
  quiet /\ phase = "rule" =>
    \A r \in Rule, d \in Device :
      Covered(r, d) /\ (\A j \in todo : j.rule # r) => Exact(r, d)

\* Once the platform is left alone, every covered pair becomes and stays exact.
Converges ==
  \A r \in Rule, d \in Device : <>[](Covered(r, d) => Exact(r, d))

\* alarm_worker.py:8 "the condition clearing auto-resolves the open alarm".
ClearingAutoResolves ==
  \A r \in Rule, d \in Device :
    <>[](<<r, d>> \notin violating) => <>[](ActiveFor(d, r) = {})

\* .env.example:41 "MQTT (alarms/{device_id}) always works with no extra config as
\* long as the broker is reachable": a broker that stays up gets the alarms.
ReachableMeansLive == <>[]broker => []<>(client = "live")

=============================================================================
