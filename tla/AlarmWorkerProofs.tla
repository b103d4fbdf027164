------------------------- MODULE AlarmWorkerProofs -------------------------
(***************************************************************************)
(* Proofs about AlarmWorker, for every set of devices, groups and rules    *)
(* and every bound.                                                        *)
(***************************************************************************)
EXTENDS AlarmWorker, TLAPS

-----------------------------------------------------------------------------
(* The operators on the alarms table.                                      *)

\* NoAlarm is no row, so a lookup tells a row from its absence.
LEMMA NoAlarmIsNone == NoAlarm \notin Alarm
  BY NoneAssumption DEF NoAlarm, Alarm

\* Closing by id keeps every row, opens none, and leaves other ids alone.
LEMMA ClosedRows ==
  ASSUME NEW rows \in SUBSET Alarm, NEW id
  PROVE  /\ Closed(id, rows) \subseteq Alarm
         /\ \A b \in Closed(id, rows) : \E a \in rows :
              /\ b.id = a.id /\ b.device = a.device /\ b.rule = a.rule
              /\ b.active = (a.active /\ a.id # id)
              /\ ~a.active \/ a.id # id => b = a
  <1> DEFINE Shut(a) == [a EXCEPT !.active = a.active /\ a.id # id]
  <1>1. ASSUME NEW a \in rows
        PROVE  /\ Shut(a) \in Alarm
               /\ Shut(a).id = a.id /\ Shut(a).device = a.device /\ Shut(a).rule = a.rule
               /\ Shut(a).active = (a.active /\ a.id # id)
               /\ ~a.active \/ a.id # id => Shut(a) = a
    <2>1. a \in Alarm  OBVIOUS
    <2>2. (a.active /\ a.id # id) \in BOOLEAN  OBVIOUS
    <2>3. Shut(a) \in Alarm  BY <2>1, <2>2 DEF Alarm
    <2>4. ~a.active \/ a.id # id => Shut(a) = a
      <3>1. a.active \in BOOLEAN  BY <2>1 DEF Alarm
      <3>2. ~a.active \/ a.id # id => (a.active /\ a.id # id) = a.active  BY <3>1
      <3> QED BY <2>1, <3>2 DEF Alarm
    <2> QED BY <2>1, <2>3, <2>4 DEF Alarm
  <1>2. Closed(id, rows) = {Shut(a) : a \in rows}  BY DEF Closed
  <1> HIDE DEF Shut
  <1> QED BY <1>1, <1>2

\* SET NULL keeps every row but for its rule.
LEMMA ForgottenRows ==
  ASSUME NEW rows \in SUBSET Alarm, NEW gone \in SUBSET Rule
  PROVE  /\ RulesForgotten(gone, rows) \subseteq Alarm
         /\ \A b \in RulesForgotten(gone, rows) : \E a \in rows :
              /\ b.id = a.id /\ b.device = a.device /\ b.active = a.active
              /\ b.rule = IF a.rule \in gone THEN None ELSE a.rule
  <1> SUFFICES ASSUME NEW a \in rows
               PROVE  LET b == [a EXCEPT !.rule = IF a.rule \in gone THEN None ELSE a.rule]
                      IN  /\ b \in Alarm
                          /\ b.id = a.id /\ b.device = a.device /\ b.active = a.active
                          /\ b.rule = IF a.rule \in gone THEN None ELSE a.rule
    BY DEF RulesForgotten
  <1>1. a \in Alarm  OBVIOUS
  <1> QED BY <1>1 DEF Alarm

\* The lookup's answer is a row it selected, or NoAlarm when it selected none.
LEMMA OneOrNoneRow ==
  ASSUME NEW rows \in SUBSET Alarm
  PROVE  /\ rows # {} => OneOrNone(rows) \in rows
         /\ OneOrNone(rows) = NoAlarm <=> rows = {}
         /\ OneOrNone(rows) \in Alarm \cup {NoAlarm}
  BY NoAlarmIsNone DEF OneOrNone

-----------------------------------------------------------------------------
(* Type correctness.                                                       *)

LEMMA InitType == Init => TypeOK
  <1> SUFFICES ASSUME Init PROVE TypeOK  OBVIOUS
  <1>1. config \in [Rule -> Config]  BY DEF Init
  <1>2. profile \in [Device -> Profile]  BY DEF Init, Profile, NewProfile
  <1>3. devices \subseteq Device /\ rules \subseteq used /\ used \subseteq Rule  BY DEF Init
  <1>4. alarms \subseteq Alarm /\ lastId \in Nat /\ published \subseteq Nat  BY DEF Init
  <1>5. violating \subseteq Rule \X Device  BY SilenceAssumption DEF Init
  <1>6. phase = "connect" /\ phase \in Phase \ InRule  BY DEF Init, Phase, InRule
  <1>7. todo \subseteq Job /\ targets \subseteq Device  BY DEF Init
  <1>8. /\ ops \in 0..MaxOps /\ faults \in 0..MaxFaults /\ kills \in 0..MaxKills
    BY BoundsAssumption DEF Init
  <1>9. /\ job = NoJob /\ dev = None /\ triggered = FALSE /\ found = NoAlarm
        /\ client = "none" /\ broker = TRUE /\ quiet = FALSE
    BY DEF Init
  <1> QED BY <1>1, <1>2, <1>3, <1>4, <1>5, <1>6, <1>7, <1>8, <1>9 DEF TypeOK, InRule

LEMMA EnvironmentType == TypeOK /\ Environment => TypeOK'
  <1> SUFFICES ASSUME TypeOK, Environment PROVE TypeOK'  OBVIOUS
  <1> USE DEF position, mqtt
  <1>0. SpendOp => /\ ops' \in 0..MaxOps /\ faults' = faults /\ kills' = kills
                   /\ quiet' \in BOOLEAN
    <2>1. SpendOp => quiet' \in BOOLEAN  BY DEF SpendOp
    <2> QED BY <2>1, BoundsAssumption DEF SpendOp, TypeOK
  <1>1. ASSUME NEW r \in Rule, CreateRule(r) \/ UpdateRule(r) PROVE TypeOK'
    <2>1. config' \in [Rule -> Config]  BY <1>1 DEF CreateRule, UpdateRule, TypeOK
    <2>2. rules' \subseteq used' /\ used' \subseteq Rule
      BY <1>1 DEF CreateRule, UpdateRule, TypeOK
    <2>3. /\ SpendOp
          /\ UNCHANGED <<deviceTables, alarms, lastId, violating, phase, position, mqtt>>
      BY <1>1 DEF CreateRule, UpdateRule
    <2> QED BY <1>0, <2>1, <2>2, <2>3 DEF TypeOK, deviceTables
  <1>2. ASSUME NEW r \in Rule, DeleteRule(r) PROVE TypeOK'
    <2>1. NewConfig \in Config  BY DEF NewConfig, Config
    <2>2. alarms' \subseteq Alarm  BY <1>2, ForgottenRows DEF DeleteRule, TypeOK
    <2>3. config' \in [Rule -> Config]  BY <1>2, <2>1 DEF DeleteRule, TypeOK
    <2> QED BY <1>0, <1>2, <2>2, <2>3 DEF DeleteRule, TypeOK, deviceTables
  <1>3. ASSUME NEW d \in Device, CreateDevice(d) \/ UpdateDevice(d) PROVE TypeOK'
    <2>0. \A g \in Group \cup {None} : [NewProfile EXCEPT !.group = g] \in Profile
      BY DEF NewProfile, Profile
    <2>1. profile' \in [Device -> Profile] /\ devices' \subseteq Device
      BY <1>3, <2>0 DEF CreateDevice, UpdateDevice, TypeOK
    <2>2. SpendOp /\ UNCHANGED <<ruleTables, alarms, lastId, violating, phase, position, mqtt>>
      BY <1>3 DEF CreateDevice, UpdateDevice
    <2> QED BY <1>0, <2>1, <2>2 DEF TypeOK, ruleTables
  <1>4. ASSUME NEW d \in Device, DeleteDevice(d) PROVE TypeOK'
    <2>1. NewConfig \in Config /\ NewProfile \in Profile
      BY DEF NewConfig, Config, NewProfile, Profile
    <2>2. alarms' \subseteq Alarm
      <3>1. {a \in alarms : a.device # d} \in SUBSET Alarm  BY DEF TypeOK
      <3>2. {r \in rules : config[r].pin = d} \in SUBSET Rule  BY DEF TypeOK
      <3> QED BY <1>4, <3>1, <3>2, ForgottenRows DEF DeleteDevice
    <2>3. config' \in [Rule -> Config]  BY <1>4, <2>1 DEF DeleteDevice, TypeOK
    <2>4. violating' \subseteq Rule \X Device  BY <1>4, SilenceAssumption DEF DeleteDevice, TypeOK
    <2>5. profile' \in [Device -> Profile]  BY <1>4, <2>1 DEF DeleteDevice, TypeOK
    <2> QED BY <1>0, <1>4, <2>2, <2>3, <2>4, <2>5 DEF DeleteDevice, TypeOK
  <1>5. ASSUME NEW r \in Rule, NEW d \in Device, ConditionChange(r, d) PROVE TypeOK'
    BY <1>0, <1>5 DEF ConditionChange, TypeOK, deviceTables, ruleTables
  <1>6. ASSUME NEW id, ResolveAlarm(id) PROVE TypeOK'
    <2>1. alarms' \subseteq Alarm  BY <1>6, ClosedRows DEF ResolveAlarm, TypeOK
    <2> QED BY <1>0, <1>6, <2>1 DEF ResolveAlarm, TypeOK, deviceTables, ruleTables
  <1>7. CASE BrokerDown
    BY <1>0, <1>7 DEF BrokerDown, TypeOK, tables
  <1>8. CASE BrokerUp
    BY <1>0, <1>8 DEF BrokerUp, TypeOK, tables
  <1> QED BY <1>1, <1>2, <1>3, <1>4, <1>5, <1>6, <1>7, <1>8 DEF Environment

\* The ways a step leaves evaluate_rule or goes on to the next device.
LEMMA LeaveType ==
  ASSUME TypeOK, RuleDone \/ Leave("device")
  PROVE  /\ phase' \in Phase \ (InRule \ {"device"})
         /\ dev' \in Device \cup {None} /\ triggered' \in BOOLEAN /\ found' \in Alarm \cup {NoAlarm}
  BY DEF RuleDone, Leave, Phase, InRule

LEMMA AbortType ==
  ASSUME TypeOK, AbortRule
  PROVE  /\ phase' = "rule" /\ todo' = todo /\ job' = NoJob /\ targets' = {}
         /\ dev' = None /\ triggered' = FALSE /\ found' = NoAlarm
  BY DEF AbortRule, RulesLeft, RuleDone, Leave

LEMMA NewAlarmType ==
  ASSUME TypeOK, phase = "create"
  PROVE  NewAlarm \in Alarm
  BY DEF TypeOK, NewAlarm, Alarm, Job, InRule

LEMMA WorkerStepType == TypeOK /\ WorkerStep => TypeOK'
  <1> SUFFICES ASSUME TypeOK, WorkerStep PROVE TypeOK'  OBVIOUS
  <1> USE DEF Phase, InRule
  <1>1. CASE Connect
    BY <1>1 DEF Connect, AfterConnect, TypeOK, tables, position, budget
  <1>2. CASE ListRules
    <2>1. todo' \subseteq Job  BY <1>2 DEF ListRules, JobOf, TypeOK, Job, Config
    <2> QED BY <1>2, <2>1 DEF ListRules, TypeOK, tables, mqtt, budget
  <1>3. CASE TakeRule
    BY <1>3 DEF TakeRule, TypeOK, tables, mqtt, budget
  <1>4. CASE EndCycle
    BY <1>4 DEF EndCycle, TypeOK, tables, position, mqtt, budget
  <1>5. CASE Target
    <2>1. targets' \subseteq Device
      BY <1>5 DEF Target, TargetDevices, TypeOK, Job
    <2> QED BY <1>5, <2>1 DEF Target, TypeOK, tables, mqtt, budget
  <1>6. CASE Evaluate
    BY <1>6 DEF Evaluate, TypeOK, tables, mqtt, budget
  <1>7. CASE EndRule
    BY <1>7 DEF EndRule, RuleDone, Leave, TypeOK, tables, mqtt, budget
  <1>8. CASE Lookup
    BY <1>8 DEF Lookup, Leave, TypeOK, tables, mqtt, budget
  <1>9. CASE Create
    <2>1. NewAlarm \in Alarm  BY <1>9, NewAlarmType DEF Create
    <2> QED BY <1>9, <2>1 DEF Create, InsertAlarm, TypeOK, deviceTables, ruleTables, mqtt, budget
  <1>10. CASE EvaluationRaises
    BY <1>10, AbortType DEF EvaluationRaises, TypeOK, tables, mqtt, budget
  <1>11. CASE Refresh
    <2>1. CASE phase' = "dispatch" /\ UNCHANGED position
      BY <1>11, <2>1 DEF Refresh, TypeOK, tables, position, mqtt, budget
    <2>2. CASE AbortRule
      BY <1>11, <2>2, AbortType DEF Refresh, TypeOK, tables, mqtt, budget
    <2> QED BY <1>11, <2>1, <2>2 DEF Refresh
  <1>12. CASE Dispatch
    <2>0. found.id \in Nat
      <3>1. CASE found = NoAlarm  BY <3>1 DEF NoAlarm
      <3>2. CASE found \in Alarm  BY <3>2 DEF Alarm
      <3> QED BY <3>1, <3>2 DEF TypeOK
    <2>1. published' \subseteq Nat  BY <1>12, <2>0 DEF Dispatch, TypeOK
    <2> QED BY <1>12, <2>1 DEF Dispatch, Leave, TypeOK, tables, budget
  <1>13. CASE Reread
    <2>1. ActiveFor(dev, job.rule) \in SUBSET Alarm  BY DEF ActiveFor, TypeOK
    <2>2. OneOrNone(ActiveFor(dev, job.rule)) \in Alarm \cup {NoAlarm}  BY <2>1, OneOrNoneRow
    <2> QED BY <1>13, <2>2 DEF Reread, Leave, TypeOK, tables, mqtt, budget
  <1>14. CASE Resolve
    <2>1. alarms' \subseteq Alarm  BY <1>14, ClosedRows DEF Resolve, CloseFound, TypeOK
    <2> QED BY <1>14, <2>1 DEF Resolve, Leave, TypeOK, deviceTables, ruleTables, mqtt, budget
  <1> QED BY <1>1, <1>2, <1>3, <1>4, <1>5, <1>6, <1>7, <1>8, <1>9, <1>10, <1>11, <1>12, <1>13, <1>14
          DEF WorkerStep

LEMMA FailureType == TypeOK /\ (Failure \/ Restart) => TypeOK'
  <1> SUFFICES ASSUME TypeOK, Failure \/ Restart PROVE TypeOK'  OBVIOUS
  <1> USE DEF Phase, InRule
  <1>0. SpendFault => /\ faults' \in 0..MaxFaults /\ ops' = ops /\ kills' = kills
                      /\ quiet' \in BOOLEAN
    <2>1. SpendFault => quiet' \in BOOLEAN  BY DEF SpendFault
    <2> QED BY <2>1, BoundsAssumption DEF SpendFault, TypeOK
  <1>1. CASE Fault
    <2>1. SpendFault /\ AbortRule /\ UNCHANGED <<tables, mqtt>>  BY <1>1 DEF Fault
    <2> QED BY <1>0, <2>1, AbortType DEF TypeOK, tables, mqtt
  <1>2. CASE LostCommit
    <2>1. alarms' \subseteq Alarm /\ lastId' \in Nat
      <3>1. CASE phase = "create" /\ InsertAlarm
        BY <3>1, NewAlarmType DEF InsertAlarm, TypeOK
      <3>2. CASE alarms' = CloseFound /\ lastId' = lastId
        BY <3>2, ClosedRows DEF CloseFound, TypeOK
      <3> QED BY <1>2, <3>1, <3>2 DEF LostCommit
    <2>2. /\ SpendFault /\ AbortRule
          /\ UNCHANGED <<deviceTables, ruleTables, violating, mqtt>>
      BY <1>2 DEF LostCommit
    <2> QED BY <1>0, <2>1, <2>2, AbortType DEF TypeOK, deviceTables, ruleTables, mqtt
  <1>3. CASE FaultInList \/ Kill
    <2>1. /\ GoDown /\ ops' = ops /\ quiet' \in BOOLEAN
          /\ faults' \in 0..MaxFaults /\ kills' \in 0..MaxKills
      <3>1. CASE FaultInList  BY <1>0, <3>1 DEF FaultInList, TypeOK
      <3>2. CASE Kill
        <4>1. quiet' \in BOOLEAN  BY <3>2 DEF Kill
        <4> QED BY <3>2, <4>1, BoundsAssumption DEF Kill, TypeOK
      <3> QED BY <1>3, <3>1, <3>2
    <2> QED BY <2>1 DEF GoDown, TypeOK, tables
  <1>4. CASE Restart
    BY <1>4 DEF Restart, TypeOK, tables, position, mqtt, budget
  <1> QED BY <1>1, <1>2, <1>3, <1>4 DEF Failure

LEMMA NextType == TypeOK /\ [Next]_vars => TypeOK'
  <1>1. TypeOK /\ UNCHANGED vars => TypeOK'
    BY DEF TypeOK, vars, tables, position, mqtt, budget
  <1> QED BY <1>1, EnvironmentType, WorkerStepType, FailureType DEF Next

\* Every variable keeps its type; the worker in a rule has a rule in hand, and past
\* the device loop's head a device.
THEOREM TypeCorrect == Spec => []TypeOK
  <1> QED BY InitType, NextType, PTL DEF Spec

-----------------------------------------------------------------------------
(* The inductive invariant.                                                *)

\* Ids are the BIGSERIAL's: unique, and none is above the last one given out.
UniqueIds ==
  /\ \A a, b \in alarms : a.id = b.id => a = b
  /\ \A a \in alarms : a.id <= lastId

\* What the lookup saw still holds when the INSERT runs: nobody else opens alarms.
LookupHolds == phase = "create" => ActiveFor(dev, job.rule) = {}

\* Only an evaluation that did not trigger goes on to auto-resolve.
RereadIsClear == phase = "reread" => ~triggered

\* A cycle starts with nothing left of the one before.
CycleIsFresh == phase \in {"connect", "list", "down"} => todo = {}

\* The inductive invariant.
IInv ==
  /\ TypeOK
  /\ UniqueIds
  /\ LookupHolds
  /\ RereadIsClear
  /\ CycleIsFresh
  /\ OneActivePerRule
  /\ ResolveIsOwn
  /\ NoDanglingAlarm

\* The statements on `alarms` that open nothing: none, an UPDATE by id, or what a
\* DELETE of devices or rules does to it.
PurgedOf(lost, gone) == RulesForgotten(gone, {a \in alarms : a.device \notin lost})
Rewrites ==
  /\ lastId' = lastId
  /\ \/ alarms' = alarms
     \/ \E id \in Nat : alarms' = Closed(id, alarms)
     \/ \E lost \in SUBSET Device, gone \in SUBSET Rule : alarms' = PurgedOf(lost, gone)

\* Every row afterwards was one before, no more open than it was.
Descends ==
  \A b \in alarms' : \E a \in alarms :
    /\ b.id = a.id /\ b.device = a.device /\ b.rule \in {a.rule, None}
    /\ b.active => a.active

\* A row of the table is its columns.
LEMMA SameRow ==
  ASSUME NEW a \in Alarm, NEW b \in Alarm,
         a.id = b.id, a.device = b.device, a.rule = b.rule, a.active = b.active
  PROVE  a = b
  BY DEF Alarm

LEMMA RewritesDescend == TypeOK /\ Rewrites => Descends
  <1> SUFFICES ASSUME TypeOK, Rewrites PROVE Descends  OBVIOUS
  <1>0. alarms \in SUBSET Alarm  BY DEF TypeOK
  <1>1. CASE alarms' = alarms  BY <1>1 DEF Descends
  <1>2. ASSUME NEW id \in Nat, alarms' = Closed(id, alarms) PROVE Descends
    BY <1>0, <1>2, ClosedRows DEF Descends
  <1>3. ASSUME NEW lost \in SUBSET Device, NEW gone \in SUBSET Rule, alarms' = PurgedOf(lost, gone)
        PROVE  Descends
    <2>1. {a \in alarms : a.device \notin lost} \in SUBSET Alarm  BY <1>0
    <2>2. ASSUME NEW b \in alarms'
          PROVE  \E a \in {x \in alarms : x.device \notin lost} :
                   /\ b.id = a.id /\ b.device = a.device /\ b.active = a.active
                   /\ b.rule = IF a.rule \in gone THEN None ELSE a.rule
      BY <1>3, <2>1, ForgottenRows DEF PurgedOf
    <2> QED BY <2>2 DEF Descends
  <1> QED BY <1>1, <1>2, <1>3 DEF Rewrites

LEMMA RewritesUnique == TypeOK /\ TypeOK' /\ UniqueIds /\ Rewrites => UniqueIds'
  <1> SUFFICES ASSUME TypeOK, TypeOK', UniqueIds, Rewrites PROVE UniqueIds'  OBVIOUS
  <1>0. alarms \in SUBSET Alarm /\ alarms' \in SUBSET Alarm  BY DEF TypeOK
  <1>1. \A b \in alarms' : b.id <= lastId'
    BY RewritesDescend DEF Descends, Rewrites, UniqueIds
  <1>2. ASSUME NEW x \in alarms', NEW y \in alarms', x.id = y.id PROVE x = y
    <2>1. CASE alarms' = alarms  BY <1>2, <2>1 DEF UniqueIds
    <2>2. ASSUME NEW id \in Nat, alarms' = Closed(id, alarms) PROVE x = y
      <3>1. PICK a \in alarms : /\ x.id = a.id /\ x.device = a.device /\ x.rule = a.rule
                                /\ x.active = (a.active /\ a.id # id)
        BY <1>0, <2>2, ClosedRows
      <3>2. PICK b \in alarms : /\ y.id = b.id /\ y.device = b.device /\ y.rule = b.rule
                                /\ y.active = (b.active /\ b.id # id)
        BY <1>0, <2>2, ClosedRows
      <3>3. a = b  BY <1>2, <3>1, <3>2 DEF UniqueIds
      <3> QED BY <1>0, <3>1, <3>2, <3>3, SameRow
    <2>3. ASSUME NEW lost \in SUBSET Device, NEW gone \in SUBSET Rule,
                 alarms' = PurgedOf(lost, gone)
          PROVE  x = y
      <3> DEFINE kept == {a \in alarms : a.device \notin lost}
      <3>0. kept \in SUBSET Alarm  BY <1>0
      <3>1. PICK a \in kept : /\ x.id = a.id /\ x.device = a.device /\ x.active = a.active
                              /\ x.rule = IF a.rule \in gone THEN None ELSE a.rule
        BY <3>0, <2>3, ForgottenRows DEF PurgedOf
      <3>2. PICK b \in kept : /\ y.id = b.id /\ y.device = b.device /\ y.active = b.active
                              /\ y.rule = IF b.rule \in gone THEN None ELSE b.rule
        BY <3>0, <2>3, ForgottenRows DEF PurgedOf
      <3>3. a = b  BY <1>2, <3>1, <3>2 DEF UniqueIds
      <3> QED BY <1>0, <3>1, <3>2, <3>3, SameRow
    <2> QED BY <2>1, <2>2, <2>3 DEF Rewrites
  <1> QED BY <1>1, <1>2 DEF UniqueIds

\* The API, the devices and the broker leave the worker where it is, and open nothing.
LEMMA EnvironmentRewrites ==
  TypeOK /\ Environment => Rewrites /\ UNCHANGED <<phase, position>>
  <1> SUFFICES ASSUME TypeOK, Environment PROVE Rewrites /\ UNCHANGED <<phase, position>>  OBVIOUS
  <1>1. ASSUME NEW r \in Rule, CreateRule(r) \/ UpdateRule(r)
        PROVE  Rewrites /\ UNCHANGED <<phase, position>>
    BY <1>1 DEF CreateRule, UpdateRule, Rewrites
  <1>2. ASSUME NEW r \in Rule, DeleteRule(r) PROVE Rewrites /\ UNCHANGED <<phase, position>>
    <2>1. {a \in alarms : a.device \notin {}} = alarms  OBVIOUS
    <2>2. alarms' = PurgedOf({}, {r})  BY <1>2, <2>1 DEF DeleteRule, PurgedOf
    <2>3. lastId' = lastId /\ UNCHANGED <<phase, position>>  BY <1>2 DEF DeleteRule
    <2>4. {r} \in SUBSET Rule /\ {} \in SUBSET Device  OBVIOUS
    <2> QED BY <2>2, <2>3, <2>4 DEF Rewrites
  <1>3. ASSUME NEW d \in Device, CreateDevice(d) \/ UpdateDevice(d)
        PROVE  Rewrites /\ UNCHANGED <<phase, position>>
    BY <1>3 DEF CreateDevice, UpdateDevice, Rewrites
  <1>4. ASSUME NEW d \in Device, DeleteDevice(d) PROVE Rewrites /\ UNCHANGED <<phase, position>>
    <2> DEFINE pinned == {r \in rules : config[r].pin = d}
    <2>1. {a \in alarms : a.device \notin {d}} = {a \in alarms : a.device # d}  OBVIOUS
    <2>2. alarms' = PurgedOf({d}, pinned)  BY <1>4, <2>1 DEF DeleteDevice, PurgedOf
    <2>3. lastId' = lastId /\ UNCHANGED <<phase, position>>  BY <1>4 DEF DeleteDevice
    <2>4. pinned \in SUBSET Rule /\ {d} \in SUBSET Device  BY DEF TypeOK
    <2> HIDE DEF pinned
    <2> QED BY <2>2, <2>3, <2>4 DEF Rewrites
  <1>5. ASSUME NEW r \in Rule, NEW d \in Device, ConditionChange(r, d)
        PROVE  Rewrites /\ UNCHANGED <<phase, position>>
    BY <1>5 DEF ConditionChange, Rewrites
  <1>6. ASSUME NEW id \in 1..lastId, ResolveAlarm(id)
        PROVE  Rewrites /\ UNCHANGED <<phase, position>>
    <2>1. id \in Nat  BY DEF TypeOK
    <2> QED BY <1>6, <2>1 DEF ResolveAlarm, Rewrites
  <1>7. CASE BrokerDown \/ BrokerUp
    BY <1>7 DEF BrokerDown, BrokerUp, Rewrites, tables
  <1> QED BY <1>1, <1>2, <1>3, <1>4, <1>5, <1>6, <1>7 DEF Environment

\* The worker opens alarms at one place.
LEMMA WorkerRewrites ==
  TypeOK /\ (WorkerStep \/ Failure \/ Restart) => Rewrites \/ (phase = "create" /\ InsertAlarm)
  <1> SUFFICES ASSUME TypeOK, WorkerStep \/ Failure \/ Restart
               PROVE  Rewrites \/ (phase = "create" /\ InsertAlarm)
    OBVIOUS
  <1>0. phase = "resolve" => found.id \in Nat
    <2>1. CASE found = NoAlarm  BY <2>1 DEF NoAlarm
    <2>2. CASE found \in Alarm  BY <2>2 DEF Alarm
    <2> QED BY <2>1, <2>2 DEF TypeOK
  <1>1. UNCHANGED tables => Rewrites  BY DEF tables, Rewrites
  <1>2. CASE Connect \/ ListRules \/ TakeRule \/ EndCycle \/ Target \/ Evaluate \/ EndRule
    BY <1>1, <1>2 DEF Connect, AfterConnect, ListRules, TakeRule, EndCycle, Target, Evaluate, EndRule
  <1>3. CASE Lookup \/ EvaluationRaises \/ Refresh \/ Dispatch \/ Reread
    BY <1>1, <1>3 DEF Lookup, EvaluationRaises, Refresh, Dispatch, Reread
  <1>4. CASE Create  BY <1>4 DEF Create
  <1>5. CASE Resolve  BY <1>0, <1>5 DEF Resolve, CloseFound, Rewrites
  <1>6. CASE LostCommit  BY <1>0, <1>6 DEF LostCommit, CloseFound, Rewrites
  <1>7. CASE Fault \/ FaultInList \/ Kill \/ Restart
    BY <1>1, <1>7 DEF Fault, FaultInList, Kill, GoDown, Restart
  <1> QED BY <1>2, <1>3, <1>4, <1>5, <1>6, <1>7 DEF WorkerStep, Failure

LEMMA StepRewrites ==
  TypeOK /\ [Next]_vars => Rewrites \/ (phase = "create" /\ InsertAlarm)
  <1>1. UNCHANGED vars => Rewrites  BY DEF vars, tables, Rewrites
  <1> QED BY <1>1, EnvironmentRewrites, WorkerRewrites DEF Next

-----------------------------------------------------------------------------
(* Each part of it is kept.                                                *)

\* The row an INSERT adds.
LEMMA InsertedRow ==
  TypeOK /\ phase = "create" =>
    /\ NewAlarm \in Alarm /\ NewAlarm.id = lastId + 1 /\ NewAlarm.active
    /\ NewAlarm.device = dev /\ NewAlarm.rule = job.rule
    /\ dev \in Device /\ job.rule \in Rule
  BY DEF TypeOK, InRule, NewAlarm, Alarm, Job

LEMMA UniqueStep == TypeOK /\ UniqueIds /\ [Next]_vars => UniqueIds'
  <1> SUFFICES ASSUME TypeOK, UniqueIds, [Next]_vars PROVE UniqueIds'  OBVIOUS
  <1>1. CASE Rewrites  BY <1>1, NextType, RewritesUnique
  <1>2. CASE phase = "create" /\ InsertAlarm
    <2>1. alarms' = alarms \cup {NewAlarm} /\ lastId' = lastId + 1  BY <1>2 DEF InsertAlarm
    <2>2. NewAlarm.id = lastId + 1  BY <1>2, InsertedRow
    <2>3. \A a \in alarms : a.id \in Nat /\ a.id <= lastId  BY DEF TypeOK, Alarm, UniqueIds
    <2>4. lastId \in Nat  BY DEF TypeOK
    <2>5. \A a \in alarms : a.id # NewAlarm.id  BY <2>2, <2>3, <2>4
    <2>6. \A a, b \in alarms' : a.id = b.id => a = b  BY <2>1, <2>5 DEF UniqueIds
    <2>7. \A a \in alarms' : a.id <= lastId'  BY <2>1, <2>2, <2>3, <2>4
    <2> QED BY <2>6, <2>7 DEF UniqueIds
  <1> QED BY <1>1, <1>2, StepRewrites

LEMMA OneActiveStep ==
  TypeOK /\ UniqueIds /\ LookupHolds /\ OneActivePerRule /\ [Next]_vars => OneActivePerRule'
  <1> SUFFICES ASSUME TypeOK, UniqueIds, LookupHolds, OneActivePerRule, [Next]_vars,
                      NEW x \in alarms', NEW y \in alarms',
                      x.active, y.active, x.rule # None, x.rule = y.rule, x.device = y.device
               PROVE  x = y
    BY DEF OneActivePerRule
  <1>1. CASE Rewrites
    <2>1. PICK a \in alarms : /\ x.id = a.id /\ x.device = a.device /\ x.rule \in {a.rule, None}
                              /\ x.active => a.active
      BY <1>1, RewritesDescend DEF Descends
    <2>2. PICK b \in alarms : /\ y.id = b.id /\ y.device = b.device /\ y.rule \in {b.rule, None}
                              /\ y.active => b.active
      BY <1>1, RewritesDescend DEF Descends
    <2>3. a = b  BY <2>1, <2>2 DEF OneActivePerRule
    <2>4. UniqueIds'  BY UniqueStep
    <2> QED BY <2>1, <2>2, <2>3, <2>4 DEF UniqueIds
  <1>2. CASE phase = "create" /\ InsertAlarm
    <2>1. alarms' = alarms \cup {NewAlarm}  BY <1>2 DEF InsertAlarm
    <2>2. \A a \in alarms : ~(a.active /\ a.device = dev /\ a.rule = job.rule)
      BY <1>2 DEF LookupHolds, ActiveFor
    <2>3. NewAlarm.device = dev /\ NewAlarm.rule = job.rule  BY <1>2, InsertedRow
    <2> QED BY <2>1, <2>2, <2>3 DEF OneActivePerRule
  <1> QED BY <1>1, <1>2, StepRewrites

\* Nobody but the worker opens alarms, so what it read of one pair can only shrink.
LEMMA LookupStep == TypeOK /\ LookupHolds /\ [Next]_vars => LookupHolds'
  <1> SUFFICES ASSUME TypeOK, LookupHolds, [Next]_vars, phase' = "create"
               PROVE  ActiveFor(dev, job.rule)' = {}
    BY DEF LookupHolds
  <1>1. CASE Environment
    <2>1. phase = "create" /\ dev' = dev /\ job' = job
      BY <1>1, EnvironmentRewrites DEF position
    <2>2. job.rule # None  BY <2>1, InsertedRow, NoneAssumption
    <2>3. ActiveFor(dev, job.rule) = {}  BY <2>1 DEF LookupHolds
    <2>4. Descends  BY <1>1, EnvironmentRewrites, RewritesDescend
    <2> QED BY <2>1, <2>2, <2>3, <2>4 DEF Descends, ActiveFor
  <1>2. CASE WorkerStep
    <2>1. CASE Lookup
      <3>1. /\ Fires(OneOrNone(ActiveFor(dev, job.rule)))
            /\ UNCHANGED <<dev, job, alarms>>
        BY <2>1 DEF Lookup, Leave, tables
      <3>2. ActiveFor(dev, job.rule) \in SUBSET Alarm  BY DEF ActiveFor, TypeOK
      <3>3. ActiveFor(dev, job.rule) = {}  BY <3>1, <3>2, OneOrNoneRow DEF Fires
      <3> QED BY <3>1, <3>3 DEF ActiveFor
    <2>2. CASE Connect \/ ListRules \/ TakeRule \/ EndCycle \/ Target \/ Evaluate \/ EndRule
      BY <2>2 DEF Connect, AfterConnect, ListRules, TakeRule, EndCycle, Target, Evaluate, EndRule, RuleDone, Leave
    <2>3. CASE Create \/ EvaluationRaises \/ Refresh \/ Dispatch \/ Reread \/ Resolve
      BY <2>3, AbortType DEF Create, EvaluationRaises, Refresh, Dispatch, Reread, Resolve, Leave
    <2> QED BY <1>2, <2>1, <2>2, <2>3 DEF WorkerStep
  <1>3. CASE Failure \/ Restart
    BY <1>3, AbortType DEF Failure, Fault, LostCommit, FaultInList, Kill, GoDown, Restart
  <1>4. CASE UNCHANGED vars
    <2>1. phase' = phase /\ dev' = dev /\ job' = job /\ alarms' = alarms
      BY <1>4 DEF vars, tables, position
    <2> QED BY <2>1 DEF LookupHolds, ActiveFor
  <1> QED BY <1>1, <1>2, <1>3, <1>4 DEF Next

LEMMA RereadStep == TypeOK /\ RereadIsClear /\ [Next]_vars => RereadIsClear'
  <1> SUFFICES ASSUME TypeOK, RereadIsClear, [Next]_vars, phase' = "reread" PROVE ~triggered'
    BY DEF RereadIsClear
  <1>1. CASE Environment  BY <1>1, EnvironmentRewrites DEF position, RereadIsClear
  <1>2. CASE WorkerStep
    <2>1. CASE Lookup  BY <2>1 DEF Lookup, Leave
    <2>2. CASE Connect \/ ListRules \/ TakeRule \/ EndCycle \/ Target \/ Evaluate \/ EndRule
      BY <2>2 DEF Connect, AfterConnect, ListRules, TakeRule, EndCycle, Target, Evaluate, EndRule, RuleDone, Leave
    <2>3. CASE Create \/ EvaluationRaises \/ Refresh \/ Dispatch \/ Reread \/ Resolve
      BY <2>3, AbortType DEF Create, EvaluationRaises, Refresh, Dispatch, Reread, Resolve, Leave
    <2> QED BY <1>2, <2>1, <2>2, <2>3 DEF WorkerStep
  <1>3. CASE Failure \/ Restart
    BY <1>3, AbortType DEF Failure, Fault, LostCommit, FaultInList, Kill, GoDown, Restart
  <1>4. CASE UNCHANGED vars  BY <1>4 DEF vars, position, RereadIsClear
  <1> QED BY <1>1, <1>2, <1>3, <1>4 DEF Next

LEMMA CycleStep == TypeOK /\ CycleIsFresh /\ [Next]_vars => CycleIsFresh'
  <1> SUFFICES ASSUME TypeOK, CycleIsFresh, [Next]_vars, phase' \in {"connect", "list", "down"}
               PROVE  todo' = {}
    BY DEF CycleIsFresh
  <1>1. CASE Environment  BY <1>1, EnvironmentRewrites DEF position, CycleIsFresh
  <1>2. CASE WorkerStep
    <2>1. CASE Connect \/ EndCycle
      BY <2>1 DEF Connect, AfterConnect, EndCycle, position, CycleIsFresh
    <2>2. CASE ListRules \/ TakeRule \/ Target \/ Evaluate \/ EndRule \/ Lookup
      BY <2>2 DEF ListRules, TakeRule, Target, Evaluate, EndRule, RuleDone, Lookup, Leave
    <2>3. CASE Create \/ EvaluationRaises \/ Refresh \/ Dispatch \/ Reread \/ Resolve
      BY <2>3, AbortType DEF Create, EvaluationRaises, Refresh, Dispatch, Reread, Resolve, Leave
    <2> QED BY <1>2, <2>1, <2>2, <2>3 DEF WorkerStep
  <1>3. CASE Failure \/ Restart
    BY <1>3, AbortType
       DEF Failure, Fault, LostCommit, FaultInList, Kill, GoDown, Restart, position, CycleIsFresh
  <1>4. CASE UNCHANGED vars  BY <1>4 DEF vars, position, CycleIsFresh
  <1> QED BY <1>1, <1>2, <1>3, <1>4 DEF Next

LEMMA ResolveStep ==
  TypeOK /\ UniqueIds /\ RereadIsClear /\ ResolveIsOwn /\ [Next]_vars => ResolveIsOwn'
  <1> SUFFICES ASSUME TypeOK, UniqueIds, RereadIsClear, ResolveIsOwn, [Next]_vars,
                      phase' = "resolve"
               PROVE  /\ ~triggered'
                      /\ \A a \in alarms' : a.id = found'.id =>
                           a.device = dev' /\ a.rule \in {job'.rule, None}
    BY DEF ResolveIsOwn
  <1>1. CASE Environment
    <2>1. phase = "resolve" /\ UNCHANGED <<dev, job, found, triggered>>
      BY <1>1, EnvironmentRewrites DEF position
    <2>2. Descends  BY <1>1, EnvironmentRewrites, RewritesDescend
    <2> QED BY <2>1, <2>2 DEF Descends, ResolveIsOwn
  <1>2. CASE WorkerStep
    <2>1. CASE Reread
      <3> DEFINE active == ActiveFor(dev, job.rule)
      <3>1. /\ phase = "reread" /\ active # {} /\ found' = OneOrNone(active)
            /\ UNCHANGED <<dev, job, triggered, alarms>>
        BY <2>1 DEF Reread, Leave, tables
      <3>2. active \in SUBSET Alarm  BY DEF ActiveFor, TypeOK
      <3>3. found' \in active  BY <3>1, <3>2, OneOrNoneRow
      <3>4. found' \in alarms /\ found'.device = dev /\ found'.rule = job.rule
        BY <3>3 DEF ActiveFor
      <3> QED BY <3>1, <3>4 DEF UniqueIds, RereadIsClear
    <2>2. CASE Connect \/ ListRules \/ TakeRule \/ EndCycle \/ Target \/ Evaluate \/ EndRule
      BY <2>2 DEF Connect, AfterConnect, ListRules, TakeRule, EndCycle, Target, Evaluate, EndRule, RuleDone, Leave
    <2>3. CASE Lookup \/ Create \/ EvaluationRaises \/ Refresh \/ Dispatch \/ Resolve
      BY <2>3, AbortType DEF Lookup, Create, EvaluationRaises, Refresh, Dispatch, Resolve, Leave
    <2> QED BY <1>2, <2>1, <2>2, <2>3 DEF WorkerStep
  <1>3. CASE Failure \/ Restart
    BY <1>3, AbortType DEF Failure, Fault, LostCommit, FaultInList, Kill, GoDown, Restart
  <1>4. CASE UNCHANGED vars
    BY <1>4 DEF vars, tables, position, ResolveIsOwn
  <1> QED BY <1>1, <1>2, <1>3, <1>4 DEF Next

LEMMA DanglingStep == TypeOK /\ NoDanglingAlarm /\ [Next]_vars => NoDanglingAlarm'
  <1> SUFFICES ASSUME TypeOK, NoDanglingAlarm, [Next]_vars PROVE NoDanglingAlarm'  OBVIOUS
  <1>0. alarms \in SUBSET Alarm /\ rules \in SUBSET Rule  BY DEF TypeOK
  <1>1. ASSUME Rewrites, devices \subseteq devices', rules \subseteq rules' PROVE NoDanglingAlarm'
    BY <1>1, RewritesDescend DEF Descends, NoDanglingAlarm
  <1>2. CASE Environment
    <2>0. Rewrites  BY <1>2, EnvironmentRewrites
    <2>1. ASSUME NEW r \in Rule, CreateRule(r) \/ UpdateRule(r) PROVE NoDanglingAlarm'
      BY <1>1, <2>0, <2>1 DEF CreateRule, UpdateRule, deviceTables
    <2>2. ASSUME NEW r \in Rule, DeleteRule(r) PROVE NoDanglingAlarm'
      <3>1. /\ alarms' = RulesForgotten({r}, alarms) /\ rules' = rules \ {r}
            /\ devices' = devices
        BY <2>2 DEF DeleteRule, deviceTables
      <3>2. ASSUME NEW b \in alarms' PROVE b.device \in devices' /\ b.rule \in rules' \cup {None}
        <4>1. PICK a \in alarms : /\ b.device = a.device
                                  /\ b.rule = IF a.rule \in {r} THEN None ELSE a.rule
          BY <1>0, <3>1, ForgottenRows
        <4> QED BY <3>1, <4>1 DEF NoDanglingAlarm
      <3> QED BY <3>2 DEF NoDanglingAlarm
    <2>3. ASSUME NEW d \in Device, CreateDevice(d) \/ UpdateDevice(d) PROVE NoDanglingAlarm'
      BY <1>1, <2>0, <2>3 DEF CreateDevice, UpdateDevice, ruleTables
    <2>4. ASSUME NEW d \in Device, DeleteDevice(d) PROVE NoDanglingAlarm'
      <3> DEFINE pinned == {r \in rules : config[r].pin = d}
                 kept == {a \in alarms : a.device # d}
      <3>1. /\ alarms' = RulesForgotten(pinned, kept) /\ rules' = rules \ pinned
            /\ devices' = devices \ {d}
        BY <2>4 DEF DeleteDevice
      <3>2. pinned \in SUBSET Rule /\ kept \in SUBSET Alarm  BY <1>0
      <3>3. ASSUME NEW b \in alarms' PROVE b.device \in devices' /\ b.rule \in rules' \cup {None}
        <4> HIDE DEF pinned
        <4>1. PICK a \in kept : /\ b.device = a.device
                                /\ b.rule = IF a.rule \in pinned THEN None ELSE a.rule
          BY <3>1, <3>2, ForgottenRows
        <4> QED BY <3>1, <4>1 DEF NoDanglingAlarm
      <3> QED BY <3>3 DEF NoDanglingAlarm
    <2>5. ASSUME NEW r \in Rule, NEW d \in Device, ConditionChange(r, d) PROVE NoDanglingAlarm'
      BY <1>1, <2>0, <2>5 DEF ConditionChange, ruleTables, deviceTables
    <2>6. ASSUME NEW id, ResolveAlarm(id) PROVE NoDanglingAlarm'
      BY <1>1, <2>0, <2>6 DEF ResolveAlarm, ruleTables, deviceTables
    <2>7. CASE BrokerDown \/ BrokerUp
      BY <1>1, <2>0, <2>7 DEF BrokerDown, BrokerUp, tables
    <2> QED BY <1>2, <2>1, <2>2, <2>3, <2>4, <2>5, <2>6, <2>7 DEF Environment
  <1>3. CASE WorkerStep \/ Failure \/ Restart
    <2>1. UNCHANGED <<devices, rules>>
      <3>1. UNCHANGED tables => UNCHANGED <<devices, rules>>  BY DEF tables
      <3>2. CASE Connect \/ ListRules \/ TakeRule \/ EndCycle \/ Target \/ Evaluate \/ EndRule
        BY <3>1, <3>2 DEF Connect, AfterConnect, ListRules, TakeRule, EndCycle, Target, Evaluate, EndRule
      <3>3. CASE Lookup \/ EvaluationRaises \/ Refresh \/ Dispatch \/ Reread
        BY <3>1, <3>3 DEF Lookup, EvaluationRaises, Refresh, Dispatch, Reread
      <3>4. CASE Create \/ Resolve \/ LostCommit
        BY <3>4 DEF Create, Resolve, LostCommit, deviceTables, ruleTables
      <3>5. CASE Fault \/ FaultInList \/ Kill \/ Restart
        BY <3>1, <3>5 DEF Fault, FaultInList, Kill, GoDown, Restart
      <3> QED BY <1>3, <3>2, <3>3, <3>4, <3>5 DEF WorkerStep, Failure
    <2>2. CASE Rewrites  BY <1>1, <2>1, <2>2
    <2>3. CASE phase = "create" /\ InsertAlarm
      BY <2>1, <2>3, InsertedRow DEF InsertAlarm, Insertable, NoDanglingAlarm
    <2> QED BY <1>3, <2>2, <2>3, WorkerRewrites
  <1>4. CASE UNCHANGED vars
    BY <1>4 DEF vars, tables, NoDanglingAlarm
  <1> QED BY <1>2, <1>3, <1>4 DEF Next

\* The invariant holds at the start and every step keeps it.
THEOREM Inductive == Spec => []IInv
  <1>1. Init => IInv
    <2> SUFFICES ASSUME Init PROVE IInv  OBVIOUS
    <2>1. TypeOK  BY InitType
    <2>2. alarms = {} /\ phase = "connect" /\ todo = {}  BY DEF Init
    <2> QED BY <2>1, <2>2
            DEF IInv, UniqueIds, LookupHolds, RereadIsClear, CycleIsFresh, OneActivePerRule,
                ResolveIsOwn, NoDanglingAlarm
  <1>2. IInv /\ [Next]_vars => IInv'
    BY NextType, UniqueStep, LookupStep, RereadStep, CycleStep, OneActiveStep, ResolveStep,
       DanglingStep
    DEF IInv
  <1> QED BY <1>1, <1>2, PTL DEF Spec

-----------------------------------------------------------------------------
(* What follows.                                                           *)

\* At most one active alarm per (device, rule), with any number of devices and rules,
\* and any number of changes, faults and restarts between a lookup and its INSERT.
THEOREM OneActiveAlarm == Spec => []OneActivePerRule
  <1>1. IInv => OneActivePerRule  BY DEF IInv
  <1> QED BY <1>1, Inductive, PTL

\* Auto-resolve closes only an alarm of the pair whose condition it found clear.
THEOREM ResolvesItsOwn == Spec => []ResolveIsOwn
  <1>1. IInv => ResolveIsOwn  BY DEF IInv
  <1> QED BY <1>1, Inductive, PTL

\* An alarm in the table has its device, and its rule unless that was deleted.
THEOREM NothingDangles == Spec => []NoDanglingAlarm
  <1>1. IInv => NoDanglingAlarm  BY DEF IInv
  <1> QED BY <1>1, Inductive, PTL

LEMMA AnnouncedStep == TypeOK /\ AnnouncedOnce /\ [Next]_vars => AnnouncedOnce'
  <1> SUFFICES ASSUME TypeOK, AnnouncedOnce, [Next]_vars PROVE AnnouncedOnce'  OBVIOUS
  <1>0. lastId \in Nat /\ lastId' \in Nat /\ published \subseteq Nat /\ found.id \in Nat
    BY NextType DEF TypeOK, Alarm, NoAlarm
  <1>1. lastId <= lastId'
    BY <1>0, StepRewrites DEF Rewrites, InsertAlarm
  <1>2. ASSUME published' = published,
               phase' \in {"refresh", "dispatch"} =>
                 phase \in {"refresh", "dispatch"} /\ found' = found
        PROVE  AnnouncedOnce'
    BY <1>0, <1>1, <1>2 DEF AnnouncedOnce
  <1>3. CASE Environment
    <2>1. published' = published
      BY <1>3 DEF Environment, CreateRule, UpdateRule, DeleteRule, CreateDevice, UpdateDevice,
                  DeleteDevice, ConditionChange, ResolveAlarm, BrokerDown, BrokerUp, mqtt
    <2> QED BY <1>2, <1>3, <2>1, EnvironmentRewrites DEF position
  <1>4. CASE WorkerStep
    <2>1. CASE Create
      <3>1. /\ found'.id = lastId + 1 /\ lastId' = lastId + 1
            /\ published' = published
        BY <2>1, InsertedRow DEF Create, InsertAlarm, mqtt
      <3> QED BY <1>0, <3>1 DEF AnnouncedOnce
    <2>2. CASE Dispatch
      <3>1. /\ published' \subseteq published \cup {found.id} /\ phase' = "device"
            /\ lastId' = lastId /\ found.id <= lastId
        BY <2>2 DEF Dispatch, Leave, tables, AnnouncedOnce
      <3> QED BY <3>1 DEF AnnouncedOnce
    <2>3. CASE Refresh
      BY <1>2, <2>3, AbortType DEF Refresh, position, mqtt
    <2>4. CASE Connect
      BY <1>2, <2>4 DEF Connect, AfterConnect
    <2>5. CASE ListRules \/ TakeRule \/ EndCycle \/ Target \/ Evaluate \/ EndRule
      BY <1>2, <2>5 DEF ListRules, TakeRule, EndCycle, Target, Evaluate, EndRule, RuleDone, Leave, mqtt
    <2>6. CASE Lookup \/ EvaluationRaises \/ Reread \/ Resolve
      BY <1>2, <2>6, AbortType DEF Lookup, EvaluationRaises, Reread, Resolve, Leave, mqtt
    <2> QED BY <1>4, <2>1, <2>2, <2>3, <2>4, <2>5, <2>6 DEF WorkerStep
  <1>5. CASE Failure \/ Restart
    BY <1>2, <1>5, AbortType DEF Failure, Fault, LostCommit, FaultInList, Kill, GoDown, Restart, mqtt
  <1>6. CASE UNCHANGED vars
    BY <1>2, <1>6 DEF vars, position, mqtt
  <1> QED BY <1>3, <1>4, <1>5, <1>6 DEF Next

\* A restart between the INSERT and the notification loses it, never repeats it.
THEOREM AnnouncesOnce == Spec => []AnnouncedOnce
  <1>1. Init => AnnouncedOnce  BY DEF Init, AnnouncedOnce
  <1>2. TypeOK /\ AnnouncedOnce /\ [Next]_vars => AnnouncedOnce'  BY AnnouncedStep
  <1> QED BY <1>1, <1>2, TypeCorrect, PTL DEF Spec

\* A step of the tables that keeps ids unique opens nothing that was closed.
Reopens == \E a \in alarms, b \in alarms' : a.id = b.id /\ ~a.active /\ b.active

LEMMA NoReopening == IInv /\ [Next]_vars => ~Reopens
  <1> SUFFICES ASSUME IInv, [Next]_vars, NEW a \in alarms, NEW b \in alarms',
                      a.id = b.id, ~a.active, b.active
               PROVE  FALSE
    BY DEF Reopens
  <1>0. TypeOK /\ UniqueIds  BY DEF IInv
  <1>1. CASE Rewrites
    <2>1. PICK c \in alarms : b.id = c.id /\ (b.active => c.active)
      BY <1>0, <1>1, RewritesDescend DEF Descends
    <2> QED BY <1>0, <2>1 DEF UniqueIds
  <1>2. CASE phase = "create" /\ InsertAlarm
    <2>1. NewAlarm.id = lastId + 1 /\ alarms' = alarms \cup {NewAlarm}
      BY <1>0, <1>2, InsertedRow DEF InsertAlarm
    <2>2. a.id \in Nat /\ lastId \in Nat /\ a.id <= lastId
      BY <1>0 DEF UniqueIds, TypeOK, Alarm
    <2>3. b \in alarms  BY <2>1, <2>2
    <2> QED BY <1>0, <2>3 DEF UniqueIds
  <1> QED BY <1>0, <1>1, <1>2, StepRewrites

\* No step of anyone makes a closed alarm active again: a condition that returns is a new
\* alarm (alarm_repository.py:70-82).
THEOREM ClosedStaysClosed == Spec => [][~Reopens]_vars
  <1>1. IInv /\ [Next]_vars => [~Reopens]_vars  BY NoReopening
  <1> QED BY <1>1, Inductive, PTL DEF Spec

LEMMA NoSkipping == IInv /\ [Next]_vars => \A j \in todo \ todo' : job' = j \/ phase' = "down"
  <1> SUFFICES ASSUME IInv, [Next]_vars, NEW j \in todo \ todo', phase' # "down"
               PROVE  job' = j
    OBVIOUS
  <1>0. TypeOK /\ CycleIsFresh  BY DEF IInv
  <1>1. CASE Environment  BY <1>0, <1>1, EnvironmentRewrites DEF position
  <1>2. CASE WorkerStep
    <2>1. CASE TakeRule  BY <2>1 DEF TakeRule
    <2>2. CASE ListRules  BY <1>0, <2>2 DEF ListRules, CycleIsFresh
    <2>3. CASE Connect \/ EndCycle \/ Target \/ Evaluate \/ EndRule \/ Lookup
      BY <2>3 DEF Connect, AfterConnect, EndCycle, Target, Evaluate, EndRule, Lookup, position
    <2>4. CASE Create \/ EvaluationRaises \/ Refresh \/ Dispatch \/ Reread \/ Resolve
      BY <1>0, <2>4, AbortType
         DEF Create, EvaluationRaises, Refresh, Dispatch, Reread, Resolve, position
    <2> QED BY <1>2, <2>1, <2>2, <2>3, <2>4 DEF WorkerStep
  <1>3. CASE Failure \/ Restart
    BY <1>0, <1>3, AbortType
       DEF Failure, Fault, LostCommit, FaultInList, Kill, GoDown, Restart, position
  <1>4. CASE UNCHANGED vars  BY <1>4 DEF vars, position
  <1> QED BY <1>1, <1>2, <1>3, <1>4 DEF Next

\* A rule of the cycle is dropped from it only when its turn comes, or with the process.
THEOREM EveryRuleHasItsTurn == Spec => NoRuleSkipped
  <1>1. IInv /\ [Next]_vars => [\A j \in todo \ todo' : job' = j \/ phase' = "down"]_vars
    BY NoSkipping
  <1> QED BY <1>1, Inductive, PTL DEF Spec, NoRuleSkipped

-----------------------------------------------------------------------------
(* What `Converges` rests on but fairness: each step of a cycle brings the *)
(* cycle nearer to its end, and nobody else's step takes that back.        *)

Cycling == InRule \cup {"rule"}

\* Steps to the end of the device in hand, or of the rule.
Depth(stage) ==
  CASE stage = "lookup" -> 6 [] stage \in {"create", "reread"} -> 5
    [] stage \in {"refresh", "resolve"} -> 4 [] stage = "dispatch" -> 3
    [] stage = "device" -> 2 [] OTHER -> 1

Fewer(new, old) == new \subseteq old /\ new # old

\* Fewer rules to do, or the devices of the one in hand, or fewer of them, or less of
\* the device in hand.
Nearer ==
  \/ phase' \notin Cycling
  \/ Fewer(todo', todo)
  \/ /\ todo' = todo /\ phase' \in Cycling \ {"target"}
     /\ \/ phase = "target"
        \/ Fewer(targets', targets)
        \/ targets' \subseteq targets /\ Depth(phase') < Depth(phase)

\* A failed statement ends its rule, a death the cycle; the rest of the platform, which
\* changes rules and devices under the worker, gives it nothing more to do.
NotFarther ==
  \/ UNCHANGED <<phase, todo, targets>>
  \/ phase' = "rule" /\ todo' = todo
  \/ phase' = "down" /\ todo' = {}
  \/ phase = "down"

CycleAdvances == IF WorkerStep THEN phase \in Cycling => Nearer ELSE NotFarther

LEMMA WorkerNearer ==
  ASSUME TypeOK, WorkerStep, phase \in Cycling
  PROVE  Nearer
  <1>1. CASE TakeRule
    <2>1. Fewer(todo', todo)  BY <1>1 DEF TakeRule, Fewer
    <2> QED BY <2>1 DEF Nearer
  <1>2. CASE Connect \/ ListRules \/ EndCycle
    <2>1. phase' \notin Cycling
      BY <1>2 DEF Connect, ListRules, EndCycle, Cycling, InRule
    <2> QED BY <2>1 DEF Nearer
  <1>3. CASE Target
    BY <1>3 DEF Target, Nearer, Cycling, InRule
  <1>4. CASE Evaluate
    <2>1. Fewer(targets', targets)  BY <1>4 DEF Evaluate, Fewer
    <2> QED BY <1>4, <2>1 DEF Evaluate, Nearer, Cycling, InRule
  <1>5. ASSUME todo' = todo, targets' \subseteq targets, phase' \in Cycling \ {"target"},
               Depth(phase') < Depth(phase)
        PROVE  Nearer
    BY <1>5 DEF Nearer
  <1>6. CASE EndRule
    <2>1. phase = "device" /\ phase' = "rule" /\ todo' = todo /\ targets' = {}
      BY <1>6 DEF EndRule, RuleDone, Leave
    <2> QED BY <1>5, <2>1 DEF Depth, Cycling
  <1>7. CASE EvaluationRaises
    <2>1. /\ phase \in {"create", "lookup", "reread"} /\ phase' = "rule"
          /\ todo' = todo /\ targets' = {}
      BY <1>7 DEF EvaluationRaises, Raises, AbortRule, RulesLeft, RuleDone, Leave
    <2> QED BY <1>5, <2>1 DEF Depth, Cycling
  <1>8. CASE Lookup \/ Create \/ Refresh \/ Dispatch \/ Reread \/ Resolve
    <2>1. todo' = todo /\ (targets' = targets \/ targets' = {})
      BY <1>8 DEF Lookup, Create, Refresh, Dispatch, Reread, Resolve, Leave, AbortRule, RulesLeft,
         RuleDone, position
    <2>2. \/ phase = "lookup" /\ phase' \in {"create", "device", "reread"}
          \/ phase = "create" /\ phase' = "refresh"
          \/ phase = "refresh" /\ phase' \in {"dispatch", "rule"}
          \/ phase = "reread" /\ phase' \in {"device", "resolve"}
          \/ phase \in {"dispatch", "resolve"} /\ phase' = "device"
      BY <1>8 DEF Lookup, Create, Refresh, Dispatch, Reread, Resolve, Leave, AbortRule, RuleDone
    <2>3. Depth(phase') < Depth(phase)  BY <2>2 DEF Depth
    <2>4. phase' \in Cycling \ {"target"}  BY <2>2 DEF Cycling, InRule
    <2> QED BY <1>5, <2>1, <2>3, <2>4
  <1> QED BY <1>1, <1>2, <1>3, <1>4, <1>6, <1>7, <1>8 DEF WorkerStep

LEMMA OthersNoFarther ==
  ASSUME Next, ~WorkerStep
  PROVE  NotFarther
  <1>1. CASE Environment
    BY <1>1 DEF Environment, CreateRule, UpdateRule, DeleteRule, CreateDevice, UpdateDevice,
       DeleteDevice, ConditionChange, ResolveAlarm, BrokerDown, BrokerUp, position, NotFarther
  <1>2. CASE Fault \/ LostCommit
    BY <1>2 DEF Fault, LostCommit, AbortRule, RulesLeft, RuleDone, Leave, NotFarther
  <1>3. CASE FaultInList \/ Kill \/ Restart
    BY <1>3 DEF FaultInList, Kill, Restart, GoDown, NotFarther
  <1> QED BY <1>1, <1>2, <1>3 DEF Next, Failure

\* The cycle of alarm_worker.py:126-135 comes to its end by its own steps, over tables
\* that anybody changes meanwhile: nothing makes it start a rule or a device again.
THEOREM CycleTerminates == Spec => [][CycleAdvances]_vars
  <1>1. TypeOK /\ [Next]_vars => [CycleAdvances]_vars
    <2> SUFFICES ASSUME TypeOK, Next PROVE CycleAdvances
      <3>1. UNCHANGED vars => [CycleAdvances]_vars  OBVIOUS
      <3> QED BY <3>1
    <2> QED BY WorkerNearer, OthersNoFarther DEF CycleAdvances
  <1> QED BY <1>1, TypeCorrect, PTL DEF Spec

-----------------------------------------------------------------------------
(* The worker and the API implement AlarmLedger.                           *)

\* UPDATE by id closes the one row it finds, or changes nothing.
LEMMA ClosedIsClose ==
  ASSUME TypeOK, UniqueIds, NEW id, alarms' = Closed(id, alarms), lastId' = lastId
  PROVE  Ledger!Next \/ UNCHANGED <<alarms, lastId>>
  <1> DEFINE Shut(a) == [a EXCEPT !.active = a.active /\ a.id # id]
  <1>0. alarms \in SUBSET Alarm  BY DEF TypeOK
  <1>1. ASSUME NEW a \in alarms, ~a.active \/ a.id # id PROVE Shut(a) = a
    <2>1. a \in Alarm  BY <1>0
    <2>2. a.active \in BOOLEAN  BY <2>1 DEF Alarm
    <2>3. (a.active /\ a.id # id) = a.active  BY <1>1, <2>2
    <2> QED BY <2>1, <2>3 DEF Alarm
  <1>2. alarms' = {Shut(a) : a \in alarms}  BY DEF Closed
  <1>3. CASE \E a \in alarms : a.active /\ a.id = id
    <2>1. PICK a \in alarms : a.active /\ a.id = id  BY <1>3
    <2>2. Shut(a) = [a EXCEPT !.active = FALSE]
      <3>1. (a.active /\ a.id # id) = FALSE  BY <2>1
      <3> QED BY <3>1
    <2>3. \A b \in alarms \ {a} : b.id # id  BY <2>1 DEF UniqueIds
    <2> HIDE DEF Shut
    <2>4. \A b \in alarms \ {a} : Shut(b) = b  BY <1>1, <2>3
    <2>5. alarms' = (alarms \ {a}) \cup {Shut(a)}  BY <1>2, <2>4
    <2>6. Ledger!Close(a)  BY <2>1, <2>2, <2>5 DEF Ledger!Close
    <2> QED BY <2>6 DEF Ledger!Next
  <1>4. CASE \A a \in alarms : ~a.active \/ a.id # id
    <2> HIDE DEF Shut
    <2>1. alarms' = alarms  BY <1>1, <1>2, <1>4
    <2> QED BY <2>1
  <1> QED BY <1>3, <1>4

\* Every step of the system is a step of the ledger, or leaves it alone.
LEMMA LedgerStep == IInv /\ [Next]_vars => [Ledger!Next]_<<alarms, lastId>>
  <1> SUFFICES ASSUME IInv, [Next]_vars
               PROVE  Ledger!Next \/ UNCHANGED <<alarms, lastId>>
    OBVIOUS
  <1>0. TypeOK /\ UniqueIds /\ LookupHolds  BY DEF IInv
  <1>1. CASE Rewrites
    <2>1. CASE alarms' = alarms  BY <1>1, <2>1 DEF Rewrites
    <2>2. ASSUME NEW id \in Nat, alarms' = Closed(id, alarms)
          PROVE  Ledger!Next \/ UNCHANGED <<alarms, lastId>>
      BY <1>0, <1>1, <2>2, ClosedIsClose DEF Rewrites
    <2>3. ASSUME NEW lost \in SUBSET Device, NEW gone \in SUBSET Rule,
                 alarms' = PurgedOf(lost, gone)
          PROVE  Ledger!Next
      <3>1. Ledger!Purge(lost, gone)
        BY <1>1, <2>3 DEF Ledger!Purge, PurgedOf, RulesForgotten, Rewrites
      <3> QED BY <3>1 DEF Ledger!Next
    <2> QED BY <1>1, <2>1, <2>2, <2>3 DEF Rewrites
  <1>2. CASE phase = "create" /\ InsertAlarm
    <2>1. dev \in Device /\ job.rule \in Rule  BY <1>0, <1>2, InsertedRow
    <2>2. ~Ledger!IsOpen(dev, job.rule)
      BY <1>0, <1>2 DEF LookupHolds, ActiveFor, Ledger!IsOpen
    <2>3. Ledger!Open(dev, job.rule)
      BY <1>2, <2>2 DEF InsertAlarm, NewAlarm, Ledger!Open
    <2> QED BY <2>1, <2>3 DEF Ledger!Next
  <1> QED BY <1>0, <1>1, <1>2, StepRewrites

\* The alarm subsystem, faults and restarts included, implements the ledger.
THEOREM ImplementsLedger == Spec => KeepsAlarmLedger
  <1>1. Init => Ledger!Init  BY DEF Init, Ledger!Init
  <1>2. IInv /\ [Next]_vars => [Ledger!Next]_<<alarms, lastId>>  BY LedgerStep
  <1> QED BY <1>1, <1>2, Inductive, PTL DEF Spec, KeepsAlarmLedger, Ledger!Spec

=============================================================================
