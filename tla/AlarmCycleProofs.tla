-------------------------- MODULE AlarmCycleProofs --------------------------
(***************************************************************************)
(* Proof that an undisturbed cycle of AlarmWorker is exact, for every set  *)
(* of devices, groups and rules, and whatever the tables held before it.   *)
(***************************************************************************)
EXTENDS AlarmWorkerProofs

-----------------------------------------------------------------------------
(* The inductive invariant.                                                *)

\* The foreign key of alarm_rules.device_id.
PinsExist == \A r \in rules : config[r].pin \in devices \cup {None}

InHand == InRule \ {"target", "device"}

\* The copy of a rule the cycle holds is the rule.
Fresh(j) == j.rule \in rules /\ config[j.rule].enabled /\ j = JobOf(j.rule)

JobsFresh ==
  /\ phase \in InRule \cup {"rule"}
  /\ \A j \in todo : Fresh(j)
  /\ phase \in InRule => Fresh(job)
  /\ phase \in InRule \ {"target"} => targets \subseteq TargetDevices(job)
  /\ phase \in InHand => dev \in TargetDevices(job)

\* What the worker knows of the pair in hand is so.
PairKnown ==
  /\ phase \in InHand => (triggered <=> <<job.rule, dev>> \in violating)
  /\ phase \in {"create", "refresh", "dispatch"} => triggered
  /\ phase \in {"refresh", "dispatch", "resolve"} => found \in ActiveFor(dev, job.rule)

\* The cycle is through with a pair: with its rule, or with its device of the rule.
Through(r, d) ==
  /\ \A j \in todo : j.rule # r
  /\ phase \in InRule /\ job.rule = r =>
       phase # "target" /\ d \notin targets /\ (phase \in InHand => d # dev)

DoneExact ==
  \A r \in Rule, d \in Device : Covered(r, d) /\ Through(r, d) => Exact(r, d)

CycleInv == PinsExist /\ (quiet => JobsFresh /\ PairKnown /\ DoneExact)

-----------------------------------------------------------------------------
(* Rules and their pins.                                                   *)

LEMMA PinsInit == Init => PinsExist
  BY DEF Init, PinsExist

LEMMA PinsStep == TypeOK /\ PinsExist /\ [Next]_vars => PinsExist'
  <1> SUFFICES ASSUME TypeOK, PinsExist, [Next]_vars, NEW q \in rules'
               PROVE  config'[q].pin \in devices' \cup {None}
    BY DEF PinsExist
  <1>0. config \in [Rule -> Config] /\ rules \subseteq Rule  BY DEF TypeOK
  <1>1. ASSUME UNCHANGED <<rules, config>>, devices \subseteq devices'
        PROVE  config'[q].pin \in devices' \cup {None}
    BY <1>1 DEF PinsExist
  <1>2. CASE Environment
    <2>1. ASSUME NEW r \in Rule, CreateRule(r) \/ UpdateRule(r)
          PROVE  config'[q].pin \in devices' \cup {None}
      BY <1>0, <2>1 DEF CreateRule, UpdateRule, deviceTables, PinsExist
    <2>2. ASSUME NEW r \in Rule, DeleteRule(r)
          PROVE  config'[q].pin \in devices' \cup {None}
      BY <1>0, <2>2 DEF DeleteRule, deviceTables, PinsExist
    <2>3. ASSUME NEW d \in Device, CreateDevice(d) \/ UpdateDevice(d)
          PROVE  config'[q].pin \in devices' \cup {None}
      BY <1>1, <2>3 DEF CreateDevice, UpdateDevice, ruleTables
    <2>4. ASSUME NEW d \in Device, DeleteDevice(d)
          PROVE  config'[q].pin \in devices' \cup {None}
      <3>1. q \in rules /\ config[q].pin # d /\ config'[q] = config[q]
        BY <1>0, <2>4 DEF DeleteDevice
      <3> QED BY <2>4, <3>1 DEF DeleteDevice, PinsExist
    <2>5. CASE \/ \E r \in Rule, d \in Device : ConditionChange(r, d)
               \/ \E id \in 1..lastId : ResolveAlarm(id)
               \/ BrokerDown \/ BrokerUp
      BY <1>1, <2>5
      DEF ConditionChange, ResolveAlarm, BrokerDown, BrokerUp, tables, ruleTables, deviceTables
    <2> QED BY <1>2, <2>1, <2>2, <2>3, <2>4, <2>5 DEF Environment
  <1>3. CASE WorkerStep \/ Failure \/ Restart
    <2>1. UNCHANGED tables \/ UNCHANGED <<deviceTables, ruleTables>>
      BY <1>3 DEF WorkerStep, Failure, Connect, AfterConnect, ListRules, TakeRule, EndCycle, Target, Evaluate,
         EndRule, Lookup, Create, EvaluationRaises, Refresh, Dispatch, Reread, Resolve, Fault,
         LostCommit, FaultInList, Kill, GoDown, Restart
    <2> QED BY <1>1, <2>1 DEF tables, deviceTables, ruleTables
  <1>4. CASE UNCHANGED vars
    BY <1>1, <1>4 DEF vars, tables
  <1> QED BY <1>2, <1>3, <1>4 DEF Next

-----------------------------------------------------------------------------
(* What an undisturbed step leaves alone.                                  *)

Frozen == UNCHANGED <<devices, profile, rules, config, violating>>

\* Coverage and targets depend on the frozen tables only.
LEMMA FrozenTargets ==
  ASSUME Frozen
  PROVE  /\ \A j : TargetDevices(j)' = TargetDevices(j)
         /\ \A r, d : Covered(r, d)' <=> Covered(r, d)
         /\ \A j : Fresh(j)' <=> Fresh(j)
  BY DEF Frozen, TargetDevices, Covered, JobOf, Fresh

\* A step in a quiet cycle is the listing that begins one, or a step of the worker on
\* tables that but for `alarms` do not move.
LEMMA QuietStep ==
  ASSUME TypeOK, [Next]_vars, quiet', quiet => phase \in InRule \cup {"rule"}
  PROVE  \/ ListRules
         \/ UNCHANGED vars
         \/ /\ quiet
            /\ Frozen
            /\ \/ TakeRule \/ Target \/ Evaluate \/ EndRule \/ Lookup \/ Create
               \/ EvaluationRaises \/ Refresh \/ Dispatch \/ Reread \/ Resolve
  <1> USE DEF tables, deviceTables, ruleTables, budget, Frozen
  <1>1. ~Environment
    BY DEF Environment, CreateRule, UpdateRule, DeleteRule, CreateDevice, UpdateDevice,
       DeleteDevice, ConditionChange, ResolveAlarm, BrokerDown, BrokerUp, SpendOp
  <1>2. ~Failure
    BY DEF Failure, Fault, LostCommit, FaultInList, Kill, SpendFault
  <1>3. ~Restart /\ ~Connect /\ ~EndCycle
    BY DEF Restart, Connect, AfterConnect, EndCycle, InRule
  <1>4. CASE TakeRule \/ Target \/ Evaluate \/ EndRule \/ Lookup
    BY <1>4 DEF TakeRule, Target, Evaluate, EndRule, Lookup
  <1>5. CASE Create \/ EvaluationRaises \/ Refresh
    BY <1>5 DEF Create, EvaluationRaises, Refresh
  <1>6. CASE Dispatch \/ Reread \/ Resolve
    BY <1>6 DEF Dispatch, Reread, Resolve
  <1> QED BY <1>1, <1>2, <1>3, <1>4, <1>5, <1>6 DEF Next, WorkerStep

\* The pair in hand is one that could have an alarm: its rule and device are there.
LEMMA HandIsThere ==
  ASSUME TypeOK, PinsExist, JobsFresh, phase \in InHand
  PROVE  /\ job.rule \in rules /\ job.rule # None /\ dev \in devices
         /\ Covered(job.rule, dev)
  <1>1. Fresh(job) /\ dev \in TargetDevices(job)  BY DEF JobsFresh, InHand
  <1>2. job.rule \in rules /\ job = JobOf(job.rule)  BY <1>1 DEF Fresh
  <1>3. job.pin = config[job.rule].pin  BY <1>2 DEF JobOf
  <1>4. dev \in devices
    BY <1>1, <1>2, <1>3, NoneAssumption DEF TargetDevices, PinsExist
  <1>5. job.rule # None  BY <1>2, NoneAssumption DEF TypeOK
  <1> QED BY <1>1, <1>2, <1>4, <1>5 DEF Fresh, Covered

\* With one open alarm per rule and device no lookup is ambiguous.
LEMMA LookupsAnswer ==
  ASSUME OneActivePerRule, NEW d, NEW r, r # None
  PROVE  ~Ambiguous(ActiveFor(d, r))
  BY DEF OneActivePerRule, Ambiguous, ActiveFor

\* Nothing in a quiet cycle raises.
LEMMA NothingRaises ==
  ASSUME IInv, PinsExist, JobsFresh, PairKnown
  PROVE  /\ ~EvaluationRaises
         /\ Refresh => phase' = "dispatch" /\ UNCHANGED position
  <1>0. TypeOK /\ OneActivePerRule  BY DEF IInv
  <1>1. ~EvaluationRaises
    <2> SUFFICES ASSUME Raises PROVE FALSE  BY DEF EvaluationRaises
    <2>1. phase \in InHand  BY DEF Raises, InHand, InRule
    <2>2. job.rule \in rules /\ job.rule # None /\ dev \in devices
      BY <1>0, <2>1, HandIsThere
    <2> QED BY <1>0, <2>2, LookupsAnswer DEF Raises, Insertable
  <1>2. Refresh => phase' = "dispatch" /\ UNCHANGED position
    <2>1. phase = "refresh" => found \in alarms  BY DEF PairKnown, ActiveFor
    <2> QED BY <2>1 DEF Refresh
  <1> QED BY <1>1, <1>2

-----------------------------------------------------------------------------
(* What an INSERT and an UPDATE by id do to the open alarms of a pair.     *)

LEMMA InsertedFor ==
  ASSUME TypeOK, phase = "create", InsertAlarm, NEW d, NEW r
  PROVE  ActiveFor(d, r)' =
           IF d = dev /\ r = job.rule THEN ActiveFor(d, r) \cup {NewAlarm} ELSE ActiveFor(d, r)
  <1>1. NewAlarm.active /\ NewAlarm.device = dev /\ NewAlarm.rule = job.rule
    BY InsertedRow
  <1>2. alarms' = alarms \cup {NewAlarm}  BY DEF InsertAlarm
  <1> QED BY <1>1, <1>2 DEF ActiveFor

\* A row with another id stays as it is.
LEMMA ClosedKeepsOthers ==
  ASSUME NEW rows \in SUBSET Alarm, NEW id, NEW a \in rows, a.id # id
  PROVE  a \in Closed(id, rows)
  <1> DEFINE Shut(x) == [x EXCEPT !.active = x.active /\ x.id # id]
  <1>1. a.active \in BOOLEAN  BY DEF Alarm
  <1>2. (a.active /\ a.id # id) = a.active  BY <1>1
  <1>3. Shut(a) = a  BY <1>2 DEF Alarm
  <1>4. Closed(id, rows) = {Shut(x) : x \in rows}  BY DEF Closed
  <1> HIDE DEF Shut
  <1> QED BY <1>3, <1>4

LEMMA ClosedFor ==
  ASSUME TypeOK, NEW id, alarms' = Closed(id, alarms), NEW d, NEW r
  PROVE  ActiveFor(d, r)' = {a \in ActiveFor(d, r) : a.id # id}
  <1>0. alarms \in SUBSET Alarm  BY DEF TypeOK
  <1>1. ASSUME NEW b \in ActiveFor(d, r)'
        PROVE  b \in {a \in ActiveFor(d, r) : a.id # id}
    <2>0. b \in Closed(id, alarms)  BY <1>1 DEF ActiveFor
    <2>1. b.active /\ b.device = d /\ b.rule = r  BY <1>1 DEF ActiveFor
    <2>2. PICK a \in alarms : /\ b.id = a.id /\ b.device = a.device /\ b.rule = a.rule
                              /\ b.active = (a.active /\ a.id # id)
                              /\ ~a.active \/ a.id # id => b = a
      BY <1>0, <2>0, ClosedRows
    <2>3. b = a /\ a.id # id  BY <2>1, <2>2
    <2> QED BY <2>1, <2>3 DEF ActiveFor
  <1>2. ASSUME NEW a \in ActiveFor(d, r), a.id # id
        PROVE  a \in ActiveFor(d, r)'
    BY <1>0, <1>2, ClosedKeepsOthers DEF ActiveFor
  <1> QED BY <1>1, <1>2

-----------------------------------------------------------------------------
(* Each part of the invariant is kept.                                     *)

\* A listing makes fresh copies, and is through with nothing it covers.
LEMMA ListingStarts ==
  ASSUME TypeOK, ListRules
  PROVE  JobsFresh' /\ PairKnown' /\ DoneExact'
  <1> USE DEF tables
  <1>1. /\ Frozen /\ phase' = "rule"
        /\ todo' = {JobOf(r) : r \in {q \in rules : config[q].enabled}}
    BY DEF ListRules, Frozen
  <1>2. JobsFresh'
    <2>1. \A j \in todo' : Fresh(j)  BY <1>1 DEF Fresh, JobOf
    <2>2. \A j \in todo' : Fresh(j)'  BY <1>1, <2>1, FrozenTargets
    <2> QED BY <1>1, <2>2 DEF JobsFresh, InRule, InHand
  <1>3. PairKnown'  BY <1>1 DEF PairKnown, InHand, InRule
  <1>4. DoneExact'
    <2>1. ASSUME NEW r \in Rule, NEW d \in Device, Covered(r, d)' PROVE ~Through(r, d)'
      <3>1. Covered(r, d)  BY <1>1, <2>1, FrozenTargets
      <3>2. JobOf(r) \in todo' /\ JobOf(r).rule = r  BY <1>1, <3>1 DEF Covered, JobOf
      <3> QED BY <3>2 DEF Through
    <2> QED BY <2>1 DEF DoneExact
  <1> QED BY <1>2, <1>3, <1>4

LEMMA JobsStep ==
  ASSUME IInv, PinsExist, JobsFresh, PairKnown, Frozen,
         \/ TakeRule \/ Target \/ Evaluate \/ EndRule \/ Lookup \/ Create
         \/ EvaluationRaises \/ Refresh \/ Dispatch \/ Reread \/ Resolve
  PROVE  JobsFresh'
  <1> USE DEF InRule, InHand
  <1>0. TypeOK  BY DEF IInv
  <1>1. SUFFICES /\ phase' \in InRule \cup {"rule"}
                 /\ \A j \in todo' : Fresh(j)
                 /\ phase' \in InRule => Fresh(job')
                 /\ phase' \in InRule \ {"target"} => targets' \subseteq TargetDevices(job')
                 /\ phase' \in InHand => dev' \in TargetDevices(job')
    BY <1>1, FrozenTargets DEF JobsFresh
  <1>2. CASE TakeRule  BY <1>2 DEF TakeRule, JobsFresh
  <1>3. CASE Target  BY <1>3 DEF Target, JobsFresh
  <1>4. CASE Evaluate  BY <1>4 DEF Evaluate, JobsFresh
  <1>5. CASE EndRule  BY <1>5 DEF EndRule, RuleDone, Leave, JobsFresh
  <1>6. CASE Lookup  BY <1>6 DEF Lookup, Leave, JobsFresh
  <1>7. CASE Create  BY <1>7 DEF Create, JobsFresh
  <1>8. CASE EvaluationRaises \/ Refresh
    <2>1. Refresh /\ phase' = "dispatch" /\ UNCHANGED position  BY <1>8, NothingRaises
    <2> QED BY <2>1 DEF Refresh, position, JobsFresh
  <1>9. CASE Dispatch \/ Resolve  BY <1>9 DEF Dispatch, Resolve, Leave, JobsFresh
  <1>10. CASE Reread  BY <1>10 DEF Reread, Leave, JobsFresh
  <1> QED BY <1>2, <1>3, <1>4, <1>5, <1>6, <1>7, <1>8, <1>9, <1>10

LEMMA PairStep ==
  ASSUME IInv, PinsExist, JobsFresh, PairKnown, Frozen,
         \/ TakeRule \/ Target \/ Evaluate \/ EndRule \/ Lookup \/ Create
         \/ EvaluationRaises \/ Refresh \/ Dispatch \/ Reread \/ Resolve
  PROVE  PairKnown'
  <1> USE DEF InRule, InHand, tables
  <1>0. TypeOK  BY DEF IInv
  <1>1. CASE TakeRule \/ Target \/ EndRule \/ Dispatch \/ Resolve
    <2>1. phase' \in {"target", "device", "rule"}
      BY <1>1 DEF TakeRule, Target, EndRule, RuleDone, Dispatch, Resolve, Leave
    <2> QED BY <2>1 DEF PairKnown
  <1>2. CASE Evaluate
    <2>1. /\ phase' = "lookup" /\ job' = job /\ violating' = violating
          /\ triggered' = (<<job.rule, dev'>> \in violating)
      BY <1>2 DEF Evaluate
    <2> QED BY <2>1 DEF PairKnown
  <1>3. CASE Lookup
    <2>1. /\ phase = "lookup"
          /\ \/ /\ phase' = "device"
             \/ /\ phase' = "create" /\ triggered
                /\ UNCHANGED <<dev, triggered, job, violating>>
             \/ /\ phase' = "reread"
                /\ UNCHANGED <<dev, triggered, job, violating>>
      BY <1>3 DEF Lookup, Leave, Fires
    <2> QED BY <2>1 DEF PairKnown
  <1>4. CASE Create
    <2>1. /\ phase = "create" /\ phase' = "refresh" /\ InsertAlarm /\ found' = NewAlarm
          /\ UNCHANGED <<dev, triggered, job, violating>>
      BY <1>4 DEF Create
    <2>2. NewAlarm.active /\ NewAlarm.device = dev /\ NewAlarm.rule = job.rule
      BY <1>0, <2>1, InsertedRow
    <2>3. found' \in alarms'  BY <2>1 DEF InsertAlarm
    <2>4. found' \in ActiveFor(dev, job.rule)'  BY <2>1, <2>2, <2>3 DEF ActiveFor
    <2> QED BY <2>1, <2>4 DEF PairKnown
  <1>5. CASE EvaluationRaises \/ Refresh
    <2>1. Refresh /\ phase' = "dispatch" /\ UNCHANGED position  BY <1>5, NothingRaises
    <2>2. /\ phase = "refresh" /\ alarms' = alarms /\ violating' = violating
          /\ UNCHANGED <<dev, triggered, job, found>>
      BY <2>1 DEF Refresh, position
    <2> QED BY <2>1, <2>2 DEF PairKnown, ActiveFor
  <1>6. CASE Reread
    <2>1. CASE phase' = "device"  BY <2>1 DEF PairKnown
    <2>2. CASE phase' = "resolve"
      <3>1. /\ phase = "reread" /\ ActiveFor(dev, job.rule) # {}
            /\ found' = OneOrNone(ActiveFor(dev, job.rule))
            /\ UNCHANGED <<dev, triggered, job, violating, alarms>>
        BY <1>6, <2>2 DEF Reread, Leave
      <3>2. ActiveFor(dev, job.rule) \in SUBSET Alarm  BY <1>0 DEF ActiveFor, TypeOK
      <3>3. found' \in ActiveFor(dev, job.rule)  BY <3>1, <3>2, OneOrNoneRow
      <3> QED BY <2>2, <3>1, <3>3 DEF PairKnown, ActiveFor
    <2> QED BY <1>6, <2>1, <2>2 DEF Reread, Leave
  <1> QED BY <1>1, <1>2, <1>3, <1>4, <1>5, <1>6

\* A step that ends no pair and leaves `alarms` alone.
LEMMA SamePairs ==
  ASSUME DoneExact, Frozen, UNCHANGED alarms,
         \A r \in Rule, d \in Device : Covered(r, d) /\ Through(r, d)' => Through(r, d)
  PROVE  DoneExact'
  <1> SUFFICES ASSUME NEW r \in Rule, NEW d \in Device, Covered(r, d)', Through(r, d)'
               PROVE  Exact(r, d)'
    BY DEF DoneExact
  <1>1. Covered(r, d)  BY FrozenTargets
  <1>2. Exact(r, d)  BY <1>1 DEF DoneExact
  <1> QED BY <1>2 DEF Exact, ActiveFor, Frozen

\* A step from the pair in hand to the next device, which leaves that pair exact and
\* the open alarms of any other as they are.
LEMMA EndOfPair ==
  ASSUME DoneExact, JobsFresh, Frozen, phase \in InHand, phase' = "device",
         UNCHANGED <<todo, job, targets>>,
         \A r \in Rule, d \in Device :
           IF r = job.rule /\ d = dev
           THEN ActiveFor(d, r)' # {} <=> <<r, d>> \in violating
           ELSE ActiveFor(d, r)' # {} <=> ActiveFor(d, r) # {}
  PROVE  DoneExact'
  <1> SUFFICES ASSUME NEW r \in Rule, NEW d \in Device, Covered(r, d)', Through(r, d)'
               PROVE  ActiveFor(d, r)' # {} <=> <<r, d>> \in violating
    BY DEF DoneExact, Exact, Frozen
  <1>1. CASE r = job.rule /\ d = dev  BY <1>1
  <1>2. CASE ~(r = job.rule /\ d = dev)
    <2>1. Covered(r, d)  BY FrozenTargets
    <2>2. Through(r, d)  BY <1>2 DEF Through, InHand, InRule
    <2>3. Exact(r, d)  BY <2>1, <2>2 DEF DoneExact
    <2> QED BY <1>2, <2>3 DEF Exact
  <1> QED BY <1>1, <1>2

LEMMA DoneStep ==
  ASSUME IInv, PinsExist, JobsFresh, PairKnown, DoneExact, Frozen,
         \/ TakeRule \/ Target \/ Evaluate \/ EndRule \/ Lookup \/ Create
         \/ EvaluationRaises \/ Refresh \/ Dispatch \/ Reread \/ Resolve
  PROVE  DoneExact'
  <1> USE DEF InRule, InHand, tables
  <1>0. /\ TypeOK /\ UniqueIds /\ LookupHolds /\ RereadIsClear /\ OneActivePerRule
        /\ ResolveIsOwn
    BY DEF IInv
  <1>1. CASE TakeRule
    <2>1. PICK j \in todo : job' = j /\ todo' = todo \ {j}  BY <1>1 DEF TakeRule
    <2>2. phase = "rule" /\ phase' = "target" /\ UNCHANGED alarms  BY <1>1 DEF TakeRule
    <2>3. ASSUME NEW r \in Rule, NEW d \in Device, Through(r, d)' PROVE Through(r, d)
      <3>1. job'.rule # r  BY <2>2, <2>3 DEF Through
      <3>2. \A i \in todo : i.rule # r  BY <2>1, <2>3, <3>1 DEF Through
      <3> QED BY <2>2, <3>2 DEF Through
    <2> QED BY <2>2, <2>3, SamePairs
  <1>2. CASE Target
    <2>1. /\ phase = "target" /\ phase' = "device" /\ targets' = TargetDevices(job)
          /\ UNCHANGED <<todo, job, alarms>>
      BY <1>2 DEF Target
    <2>2. ASSUME NEW r \in Rule, NEW d \in Device, Covered(r, d), Through(r, d)'
          PROVE  Through(r, d)
      <3>1. job = JobOf(job.rule)  BY <2>1 DEF JobsFresh, Fresh
      <3>2. job.rule # r  BY <2>1, <2>2, <3>1 DEF Through, Covered
      <3> QED BY <2>1, <2>2, <3>2 DEF Through
    <2> QED BY <2>1, <2>2, SamePairs
  <1>3. CASE Evaluate
    <2>1. PICK d0 \in targets : dev' = d0 /\ targets' = targets \ {d0}  BY <1>3 DEF Evaluate
    <2>2. /\ phase = "device" /\ phase' = "lookup" /\ UNCHANGED <<todo, job, alarms>>
      BY <1>3 DEF Evaluate
    <2>3. ASSUME NEW r \in Rule, NEW d \in Device, Through(r, d)' PROVE Through(r, d)
      BY <2>1, <2>2, <2>3 DEF Through
    <2> QED BY <2>2, <2>3, SamePairs
  <1>4. CASE EndRule
    <2>1. /\ phase = "device" /\ targets = {} /\ phase' = "rule" /\ UNCHANGED <<todo, alarms>>
      BY <1>4 DEF EndRule, RuleDone, Leave
    <2>2. ASSUME NEW r \in Rule, NEW d \in Device, Through(r, d)' PROVE Through(r, d)
      BY <2>1, <2>2 DEF Through
    <2> QED BY <2>1, <2>2, SamePairs
  <1>5. CASE Lookup
    <2>0. UNCHANGED <<alarms, todo, job, targets>>  BY <1>5 DEF Lookup
    <2>1. CASE phase' \in {"create", "reread"}
      <3>1. phase = "lookup" /\ UNCHANGED dev  BY <1>5, <2>1 DEF Lookup, Leave
      <3>2. ASSUME NEW r \in Rule, NEW d \in Device, Through(r, d)' PROVE Through(r, d)
        BY <2>0, <2>1, <3>1, <3>2 DEF Through
      <3> QED BY <2>0, <3>2, SamePairs
    <2>2. CASE phase' = "device"
      <3>1. phase = "lookup" /\ triggered /\ OneOrNone(ActiveFor(dev, job.rule)) # NoAlarm
        BY <1>5, <2>2 DEF Lookup, Fires
      <3>2. ActiveFor(dev, job.rule) # {}  BY <3>1 DEF OneOrNone
      <3>3. <<job.rule, dev>> \in violating  BY <3>1 DEF PairKnown
      <3>4. \A r \in Rule, d \in Device : ActiveFor(d, r)' = ActiveFor(d, r)
        BY <2>0 DEF ActiveFor
      <3> QED BY <2>0, <2>2, <3>1, <3>2, <3>3, <3>4, EndOfPair
    <2> QED BY <1>5, <2>1, <2>2 DEF Lookup, Leave
  <1>6. CASE Create
    <2>1. /\ phase = "create" /\ phase' = "refresh" /\ InsertAlarm
          /\ UNCHANGED <<todo, job, targets, dev>>
      BY <1>6 DEF Create
    <2> SUFFICES ASSUME NEW r \in Rule, NEW d \in Device, Covered(r, d)', Through(r, d)'
                 PROVE  Exact(r, d)'
      BY DEF DoneExact
    <2>2. Through(r, d) /\ ~(r = job.rule /\ d = dev)  BY <2>1 DEF Through
    <2>3. Exact(r, d)  BY <2>2, FrozenTargets DEF DoneExact
    <2>4. ActiveFor(d, r)' = ActiveFor(d, r)  BY <1>0, <2>1, <2>2, InsertedFor
    <2> QED BY <2>3, <2>4 DEF Exact, Frozen
  <1>7. CASE EvaluationRaises \/ Refresh
    <2>1. Refresh /\ phase' = "dispatch" /\ UNCHANGED position  BY <1>7, NothingRaises
    <2>2. phase = "refresh" /\ UNCHANGED <<todo, job, targets, dev, alarms>>
      BY <2>1 DEF Refresh, position
    <2>3. ASSUME NEW r \in Rule, NEW d \in Device, Through(r, d)' PROVE Through(r, d)
      BY <2>1, <2>2, <2>3 DEF Through
    <2> QED BY <2>2, <2>3, SamePairs
  <1>8. CASE Dispatch
    <2>1. /\ phase = "dispatch" /\ phase' = "device" /\ UNCHANGED <<todo, job, targets, alarms>>
      BY <1>8 DEF Dispatch, Leave
    <2>2. ActiveFor(dev, job.rule) # {} /\ <<job.rule, dev>> \in violating
      BY <2>1 DEF PairKnown
    <2>3. \A r \in Rule, d \in Device : ActiveFor(d, r)' = ActiveFor(d, r)
      BY <2>1 DEF ActiveFor
    <2> QED BY <2>1, <2>2, <2>3, EndOfPair
  <1>9. CASE Reread
    <2>0. phase = "reread" /\ UNCHANGED <<alarms, todo, job, targets>>  BY <1>9 DEF Reread
    <2>1. CASE phase' = "resolve"
      <3>1. UNCHANGED dev  BY <1>9, <2>1 DEF Reread, Leave
      <3>2. ASSUME NEW r \in Rule, NEW d \in Device, Through(r, d)' PROVE Through(r, d)
        BY <2>0, <2>1, <3>1, <3>2 DEF Through
      <3> QED BY <2>0, <3>2, SamePairs
    <2>2. CASE phase' = "device"
      <3>1. ActiveFor(dev, job.rule) = {}  BY <1>9, <2>2 DEF Reread
      <3>2. <<job.rule, dev>> \notin violating  BY <1>0, <2>0 DEF RereadIsClear, PairKnown
      <3>3. \A r \in Rule, d \in Device : ActiveFor(d, r)' = ActiveFor(d, r)
        BY <2>0 DEF ActiveFor
      <3> QED BY <2>0, <2>2, <3>1, <3>2, <3>3, EndOfPair
    <2> QED BY <1>9, <2>1, <2>2 DEF Reread, Leave
  <1>10. CASE Resolve
    <2>1. /\ phase = "resolve" /\ phase' = "device" /\ UNCHANGED <<todo, job, targets>>
          /\ alarms' = Closed(found.id, alarms)
      BY <1>10 DEF Resolve, Leave, CloseFound
    <2>2. found \in alarms /\ found.device = dev /\ found.rule = job.rule
      BY <2>1 DEF PairKnown, ActiveFor
    <2>3. <<job.rule, dev>> \notin violating  BY <1>0, <2>1 DEF ResolveIsOwn, PairKnown
    <2>4. job.rule # None  BY <1>0, <2>1, HandIsThere
    <2>5. ASSUME NEW r \in Rule, NEW d \in Device
          PROVE  ActiveFor(d, r)' = {a \in ActiveFor(d, r) : a.id # found.id}
      <3>1. PICK id : id = found.id  OBVIOUS
      <3>2. alarms' = Closed(id, alarms)  BY <2>1, <3>1
      <3> QED BY <1>0, <3>1, <3>2, ClosedFor
    <2>6. ASSUME NEW r \in Rule, NEW d \in Device, r = job.rule, d = dev
          PROVE  ActiveFor(d, r)' = {}
      <3>1. found \in ActiveFor(d, r)  BY <2>1, <2>6 DEF PairKnown
      <3>2. \A a \in ActiveFor(d, r) : a = found
        BY <1>0, <2>4, <2>6, <3>1 DEF OneActivePerRule, ActiveFor
      <3> QED BY <2>5, <3>2
    <2>7. ASSUME NEW r \in Rule, NEW d \in Device, ~(r = job.rule /\ d = dev)
          PROVE  ActiveFor(d, r)' = ActiveFor(d, r)
      <3>1. \A a \in ActiveFor(d, r) : a \in alarms /\ a # found
        BY <2>2, <2>7 DEF ActiveFor
      <3>2. \A a \in ActiveFor(d, r) : a.id # found.id
        BY <1>0, <2>2, <3>1 DEF UniqueIds
      <3> QED BY <2>5, <3>2
    <2> QED BY <2>1, <2>3, <2>6, <2>7, EndOfPair
  <1> QED BY <1>1, <1>2, <1>3, <1>4, <1>5, <1>6, <1>7, <1>8, <1>9, <1>10

LEMMA UndisturbedStep == IInv /\ CycleInv /\ [Next]_vars => CycleInv'
  <1> SUFFICES ASSUME IInv, CycleInv, [Next]_vars PROVE CycleInv'  OBVIOUS
  <1>0. TypeOK /\ PinsExist /\ PinsExist'  BY PinsStep DEF IInv, CycleInv
  <1>1. SUFFICES ASSUME quiet' PROVE JobsFresh' /\ PairKnown' /\ DoneExact'
    BY <1>0, <1>1 DEF CycleInv
  <1>2. quiet => JobsFresh /\ PairKnown /\ DoneExact  BY DEF CycleInv
  <1>3. CASE ListRules  BY <1>0, <1>3, ListingStarts
  <1>4. CASE UNCHANGED vars
    <2>1. quiet  BY <1>1, <1>4 DEF vars, budget
    <2> USE <1>4 DEF vars, tables, position
    <2>2. Frozen  BY DEF Frozen
    <2>3. JobsFresh'
      <3>1. JobsFresh  BY <1>2, <2>1
      <3> QED BY <2>2, <3>1, FrozenTargets DEF JobsFresh
    <2>4. PairKnown'  BY <1>2, <2>1 DEF PairKnown, ActiveFor
    <2>5. DoneExact'
      <3>1. \A r \in Rule, d \in Device : Through(r, d)' => Through(r, d)  BY DEF Through
      <3> QED BY <1>2, <2>1, <2>2, <3>1, SamePairs
    <2> QED BY <2>3, <2>4, <2>5
  <1>5. ASSUME quiet, Frozen,
               \/ TakeRule \/ Target \/ Evaluate \/ EndRule \/ Lookup \/ Create
               \/ EvaluationRaises \/ Refresh \/ Dispatch \/ Reread \/ Resolve
        PROVE  JobsFresh' /\ PairKnown' /\ DoneExact'
    BY <1>0, <1>2, <1>5, JobsStep, PairStep, DoneStep
  <1>6. quiet => phase \in InRule \cup {"rule"}  BY <1>2 DEF JobsFresh
  <1> QED BY <1>0, <1>1, <1>3, <1>4, <1>5, <1>6, QuietStep

\* With any number of devices, groups and rules, and whatever rows, pins and open alarms
\* the cycle met: if nobody changes anything and no statement fails from the listing of
\* the rules on, every rule it is through with has an open alarm on exactly those of its
\* devices where its condition holds.
THEOREM ExactCycles == Spec => []CycleIsExact
  <1>1. Init => CycleInv  BY PinsInit DEF Init, CycleInv
  <1>2. IInv /\ CycleInv /\ [Next]_vars => CycleInv'  BY UndisturbedStep
  <1>3. CycleInv => CycleIsExact
    <2> SUFFICES ASSUME CycleInv, quiet, phase = "rule", NEW r \in Rule, NEW d \in Device,
                        Covered(r, d), \A j \in todo : j.rule # r
                 PROVE  Exact(r, d)
      BY DEF CycleIsExact
    <2>1. Through(r, d)  BY DEF Through, InRule
    <2> QED BY <2>1 DEF CycleInv, DoneExact
  <1> QED BY <1>1, <1>2, <1>3, Inductive, PTL DEF Spec

=============================================================================
