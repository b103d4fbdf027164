--------------------------- MODULE PresenceProofs ---------------------------
(***************************************************************************)
(* Proofs about Presence, for every set of devices and rules, every delay, *)
(* interval, window and bound.                                             *)
(***************************************************************************)
EXTENDS Presence, FiniteSetTheorems, TLAPS

\* A tick older, and still of its type; an age never passes the horizon.
LEMMA LaterAge ==
  ASSUME NEW a \in Age
  PROVE  Later(a) \in Age /\ Later(a) >= a /\ Later(a) <= a + 1 /\ (a < Horizon => Later(a) = a + 1)
  BY TimesAssumption DEF Later, Age

LEMMA OlderRow ==
  ASSUME NEW r \in StatusRow \cup {None}
  PROVE  /\ Older(r) \in StatusRow \cup {None}
         /\ r = None <=> Older(r) = None
         /\ r # None => Older(r).status = r.status /\ Older(r).age = Later(r.age)
  <1>1. CASE r = None  BY <1>1 DEF Older
  <1>2. CASE r # None
    <2>1. r \in StatusRow /\ Later(r.age) \in Age
      BY <1>2, LaterAge DEF StatusRow
    <2>2. Older(r) = [r EXCEPT !.age = Later(r.age)]  BY <1>2 DEF Older
    <2>3. /\ Older(r) \in StatusRow
          /\ Older(r).status = r.status /\ Older(r).age = Later(r.age)
      BY <2>1, <2>2 DEF StatusRow
    <2> QED BY <1>2, <2>3, NoneAssumption
  <1> QED BY <1>1, <1>2

LEMMA OlderReading ==
  ASSUME NEW r \in ReadingRow \cup {None}
  PROVE  /\ Older(r) \in ReadingRow \cup {None}
         /\ r = None <=> Older(r) = None
         /\ r # None => Older(r).value = r.value /\ Older(r).age = Later(r.age)
  <1>1. CASE r = None  BY <1>1 DEF Older
  <1>2. CASE r # None
    <2>1. r \in ReadingRow /\ Later(r.age) \in Age
      BY <1>2, LaterAge DEF ReadingRow
    <2>2. Older(r) = [r EXCEPT !.age = Later(r.age)]  BY <1>2 DEF Older
    <2>3. /\ Older(r) \in ReadingRow
          /\ Older(r).value = r.value /\ Older(r).age = Later(r.age)
      BY <2>1, <2>2 DEF ReadingRow
    <2> QED BY <1>2, <2>3, NoneAssumption
  <1> QED BY <1>1, <1>2

\* The queue of statuses: what is put last is last, what is taken is first.
LEMMA QueueAppend ==
  ASSUME NEW q \in Seq(Status), NEW s \in Status
  PROVE  /\ Append(q, s) \in Seq(Status) /\ Append(q, s) # << >>
         /\ Append(q, s)[Len(Append(q, s))] = s
  OBVIOUS

LEMMA QueueTail ==
  ASSUME NEW q \in Seq(Status), q # << >>
  PROVE  /\ Head(q) \in Status /\ Tail(q) \in Seq(Status)
         /\ Tail(q) = << >> => Head(q) = q[Len(q)]
         /\ Tail(q) # << >> => Tail(q)[Len(Tail(q))] = q[Len(q)]
  <1>1. Head(q) \in Status /\ Tail(q) \in Seq(Status) /\ Len(Tail(q)) = Len(q) - 1
    OBVIOUS
  <1>2. Len(q) \in Nat /\ Len(q) > 0 /\ Head(q) = q[1]
    OBVIOUS
  <1>3. ASSUME Tail(q) = << >> PROVE Head(q) = q[Len(q)]
    <2>1. Len(q) = 1  BY <1>1, <1>2, <1>3
    <2> QED BY <1>2, <2>1
  <1>4. ASSUME Tail(q) # << >> PROVE Tail(q)[Len(Tail(q))] = q[Len(q)]
    <2>1. Len(Tail(q)) > 0  BY <1>1, <1>4
    <2>2. \A i \in 1..Len(Tail(q)) : Tail(q)[i] = q[i + 1]  OBVIOUS
    <2> QED BY <1>1, <1>2, <2>1, <2>2
  <1> QED BY <1>1, <1>3, <1>4

\* A set of devices is counted within the fleet.
LEMMA Counted ==
  ASSUME NEW S \in SUBSET Device
  PROVE  IsFiniteSet(S) /\ Cardinality(S) \in Count
  BY DeviceAssumption, FS_Subset, FS_CardinalityType DEF Count

LEMMA Timed ==
  /\ MinDelay \in Nat /\ MinDelay >= 1 /\ MaxDelay \in Nat /\ MinDelay <= MaxDelay
  /\ Interval \in Nat /\ Interval >= 1 /\ Window \in Nat
  /\ Horizon \in Nat /\ Horizon >= 2 * MaxDelay /\ Horizon > Window
  /\ DefaultTimeout \in Nat /\ Window <= DefaultTimeout
  /\ MaxOps \in Nat /\ MaxFaults \in Nat
  BY TimesAssumption, WindowAssumption, BoundsAssumption, DefaultAssumption

-----------------------------------------------------------------------------
(* Type correctness, one group of variables at a time.                     *)

ConnectionType ==
  /\ broker \in BOOLEAN
  /\ link \in Link
  /\ delay \in MinDelay..MaxDelay
  /\ wake \in 0..MaxDelay
  /\ away \in Age
  /\ lag \in Age

QueueType ==
  /\ running \subseteq Device
  /\ retained \in [Device -> Status \cup {None}]
  /\ inbox \in [Device -> Seq(Status)]
  /\ missed \subseteq Device
  /\ heard \in [Device -> Age]
  /\ since \in Age

StoreType ==
  /\ row \in [Device -> StatusRow \cup {None}]
  /\ reading \in [Device -> [Metrics -> ReadingRow \cup {None}]]

ReaderType ==
  /\ alarm \subseteq Rule \X Device
  /\ pause \in 0..Interval
  /\ active \subseteq Device
  /\ listed \in [Device -> Listing]
  /\ query \in [at : {"idle", "online", "done"}, active : Count, online : Count, calm : BOOLEAN]

BudgetType == ops \in 0..MaxOps /\ faults \in 0..MaxFaults

LEMMA TypeParts ==
  TypeOK <=> ConnectionType /\ QueueType /\ StoreType /\ ReaderType /\ BudgetType
  BY DEF TypeOK, ConnectionType, QueueType, StoreType, ReaderType, BudgetType

LEMMA InitType == Init => TypeOK
  <1> SUFFICES ASSUME Init PROVE TypeOK  OBVIOUS
  <1>1. 0 \in Age /\ 0 \in Count /\ Cardinality(Device) \in Nat
    BY Timed, DeviceAssumption, FS_CardinalityType DEF Age, Count
  <1>2. ConnectionType  BY <1>1, Timed DEF Init, ConnectionType, Link
  <1>3. QueueType  BY <1>1 DEF Init, QueueType
  <1>4. StoreType  BY DEF Init, StoreType
  <1>5. ReaderType  BY <1>1, Timed DEF Init, ReaderType, NoQuery, Listing
  <1>6. BudgetType  BY Timed DEF Init, BudgetType
  <1> QED BY <1>2, <1>3, <1>4, <1>5, <1>6, TypeParts

LEMMA BackoffType ==
  ASSUME ConnectionType
  PROVE  /\ NextDelay \in MinDelay..MaxDelay /\ NextDelay <= 2 * delay
         /\ delay \in 0..MaxDelay
         /\ DelayAfterConnect \in MinDelay..MaxDelay
  BY Timed DEF ConnectionType, NextDelay, DelayAfterConnect

LEMMA ConnectionTypeNext == TypeOK /\ [Next]_vars => ConnectionType'
  <1> SUFFICES ASSUME TypeOK, [Next]_vars PROVE ConnectionType'  OBVIOUS
  <1>0. ConnectionType /\ 0 \in Age /\ Later(away) \in Age /\ Later(lag) \in Age
    BY TypeParts, LaterAge, Timed DEF ConnectionType, Age
  <1>1. CASE DeviceStep
    BY <1>0, <1>1 DEF DeviceStep, Start, Stop, Crash, Report, ConnectionType, connection, outage
  <1>2. CASE WorkerStep
    <2>1. CASE Connect
      BY <1>0, <2>1, BackoffType DEF Connect, Backoff, ConnectionType, Link
    <2>2. CASE Subscribe
      BY <1>0, <2>2 DEF Subscribe, ConnectionType, Link
    <2>3. ASSUME NEW d \in Device, HandleStatus(d) PROVE ConnectionType'
      BY <1>0, <2>3 DEF HandleStatus, ConnectionType, connection, outage
    <2> QED BY <1>2, <2>1, <2>2, <2>3 DEF WorkerStep
  <1>3. CASE Operator
    BY <1>0, <1>3 DEF Operator, CountActive, CountOnline, SetActive, ConnectionType, connection, outage
  <1>4. CASE Failure
    <2>1. ASSUME Lose PROVE link' \in Link /\ delay' \in MinDelay..MaxDelay /\ wake' \in 0..MaxDelay
      BY <1>0, <2>1, BackoffType DEF Lose, Backoff, ConnectionType, Link, connection
    <2>2. CASE BrokerDown \/ Drop
      BY <1>0, <2>1, <2>2 DEF BrokerDown, Drop, ConnectionType, outage
    <2>3. CASE Kill
      BY <1>0, <2>3, Timed DEF Kill, ConnectionType, Link
    <2>4. ASSUME NEW d \in Device, DeadLetterStatus(d) PROVE ConnectionType'
      BY <1>0, <2>4 DEF DeadLetterStatus, ConnectionType, connection, outage
    <2> QED BY <1>4, <2>2, <2>3, <2>4 DEF Failure
  <1>5. CASE BrokerUp \/ Cycle \/ UNCHANGED vars
    BY <1>0, <1>5 DEF BrokerUp, Cycle, ConnectionType, connection, outage, vars
  <1>6. CASE Restart
    BY <1>0, <1>6, Timed DEF Restart, ConnectionType, Link, outage
  <1>7. CASE Tick
    <2>1. link' \in Link  BY <1>0, <1>7 DEF Tick, Woken, ConnectionType, Link
    <2>2. wake' \in 0..MaxDelay  BY <1>0, <1>7, Timed DEF Tick, ConnectionType
    <2> QED BY <1>0, <1>7, <2>1, <2>2 DEF Tick, ConnectionType
  <1> QED BY <1>1, <1>2, <1>3, <1>4, <1>5, <1>6, <1>7 DEF Next

\* What a publish, a loss and a taken status do to the broker's side.
LEMMA PublishType ==
  ASSUME QueueType, NEW d \in Device, NEW status \in Status, Publish(d, status)
  PROVE  /\ retained' \in [Device -> Status \cup {None}]
         /\ inbox' \in [Device -> Seq(Status)]
         /\ heard' \in [Device -> Age]
  <1>1. Append(inbox[d], status) \in Seq(Status)  BY QueueAppend DEF QueueType
  <1>2. inbox' \in [Device -> Seq(Status)]
    BY <1>1 DEF Publish, SentOn, QueueType
  <1>3. 0 \in Age  BY Timed DEF Age
  <1>4. retained' = [retained EXCEPT ![d] = status] /\ heard' = [heard EXCEPT ![d] = 0]
    BY DEF Publish, Retain
  <1> QED BY <1>2, <1>3, <1>4 DEF QueueType

LEMMA TakenType ==
  ASSUME QueueType, NEW d \in Device, inbox[d] # << >>
  PROVE  Taken(d) \in [Device -> Seq(Status)] /\ Head(inbox[d]) \in Status
  BY QueueTail DEF QueueType, Taken

LEMMA QueueTypeNext == TypeOK /\ [Next]_vars => QueueType'
  <1> SUFFICES ASSUME TypeOK, [Next]_vars PROVE QueueType'  OBVIOUS
  <1>0. QueueType /\ 0 \in Age /\ Later(since) \in Age
    BY TypeParts, LaterAge, Timed DEF QueueType, Age
  <1>1. ASSUME NEW d \in Device, Start(d) PROVE QueueType'
    BY <1>0, <1>1, PublishType DEF Start, QueueType, Status
  <1>2. ASSUME NEW d \in Device, Stop(d) PROVE QueueType'
    <2>1. CASE Publish(d, "offline")
      BY <1>0, <1>2, <2>1, PublishType DEF Stop, QueueType, Status
    <2>2. CASE UNCHANGED <<retained, inbox, heard>>
      BY <1>0, <1>2, <2>2 DEF Stop, QueueType
    <2> QED BY <1>2, <2>1, <2>2 DEF Stop
  <1>3. ASSUME NEW d \in Device, Crash(d) PROVE QueueType'
    BY <1>0, <1>3 DEF Crash, QueueType, history
  <1>4. ASSUME NEW d \in Device, NEW m \in Metrics, NEW v \in Level, Report(d, m, v) PROVE QueueType'
    BY <1>0, <1>4 DEF Report, QueueType, history
  <1>5. CASE Connect
    BY <1>0, <1>5 DEF Connect, QueueType, history
  <1>6. CASE Subscribe
    <2>1. inbox' \in [Device -> Seq(Status)]
      BY <1>0, <1>6 DEF Subscribe, Replayed, QueueType
    <2> QED BY <1>0, <1>6, <2>1 DEF Subscribe, QueueType
  <1>7. ASSUME NEW d \in Device, HandleStatus(d) \/ DeadLetterStatus(d) PROVE QueueType'
    <2>1. inbox' \in [Device -> Seq(Status)]
      BY <1>0, <1>7, TakenType DEF HandleStatus, DeadLetterStatus, Waiting
    <2> QED BY <1>0, <1>7, <2>1 DEF HandleStatus, DeadLetterStatus, QueueType
  <1>8. CASE Operator
    BY <1>0, <1>8 DEF Operator, CountActive, CountOnline, SetActive, QueueType, history
  <1>9. CASE BrokerDown \/ Drop \/ Kill
    <2>1. inbox' \in {inbox, [d \in Device |-> << >>]}
      BY <1>9 DEF BrokerDown, Drop, Kill, Lose
    <2>2. << >> \in Seq(Status)  OBVIOUS
    <2>3. inbox' \in [Device -> Seq(Status)]
      BY <1>0, <2>1, <2>2 DEF QueueType
    <2> QED BY <1>0, <1>9, <2>3 DEF BrokerDown, Drop, Kill, QueueType, history
  <1>10. CASE BrokerUp \/ Restart \/ Cycle \/ UNCHANGED vars
    BY <1>0, <1>10 DEF BrokerUp, Restart, Cycle, QueueType, history, vars
  <1>11. CASE Tick
    <2>1. heard' \in [Device -> Age]  BY <1>0, <1>11, LaterAge DEF Tick, QueueType
    <2> QED BY <1>0, <1>11, <2>1 DEF Tick, QueueType
  <1> QED BY <1>1, <1>2, <1>3, <1>4, <1>5, <1>6, <1>7, <1>8, <1>9, <1>10, <1>11
          DEF Next, DeviceStep, WorkerStep, Failure

LEMMA StoreTypeNext == TypeOK /\ [Next]_vars => StoreType'
  <1> SUFFICES ASSUME TypeOK, [Next]_vars PROVE StoreType'  OBVIOUS
  <1>0. StoreType /\ QueueType /\ 0 \in Age  BY TypeParts, Timed DEF Age
  <1>1. ASSUME NEW d \in Device, NEW m \in Metrics, NEW v \in Level, Report(d, m, v) PROVE StoreType'
    <2>1. [value |-> v, age |-> 0] \in ReadingRow  BY <1>0 DEF ReadingRow
    <2> QED BY <1>0, <1>1, <2>1 DEF Report, StoreType
  <1>2. ASSUME NEW d \in Device, HandleStatus(d) PROVE StoreType'
    <2>1. Stamped(d) \in StatusRow
      BY <1>0, <1>2, TakenType DEF HandleStatus, Waiting, Stamped, StatusRow
    <2> QED BY <1>0, <1>2, <2>1 DEF HandleStatus, StoreType
  <1>3. CASE Tick
    <2>1. row' \in [Device -> StatusRow \cup {None}]
      BY <1>0, <1>3, OlderRow DEF Tick, StoreType
    <2>2. reading' \in [Device -> [Metrics -> ReadingRow \cup {None}]]
      BY <1>0, <1>3, OlderReading DEF Tick, StoreType
    <2> QED BY <2>1, <2>2 DEF StoreType
  <1>4. CASE UNCHANGED stored
    BY <1>0, <1>4 DEF stored, StoreType
  <1>5. \/ UNCHANGED stored \/ Tick
        \/ \E d \in Device : HandleStatus(d)
        \/ \E d \in Device, m \in Metrics, v \in Level : Report(d, m, v)
    BY DEF Next, DeviceStep, WorkerStep, Failure, Operator, Start, Stop, Crash, Connect, Subscribe,
       CountActive, CountOnline, SetActive, BrokerDown, BrokerUp, Drop, Kill, Restart, Cycle,
       DeadLetterStatus, vars
  <1> QED BY <1>1, <1>2, <1>3, <1>4, <1>5

LEMMA ReaderTypeNext == TypeOK /\ [Next]_vars => ReaderType'
  <1> SUFFICES ASSUME TypeOK, [Next]_vars PROVE ReaderType'  OBVIOUS
  <1>0. /\ ReaderType
        /\ 0 \in Count /\ Cardinality(active) \in Count /\ Cardinality(OnlineDevices) \in Count
    <2>1. ReaderType /\ active \in SUBSET Device /\ OnlineDevices \in SUBSET Device
      BY TypeParts DEF ReaderType, OnlineDevices
    <2>2. {} \in SUBSET Device /\ Cardinality({}) = 0  BY FS_EmptySet
    <2> QED BY <2>1, <2>2, Counted
  <1>1. ASSUME NEW d \in Device, HandleStatus(d) PROVE ReaderType'
    BY <1>0, <1>1 DEF HandleStatus, ReaderType
  <1>2. ASSUME NEW d \in Device, SetActive(d) PROVE ReaderType'
    <2>1. listed' \in [Device -> Listing]
      BY <1>0, <1>2, Timed DEF SetActive, ReaderType, Listing
    <2> QED BY <1>0, <1>2, <2>1 DEF SetActive, ReaderType
  <1>3. CASE CountActive
    BY <1>0, <1>3 DEF CountActive, NoQuery, ReaderType, history
  <1>4. CASE CountOnline
    BY <1>0, <1>4 DEF CountOnline, ReaderType, history
  <1>5. CASE Cycle
    <2>1. alarm' \subseteq Rule \X Device
      BY <1>0, <1>5 DEF Cycle, CycleResult, Violations, Evaluated, TargetDevices, ReaderType
    <2> QED BY <1>0, <1>5, <2>1, Timed DEF Cycle, ReaderType, history
  <1>6. CASE Tick
    <2>1. pause' \in 0..Interval  BY <1>0, <1>6, Timed DEF Tick, Idle, ReaderType
    <2>2. query' \in [at : {"idle", "online", "done"}, active : Count, online : Count,
                      calm : BOOLEAN]
      BY <1>0, <1>6 DEF Tick, ReaderType
    <2>3. ASSUME NEW n \in Listing PROVE (IF n <= Interval THEN n + 1 ELSE n) \in Listing
      BY Timed DEF Listing
    <2>4. listed' \in [Device -> Listing]
      BY <1>0, <1>6, <2>3 DEF Tick, ReaderType
    <2> QED BY <1>0, <1>6, <2>1, <2>2, <2>4 DEF Tick, ReaderType
  <1>7. CASE UNCHANGED <<alarm, pause, active, listed, query>>
    BY <1>0, <1>7 DEF ReaderType
  <1>8. \/ UNCHANGED <<alarm, pause, active, listed, query>>
        \/ Tick \/ Cycle \/ CountActive \/ CountOnline
        \/ \E d \in Device : HandleStatus(d) \/ SetActive(d)
    BY DEF Next, DeviceStep, WorkerStep, Failure, Operator, Start, Stop, Crash, Report, Connect,
       Subscribe, BrokerDown, BrokerUp, Drop, Kill, Restart, DeadLetterStatus, vars, history
  <1> QED BY <1>1, <1>2, <1>3, <1>4, <1>5, <1>6, <1>7, <1>8

LEMMA BudgetTypeNext == TypeOK /\ [Next]_vars => BudgetType'
  <1> SUFFICES ASSUME TypeOK, [Next]_vars PROVE BudgetType'  OBVIOUS
  <1>0. BudgetType  BY TypeParts
  <1>1. CASE SpendOp  BY <1>0, <1>1, Timed DEF SpendOp, BudgetType
  <1>2. CASE faults < MaxFaults /\ faults' = faults + 1 /\ ops' = ops
    BY <1>0, <1>2, Timed DEF BudgetType
  <1>3. CASE UNCHANGED budget  BY <1>0, <1>3 DEF budget, BudgetType
  <1>4. SpendOp \/ UNCHANGED budget \/ (faults < MaxFaults /\ faults' = faults + 1 /\ ops' = ops)
    BY DEF Next, DeviceStep, WorkerStep, Failure, Operator, Start, Stop, Crash, Report, Connect,
       Subscribe, HandleStatus, BrokerDown, BrokerUp, Drop, Kill, Restart, DeadLetterStatus, Cycle,
       CountActive, CountOnline, SetActive, Tick, vars
  <1> QED BY <1>1, <1>2, <1>3, <1>4

LEMMA NextType == TypeOK /\ [Next]_vars => TypeOK'
  <1> SUFFICES ASSUME TypeOK, [Next]_vars PROVE TypeOK'  OBVIOUS
  <1>1. ConnectionType' /\ QueueType' /\ StoreType' /\ ReaderType' /\ BudgetType'
    BY ConnectionTypeNext, QueueTypeNext, StoreTypeNext, ReaderTypeNext, BudgetTypeNext
  <1> QED BY <1>1 DEF TypeOK, ConnectionType, QueueType, StoreType, ReaderType, BudgetType

\* Every variable keeps its type (mqtt_worker.py:171-206, stats.py:14-64, alarm_worker.py:126-155).
THEOREM TypeCorrect == Spec => []TypeOK
  <1>1. Init => TypeOK  BY InitType
  <1>2. TypeOK /\ [Next]_vars => TypeOK'  BY NextType
  <1> QED BY <1>1, <1>2, PTL DEF Spec

-----------------------------------------------------------------------------
(* The backoff.                                                            *)

\* What the next sleep costs was waited already: the delay in force never exceeds the
\* time without a subscription and the rest of the present sleep by more than MinDelay;
\* and of a sleep, what is left and twice what a broker was slept through fits into the
\* time without a subscription and MinDelay.
BackoffInv ==
  /\ link # "sleep" => wake = 0
  /\ link \in {"subscribe", "live"} => delay = MinDelay /\ lag = 0
  /\ link # "down" => delay <= away + wake + MinDelay
  /\ ~broker => lag = 0
  /\ link = "sleep" =>
       wake >= 1 /\ wake + lag <= MaxDelay /\ wake + 2 * lag <= away + MinDelay

\* Falling asleep.
LEMMA FallsAsleep ==
  ASSUME TypeOK, BackoffInv, Backoff, link \in {"connect", "subscribe", "live"}, lag' = 0,
         away' = away
  PROVE  BackoffInv'
  <1>1. ConnectionType  BY TypeParts
  <1>2. /\ away \in Nat /\ delay \in Nat /\ delay >= MinDelay /\ delay <= MaxDelay
        /\ delay <= away + MinDelay
    BY <1>1, Timed DEF ConnectionType, BackoffInv, Age
  <1>3. delay' \in Nat /\ delay' <= 2 * delay  BY <1>1, BackoffType, Timed DEF Backoff
  <1> QED BY <1>2, <1>3, Timed DEF Backoff, BackoffInv

\* A tick of a sleep: w is left, l was slept through with a broker, a without a subscription.
LEMMA SleepSum ==
  ASSUME NEW w \in Nat, NEW l \in Nat, NEW a \in Nat, NEW m \in Nat, NEW x \in Nat, NEW h \in Nat,
         NEW l2, NEW a2, l2 = 0 \/ l2 = l + 1, a2 = a + 1 \/ a2 = h,
         w >= 1, w + l <= x, w + 2 * l <= a + m, h >= 2 * x
  PROVE  (w - 1) + l2 <= x /\ (w - 1) + 2 * l2 <= a2 + m
  <1>1. CASE l2 = 0 /\ a2 = a + 1  BY <1>1
  <1>2. CASE l2 = 0 /\ a2 = h  BY <1>2
  <1>3. CASE l2 = l + 1 /\ a2 = a + 1  BY <1>3
  <1>4. CASE l2 = l + 1 /\ a2 = h
    <2>1. (w - 1) + (l + 1) <= x /\ l + 1 <= x  OBVIOUS
    <2> QED BY <1>4, <2>1
  <1> QED BY <1>1, <1>2, <1>3, <1>4

LEMMA BackoffNext == TypeOK /\ BackoffInv /\ [Next]_vars => BackoffInv'
  <1> SUFFICES ASSUME TypeOK, BackoffInv, [Next]_vars PROVE BackoffInv'  OBVIOUS
  <1>0. /\ broker \in BOOLEAN /\ link \in Link
        /\ delay \in Nat /\ delay >= MinDelay /\ delay <= MaxDelay
        /\ wake \in Nat /\ wake <= MaxDelay
        /\ away \in Nat /\ away <= Horizon /\ lag \in Nat /\ lag <= Horizon
    BY TypeParts, Timed DEF ConnectionType, Age
  <1>1. CASE UNCHANGED <<connection, broker, away, lag>>
    BY <1>1 DEF BackoffInv, connection
  <1>2. CASE Connect
    <2>1. CASE broker
      BY <1>0, <1>2, <2>1, Timed DEF Connect, DelayAfterConnect, BackoffInv
    <2>2. CASE ~broker
      BY <1>2, <2>2, FallsAsleep DEF Connect
    <2> QED BY <1>0, <2>1, <2>2
  <1>3. CASE Subscribe
    BY <1>0, <1>3, Timed DEF Subscribe, BackoffInv
  <1>4. CASE BrokerDown \/ Drop
    <2>0. away' = away /\ (BrokerDown => lag' = 0 /\ ~broker') /\ (Drop => lag' = lag /\ broker' = broker)
      BY <1>4 DEF BrokerDown, Drop, outage
    <2>1. CASE link \in {"subscribe", "live"}
      <3>1. Backoff /\ lag' = 0
        BY <1>4, <2>0, <2>1 DEF BrokerDown, Drop, Lose, BackoffInv
      <3> QED BY <2>0, <2>1, <3>1, FallsAsleep
    <2>2. CASE link \notin {"subscribe", "live"}
      <3>1. BrokerDown /\ UNCHANGED connection  BY <1>4, <2>2 DEF Drop, BrokerDown, Lose
      <3>2. link' = link /\ delay' = delay /\ wake' = wake /\ lag' = 0 /\ away' = away
        BY <2>0, <3>1 DEF connection
      <3> QED BY <1>0, <3>2, Timed DEF BackoffInv
    <2> QED BY <2>1, <2>2
  <1>5. CASE BrokerUp
    BY <1>0, <1>5 DEF BrokerUp, BackoffInv, connection, outage
  <1>6. CASE Kill
    BY <1>0, <1>6 DEF Kill, BackoffInv
  <1>7. CASE Restart
    BY <1>0, <1>7, Timed DEF Restart, BackoffInv, outage
  <1>8. CASE Tick
    <2>0. /\ link \in {"sleep", "live", "down"} /\ link' = Woken
          /\ wake' = IF wake > 0 THEN wake - 1 ELSE 0
          /\ delay' = delay /\ broker' = broker
          /\ away' = IF link = "live" THEN 0 ELSE Later(away)
          /\ lag' = IF link = "sleep" /\ broker THEN Later(lag) ELSE 0
      BY <1>8 DEF Tick, Idle
    <2>1. Later(away) \in Nat /\ (away < Horizon => Later(away) = away + 1)
                             /\ (away = Horizon => Later(away) = Horizon)
      BY <1>0, Timed DEF Later
    <2>2. CASE link = "sleep"
      <3>1. wake >= 1 /\ wake + lag <= MaxDelay /\ wake + 2 * lag <= away + MinDelay
            /\ delay <= away + wake + MinDelay
        BY <2>2 DEF BackoffInv
      <3>2. lag' \in {0, lag + 1}
        BY <1>0, <2>0, <3>1, Timed DEF Later
      <3>3. wake' = wake - 1 /\ away' = Later(away) /\ delay' = delay
        BY <1>0, <2>0, <2>2, <3>1
      <3>4. delay' <= away' + wake' + MinDelay
        BY <1>0, <2>1, <3>1, <3>3, Timed
      <3>5. wake' + lag' <= MaxDelay /\ wake' + 2 * lag' <= away' + MinDelay
        <4>1. away' = away + 1 \/ away' = Horizon  BY <1>0, <2>1, <3>3, Timed
        <4>2. lag' = 0 \/ lag' = lag + 1  BY <3>2
        <4> QED BY <1>0, <3>1, <3>3, <4>1, <4>2, Timed, SleepSum
      <3>6. link' = (IF wake = 1 THEN "connect" ELSE "sleep")
        BY <2>0, <2>2 DEF Woken
      <3>7. ~broker' => lag' = 0  BY <2>0
      <3> QED BY <1>0, <3>1, <3>3, <3>4, <3>5, <3>6, <3>7 DEF BackoffInv
    <2>3. CASE link = "live"
      BY <1>0, <2>0, <2>3, Timed DEF BackoffInv, Woken
    <2>4. CASE link = "down"
      BY <1>0, <2>0, <2>4 DEF BackoffInv, Woken
    <2> QED BY <2>0, <2>2, <2>3, <2>4
  <1>9. \/ UNCHANGED <<connection, broker, away, lag>>
        \/ Connect \/ Subscribe \/ BrokerDown \/ Drop \/ BrokerUp \/ Kill \/ Restart \/ Tick
    BY DEF Next, DeviceStep, WorkerStep, Failure, Operator, Start, Stop, Crash, Report, HandleStatus,
       DeadLetterStatus, Cycle, CountActive, CountOnline, SetActive, vars, outage
  <1> QED BY <1>1, <1>2, <1>3, <1>4, <1>5, <1>6, <1>7, <1>8, <1>9

\* Once the broker is back the worker is not away for longer than it had been, whatever
\* failed before (mqtt_worker.py:171-206).
THEOREM SleepsNoLonger == Spec => []CatchesUp
  <1>1. Init => TypeOK /\ BackoffInv
    <2> SUFFICES ASSUME Init PROVE BackoffInv  BY InitType
    <2> QED BY Timed DEF Init, BackoffInv
  <1>2. TypeOK /\ BackoffInv /\ [Next]_vars => (TypeOK /\ BackoffInv)'
    BY NextType, BackoffNext
  <1>3. TypeOK /\ BackoffInv => CatchesUp
    <2> SUFFICES ASSUME TypeOK, BackoffInv, link = "sleep", broker
                 PROVE  lag <= (away - lag) + MinDelay /\ lag <= MaxDelay
      BY DEF CatchesUp
    <2>1. wake \in Nat /\ away \in Nat /\ lag \in Nat
      BY TypeParts, Timed DEF ConnectionType, Age
    <2>2. wake + lag <= MaxDelay /\ wake + 2 * lag <= away + MinDelay  BY DEF BackoffInv
    <2> QED BY <2>1, <2>2, Timed
  <1> QED BY <1>1, <1>2, <1>3, PTL DEF Spec

-----------------------------------------------------------------------------
(* The retained status.                                                    *)

\* The end of what a subscriber was sent is what the broker retains; with nothing left
\* in the queue it is in the newest row, or the dead-letter table has it.
Heals(d) ==
  retained[d] # None =>
    IF inbox[d] # << >>
    THEN inbox[d][Len(inbox[d])] = retained[d]
    ELSE d \in missed \/ (row[d] # None /\ row[d].status = retained[d])

HealInv ==
  /\ link # "live" => \A d \in Device : inbox[d] = << >>
  /\ link = "live" => \A d \in Device : Heals(d)

\* A publish to a subscriber.
LEMMA PublishHeals ==
  ASSUME TypeOK, HealInv, NEW d \in Device, NEW status \in Status, Publish(d, status),
         UNCHANGED <<link, missed, row>>
  PROVE  HealInv'
  <1>1. QueueType  BY TypeParts
  <1>2. CASE link = "live"
    <2>1. inbox' = [inbox EXCEPT ![d] = Append(@, status)]
          /\ retained' = [retained EXCEPT ![d] = status]
      BY <1>2 DEF Publish, SentOn, Retain
    <2>2. ASSUME NEW e \in Device PROVE Heals(e)'
      <3>1. CASE e = d
        <4>1. inbox'[e] = Append(inbox[d], status) /\ retained'[e] = status
          BY <1>1, <2>1, <3>1 DEF QueueType
        <4>2. inbox[d] \in Seq(Status)  BY <1>1 DEF QueueType
        <4> QED BY <4>1, <4>2, QueueAppend DEF Heals
      <3>2. CASE e # d
        <4>1. inbox'[e] = inbox[e] /\ retained'[e] = retained[e]
          BY <1>1, <2>1, <3>2 DEF QueueType
        <4> QED BY <1>2, <4>1 DEF Heals, HealInv
      <3> QED BY <3>1, <3>2
    <2> QED BY <1>2, <2>2 DEF HealInv
  <1>3. CASE link # "live"
    BY <1>3 DEF Publish, SentOn, HealInv
  <1> QED BY <1>2, <1>3

\* A status taken from the queue, stored or dead-lettered.
LEMMA TakenHeals ==
  ASSUME TypeOK, HealInv, NEW d \in Device, HandleStatus(d) \/ DeadLetterStatus(d)
  PROVE  HealInv'
  <1>1. QueueType /\ StoreType  BY TypeParts
  <1>2. link = "live" /\ inbox[d] \in Seq(Status) /\ inbox[d] # << >> /\ inbox' = Taken(d)
        /\ link' = link /\ retained' = retained
    BY <1>1 DEF HandleStatus, DeadLetterStatus, Waiting, QueueType, connection
  <1>3. ASSUME NEW e \in Device, e # d PROVE Heals(e)'
    <2>1. /\ inbox'[e] = inbox[e] /\ retained'[e] = retained[e] /\ row'[e] = row[e]
          /\ e \in missed <=> e \in missed'
      BY <1>1, <1>2, <1>3 DEF HandleStatus, DeadLetterStatus, Taken, QueueType, StoreType, stored
    <2> QED BY <1>2, <2>1 DEF Heals, HealInv
  <1>4. Heals(d)'
    <2>1. inbox'[d] = Tail(inbox[d])  BY <1>1, <1>2 DEF Taken, QueueType
    <2>2. retained[d] # None => inbox[d][Len(inbox[d])] = retained[d]
      BY <1>2 DEF HealInv, Heals
    <2>3. CASE HandleStatus(d)
      <3>1. row'[d] = Stamped(d) /\ Stamped(d) \in StatusRow
        BY <1>1, <1>2, <2>3, TakenType, Timed DEF HandleStatus, Stamped, StoreType, StatusRow, Age
      <3>2. row'[d] # None /\ row'[d].status = Head(inbox[d])
        BY <3>1, NoneAssumption DEF Stamped
      <3> QED BY <1>2, <2>1, <2>2, <3>2, QueueTail DEF Heals
    <2>4. CASE DeadLetterStatus(d)
      BY <1>2, <2>1, <2>2, <2>4, QueueTail DEF Heals, DeadLetterStatus
    <2> QED BY <2>3, <2>4
  <1> QED BY <1>2, <1>3, <1>4 DEF HealInv

LEMMA HealNext == TypeOK /\ HealInv /\ [Next]_vars => HealInv'
  <1> SUFFICES ASSUME TypeOK, HealInv, [Next]_vars PROVE HealInv'  OBVIOUS
  <1>0. QueueType /\ StoreType  BY TypeParts
  <1>1. CASE UNCHANGED <<retained, inbox, link, missed, row>>
    BY <1>1 DEF HealInv, Heals
  <1>2. ASSUME NEW d \in Device, Start(d) PROVE HealInv'
    BY <1>2, PublishHeals DEF Start, Status, connection, stored
  <1>3. ASSUME NEW d \in Device, Stop(d) PROVE HealInv'
    <2>1. UNCHANGED <<link, missed, row>>  BY <1>3 DEF Stop, connection, stored
    <2>2. CASE Publish(d, "offline")
      BY <2>1, <2>2, PublishHeals DEF Status
    <2>3. CASE UNCHANGED <<retained, inbox, heard>>
      BY <1>1, <2>1, <2>3
    <2> QED BY <1>3, <2>2, <2>3 DEF Stop
  <1>4. ASSUME NEW d \in Device, HandleStatus(d) \/ DeadLetterStatus(d) PROVE HealInv'
    BY <1>4, TakenHeals
  <1>5. CASE Connect \/ Restart
    BY <1>5 DEF Connect, Restart, Backoff, HealInv
  <1>6. CASE Subscribe
    <2>1. ASSUME NEW d \in Device PROVE Heals(d)'
      <3>1. inbox'[d] = Replayed(d) /\ retained'[d] = retained[d]  BY <1>6 DEF Subscribe
      <3>2. CASE retained[d] = None  BY <3>1, <3>2 DEF Heals
      <3>3. CASE retained[d] # None
        <4>1. inbox'[d] = <<retained[d]>>  BY <3>1, <3>3 DEF Replayed
        <4>2. inbox'[d] # << >> /\ inbox'[d][Len(inbox'[d])] = retained[d]  BY <4>1
        <4> QED BY <3>1, <4>2 DEF Heals
      <3> QED BY <3>2, <3>3
    <2> QED BY <1>6, <2>1 DEF Subscribe, HealInv
  <1>7. CASE BrokerDown \/ Drop
    <2>1. Lose /\ UNCHANGED <<retained, missed, row>>
      BY <1>7 DEF BrokerDown, Drop, history, stored
    <2>2. CASE link' = "sleep" /\ inbox' = [d \in Device |-> << >>]
      BY <2>2 DEF HealInv
    <2>3. CASE UNCHANGED <<connection, inbox>>
      BY <1>1, <2>1, <2>3 DEF connection
    <2> QED BY <2>1, <2>2, <2>3 DEF Lose, Backoff
  <1>8. CASE Kill
    BY <1>8 DEF Kill, HealInv
  <1>9. CASE Tick
    <2>0. /\ retained' = retained /\ inbox' = inbox /\ missed' = missed
          /\ link' = "live" <=> link = "live"
      BY <1>9 DEF Tick, Woken, Idle
    <2>1. ASSUME NEW d \in Device, Heals(d) PROVE Heals(d)'
      <3>1. row'[d] = Older(row[d])  BY <1>9 DEF Tick
      <3>2. row[d] # None => row'[d] # None /\ row'[d].status = row[d].status
        BY <1>0, <3>1, OlderRow DEF StoreType
      <3> QED BY <2>0, <2>1, <3>2 DEF Heals
    <2> QED BY <2>0, <2>1 DEF HealInv
  <1>10. \/ UNCHANGED <<retained, inbox, link, missed, row>>
         \/ \E d \in Device : Start(d) \/ Stop(d) \/ HandleStatus(d) \/ DeadLetterStatus(d)
         \/ Connect \/ Restart \/ Subscribe \/ BrokerDown \/ Drop \/ Kill \/ Tick
    BY DEF Next, DeviceStep, WorkerStep, Failure, Operator, Crash, Report, BrokerUp, Cycle,
       CountActive, CountOnline, SetActive, vars, connection, stored, history
  <1> QED BY <1>1, <1>2, <1>3, <1>4, <1>5, <1>6, <1>7, <1>8, <1>9, <1>10

LEMMA InitHeal == Init => HealInv
  BY DEF Init, HealInv

\* A subscriber with its queue handled knows the last status of every device, whatever
\* connections and processes were lost before (mqtt_worker.py:193-197, simulate_device.py:38, 59).
THEOREM RetainedStatusHeals == Spec => []RetainedHeals
  <1>1. Init => TypeOK /\ HealInv  BY InitType, InitHeal
  <1>2. TypeOK /\ HealInv /\ [Next]_vars => (TypeOK /\ HealInv)'  BY NextType, HealNext
  <1>3. HealInv => RetainedHeals  BY DEF HealInv, Heals, RetainedHeals
  <1> QED BY <1>1, <1>2, <1>3, PTL DEF Spec

-----------------------------------------------------------------------------
(* Where an "online" comes from.                                           *)

\* A row is no newer than both the device's last word and the last subscription; a status
\* waits only in the tick of one of the two.
SourceInv ==
  \A d \in Device :
    /\ row[d] # None => heard[d] <= row[d].age \/ since <= row[d].age
    /\ inbox[d] # << >> => link = "live" /\ (heard[d] = 0 \/ since = 0)

LEMMA SourceNext == TypeOK /\ SourceInv /\ [Next]_vars => SourceInv'
  <1> SUFFICES ASSUME TypeOK, SourceInv, [Next]_vars, NEW d \in Device
               PROVE  /\ row'[d] # None => heard'[d] <= row'[d].age \/ since' <= row'[d].age
                      /\ inbox'[d] # << >> => link' = "live" /\ (heard'[d] = 0 \/ since' = 0)
    BY DEF SourceInv
  <1>0. /\ QueueType /\ StoreType
        /\ row[d] # None => row[d].age \in Age /\ (heard[d] <= row[d].age \/ since <= row[d].age)
        /\ inbox[d] # << >> => link = "live" /\ (heard[d] = 0 \/ since = 0)
    BY TypeParts DEF SourceInv, StoreType, StatusRow
  <1>1. CASE UNCHANGED <<inbox, link, row, heard, since>>
    BY <1>0, <1>1
  <1>2. ASSUME NEW e \in Device, NEW status \in Status, Publish(e, status),
               UNCHANGED <<link, row, since>>
        PROVE  /\ row'[d] # None => heard'[d] <= row'[d].age \/ since' <= row'[d].age
               /\ inbox'[d] # << >> => link' = "live" /\ (heard'[d] = 0 \/ since' = 0)
    <2>1. CASE d = e
      <3>1. heard'[d] = 0  BY <1>0, <1>2, <2>1 DEF Publish, QueueType
      <3>2. inbox'[d] # << >> => link = "live"  BY <1>0, <1>2 DEF Publish, SentOn
      <3> QED BY <1>0, <1>2, <3>1, <3>2, Timed DEF Age
    <2>2. CASE d # e
      BY <1>0, <1>2, <2>2 DEF Publish, SentOn, QueueType
    <2> QED BY <2>1, <2>2
  <1>3. ASSUME NEW e \in Device, Start(e)
        PROVE  /\ row'[d] # None => heard'[d] <= row'[d].age \/ since' <= row'[d].age
               /\ inbox'[d] # << >> => link' = "live" /\ (heard'[d] = 0 \/ since' = 0)
    BY <1>2, <1>3 DEF Start, Status, connection, stored
  <1>4. ASSUME NEW e \in Device, Stop(e)
        PROVE  /\ row'[d] # None => heard'[d] <= row'[d].age \/ since' <= row'[d].age
               /\ inbox'[d] # << >> => link' = "live" /\ (heard'[d] = 0 \/ since' = 0)
    <2>1. UNCHANGED <<link, row, since>>  BY <1>4 DEF Stop, connection, stored
    <2>2. CASE Publish(e, "offline")  BY <1>2, <2>1, <2>2 DEF Status
    <2>3. CASE UNCHANGED <<retained, inbox, heard>>  BY <1>1, <2>1, <2>3
    <2> QED BY <1>4, <2>2, <2>3 DEF Stop
  <1>5. ASSUME NEW e \in Device, HandleStatus(e) \/ DeadLetterStatus(e)
        PROVE  /\ row'[d] # None => heard'[d] <= row'[d].age \/ since' <= row'[d].age
               /\ inbox'[d] # << >> => link' = "live" /\ (heard'[d] = 0 \/ since' = 0)
    <2>0. UNCHANGED <<link, heard, since>> /\ inbox' = Taken(e) /\ link = "live" /\ inbox[e] # << >>
      BY <1>5 DEF HandleStatus, DeadLetterStatus, Waiting, connection
    <2>1. CASE d = e
      <3>1. heard[d] = 0 \/ since = 0  BY <1>0, <2>0, <2>1
      <3>2. CASE HandleStatus(e)
        <4>1. row'[d].age = 0  BY <1>0, <2>1, <3>2 DEF HandleStatus, Stamped, StoreType
        <4> QED BY <2>0, <3>1, <4>1
      <3>3. CASE DeadLetterStatus(e)
        <4>1. row' = row  BY <3>3 DEF DeadLetterStatus, stored
        <4> QED BY <1>0, <2>0, <3>1, <4>1
      <3> QED BY <1>5, <3>2, <3>3
    <2>2. CASE d # e
      BY <1>0, <1>5, <2>0, <2>2 DEF HandleStatus, DeadLetterStatus, Taken, QueueType, StoreType, stored
    <2> QED BY <2>1, <2>2
  <1>6. CASE Subscribe
    BY <1>0, <1>6, Timed DEF Subscribe, stored, Age
  <1>7. CASE BrokerDown \/ Drop \/ Kill \/ Connect \/ Restart
    <2>1. UNCHANGED <<row, heard, since>>
      BY <1>7 DEF BrokerDown, Drop, Kill, Connect, Restart, stored, history
    <2>2. inbox'[d] # << >> => UNCHANGED <<inbox, link>>
      <3>1. CASE BrokerDown \/ Drop  BY <3>1 DEF BrokerDown, Drop, Lose, connection
      <3>2. CASE Kill  BY <3>2 DEF Kill
      <3>3. CASE Connect \/ Restart  BY <1>0, <3>3 DEF Connect, Restart
      <3> QED BY <1>7, <3>1, <3>2, <3>3
    <2> QED BY <1>0, <2>1, <2>2
  <1>8. CASE Tick
    <2>1. inbox'[d] = << >>
      BY <1>0, <1>8 DEF Tick, Idle, Waiting
    <2>2. heard'[d] = Later(heard[d]) /\ since' = Later(since) /\ row'[d] = Older(row[d])
      BY <1>8 DEF Tick
    <2>3. row'[d] # None => row[d] # None /\ row'[d].age = Later(row[d].age)
      BY <1>0, <2>2, OlderRow DEF StoreType
    <2>4. ASSUME NEW a \in Age, NEW b \in Age, a <= b PROVE Later(a) <= Later(b)
      BY <2>4, Timed DEF Later, Age
    <2> QED BY <1>0, <2>1, <2>2, <2>3, <2>4 DEF QueueType
  <1>9. \/ UNCHANGED <<inbox, link, row, heard, since>>
        \/ \E e \in Device : Start(e) \/ Stop(e) \/ HandleStatus(e) \/ DeadLetterStatus(e)
        \/ Subscribe \/ BrokerDown \/ Drop \/ Kill \/ Connect \/ Restart \/ Tick
    BY DEF Next, DeviceStep, WorkerStep, Failure, Operator, Crash, Report, BrokerUp, Cycle,
       CountActive, CountOnline, SetActive, vars, connection, stored, history
  <1> QED BY <1>1, <1>3, <1>4, <1>5, <1>6, <1>7, <1>8, <1>9

LEMMA InitSource == Init => SourceInv
  BY DEF Init, SourceInv

LEMMA SourceAlways == Spec => [](TypeOK /\ SourceInv)
  <1>1. Init => TypeOK /\ SourceInv  BY InitType, InitSource
  <1>2. TypeOK /\ SourceInv /\ [Next]_vars => (TypeOK /\ SourceInv)'  BY NextType, SourceNext
  <1> QED BY <1>1, <1>2, PTL DEF Spec

\* A device counted online spoke within the window, or the worker subscribed within it
\* (stats.py:28-45, mqtt_worker.py:104-116).
THEOREM OnlineIsHeard == Spec => []OnlineHasSource
  <1>1. TypeOK /\ SourceInv => OnlineHasSource
    <2> SUFFICES ASSUME TypeOK, SourceInv, NEW d \in Device, CountedOnline(d)
                 PROVE  heard[d] <= Window \/ since <= Window
      BY DEF OnlineHasSource
    <2>1. row[d] # None /\ row[d].age \in Age /\ row[d].age <= Window
          /\ heard[d] \in Age /\ since \in Age
      BY TypeParts DEF CountedOnline, QueueType, StoreType, StatusRow
    <2> QED BY <2>1, Timed DEF SourceInv, Age
  <1> QED BY <1>1, SourceAlways, PTL

-----------------------------------------------------------------------------
(* The rules (alarm_engine.py).                                            *)

LEMMA TimeoutType ==
  ASSUME NEW r \in Rule
  PROVE  Timeout(r) \in Nat /\ (r.timeout \in {None, 0} => Timeout(r) = DefaultTimeout)
  BY RuleAssumption, Timed DEF Timeout, AlarmRule

\* With no row at all the two rules about silence trigger and no other does
\* (alarm_engine.py:55-71): the rules AlarmWorker takes as SilenceRule, whose pairs are in
\* violation from the moment a device is created.
THEOREM SilenceTriggers ==
  ASSUME NEW r \in Rule
  PROVE  Triggers(r, None, [m \in Metrics |-> None])
           <=> r.type \in {"device_offline", "sensor_timeout"}
  <1>1. Reading(r, [m \in Metrics |-> None]) = None
    BY DEF Reading
  <1>2. Value(None) = None
    BY DEF Value
  <1>3. /\ ~ThresholdGt(r, None) /\ ~ThresholdLt(r, None) /\ ~BatteryLow(r, None)
        /\ DeviceOffline(r, None) /\ SensorTimeout(r, None)
    BY DEF ThresholdGt, ThresholdLt, BatteryLow, DeviceOffline, SensorTimeout
  <1> QED BY <1>1, <1>2, <1>3 DEF Triggers

\* A condition that holds goes on holding while nothing new is heard: time alone clears
\* none, for any rule type and any rows (alarm_engine.py:27-77).
THEOREM TriggersLater ==
  ASSUME NEW r \in Rule, NEW s \in StatusRow \cup {None},
         NEW rs \in [Metrics -> ReadingRow \cup {None}], Triggers(r, s, rs)
  PROVE  Triggers(r, Older(s), [m \in Metrics |-> Older(rs[m])])
  <1> DEFINE rs2 == [m \in Metrics |-> Older(rs[m])]
             x == Reading(r, rs)
             x2 == Reading(r, rs2)
  <1>1. x2 = Older(x) /\ x \in ReadingRow \cup {None}
    <2>1. CASE Metric(r) \in Metrics  BY <2>1 DEF Reading
    <2>2. CASE Metric(r) \notin Metrics
      <3>1. x = None /\ x2 = None  BY <2>2 DEF Reading
      <3> QED BY <3>1 DEF Older
    <2> QED BY <2>1, <2>2
  <1> HIDE DEF x, x2
  <1>2. /\ x = None <=> x2 = None
        /\ x # None => x2.value = x.value /\ x.age \in Age /\ x2.age = Later(x.age)
    BY <1>1, OlderReading DEF ReadingRow
  <1>3. Value(x2) = Value(x)  BY <1>2 DEF Value
  <1>4. ASSUME NEW a \in Age, a > Timeout(r) PROVE Later(a) > Timeout(r)
    BY <1>4, LaterAge, TimeoutType, Timed DEF Age
  <1>5. SensorTimeout(r, x) => SensorTimeout(r, x2)
    BY <1>2, <1>4 DEF SensorTimeout
  <1>6. DeviceOffline(r, s) => DeviceOffline(r, Older(s))
    <2>1. CASE s = None  BY <2>1, OlderRow DEF DeviceOffline
    <2>2. CASE s # None
      <3>1. s.age \in Age /\ Older(s).status = s.status /\ Older(s).age = Later(s.age)
        BY <2>2, OlderRow DEF StatusRow
      <3> QED BY <1>4, <2>2, <3>1 DEF DeviceOffline
    <2> QED BY <2>1, <2>2
  <1>7. CASE r.type = "threshold_gt" /\ ThresholdGt(r, Value(x))
    BY <1>3, <1>7 DEF Triggers, x2
  <1>8. CASE r.type = "threshold_lt" /\ ThresholdLt(r, Value(x))
    BY <1>3, <1>8 DEF Triggers, x2
  <1>9. CASE r.type = "battery_low" /\ BatteryLow(r, Value(x))
    BY <1>3, <1>9 DEF Triggers, x2
  <1>10. CASE r.type = "device_offline" /\ DeviceOffline(r, s)
    BY <1>6, <1>10 DEF Triggers
  <1>11. CASE r.type = "sensor_timeout" /\ SensorTimeout(r, x)
    BY <1>5, <1>11 DEF Triggers, x2
  <1> QED BY <1>7, <1>8, <1>9, <1>10, <1>11 DEF Triggers, x

\* Two rules on one metric with one threshold never trigger together, and at the threshold
\* neither does.
LEMMA StrictThresholds ==
  ASSUME NEW r \in Rule, NEW q \in Rule, r.threshold = q.threshold, NEW v \in Int \cup {None}
  PROVE  ~(ThresholdGt(r, v) /\ ThresholdLt(q, v))
  BY RuleAssumption DEF ThresholdGt, ThresholdLt, AlarmRule

\* A device counted online is in violation of no offline rule with the default timeout
\* (stats.py:28, alarm_engine.py:58).
THEOREM OnlineNeverOffline == Spec => []OnlineIsNotOffline
  <1>1. TypeOK => OnlineIsNotOffline
    <2> SUFFICES ASSUME TypeOK, NEW d \in Device, NEW r \in Rule, CountedOnline(d),
                        r.timeout \in {None, 0}
                 PROVE  ~DeviceOffline(r, row[d])
      BY DEF OnlineIsNotOffline
    <2>1. /\ row[d] # None /\ row[d].status = "online" /\ row[d].age <= Window
          /\ row[d].age \in Age
      BY TypeParts DEF CountedOnline, StoreType, StatusRow
    <2>2. Timeout(r) = DefaultTimeout  BY TimeoutType
    <2> QED BY <2>1, <2>2, Timed DEF DeviceOffline, Age
  <1> QED BY <1>1, TypeCorrect, PTL

-----------------------------------------------------------------------------
(* What the alarm cycle knows between two of its runs.                     *)

\* The time since the last cycle.
Elapsed == Interval - pause

\* Nothing of the device is newer than the last cycle.
Steady(d) ==
  /\ row[d] # None => row[d].age > Elapsed
  /\ \A m \in Metrics : reading[d][m] # None => reading[d][m].age > Elapsed

Silent(r, d) == row[d] = None \/ row[d].age > Timeout(r) + Elapsed

\* Active since before the last cycle.
Swept(d) == d \in active /\ listed[d] > Elapsed

CycleInv ==
  \A r \in Rule, d \in Device : Swept(d) =>
    /\ <<r, d>> \in alarm /\ Steady(d) => Triggers(r, row[d], reading[d])
    /\ r.type = "device_offline" /\ Silent(r, d) => <<r, d>> \in alarm

\* The clock takes nothing away from either.
LEMMA CycleTick == TypeOK /\ CycleInv /\ Tick => CycleInv'
  <1> SUFFICES ASSUME TypeOK, CycleInv, Tick, NEW r \in Rule, NEW d \in Device, Swept(d)'
               PROVE  /\ <<r, d>> \in alarm' /\ Steady(d)' => Triggers(r, row'[d], reading'[d])
                      /\ r.type = "device_offline" /\ Silent(r, d)' => <<r, d>> \in alarm'
    BY DEF CycleInv
  <1>0. /\ StoreType /\ QueueType /\ pause \in Nat /\ pause > 0 /\ pause <= Interval
        /\ pause' = pause - 1 /\ alarm' = alarm
        /\ row'[d] = Older(row[d])
        /\ reading'[d] = [m \in Metrics |-> Older(reading[d][m])]
        /\ row[d] \in StatusRow \cup {None}
        /\ reading[d] \in [Metrics -> ReadingRow \cup {None}]
    BY TypeParts, Timed DEF Tick, Idle, ReaderType, StoreType
  <1>1. Elapsed \in Nat /\ Elapsed' = Elapsed + 1
    BY <1>0, Timed DEF Elapsed
  <1>. Swept(d)
    <2>1. active' = active /\ listed[d] \in Nat /\ listed'[d] <= listed[d] + 1
      <3>1. listed[d] \in Nat  BY TypeParts, Timed DEF ReaderType, Listing
      <3> QED BY <3>1 DEF Tick
    <2>2. listed'[d] > Elapsed + 1 /\ listed'[d] \in Nat
      <3>1. listed'[d] \in Nat  BY <2>1 DEF Tick
      <3> QED BY <1>1, <3>1 DEF Swept
    <2> QED BY <1>1, <2>1, <2>2 DEF Swept
  <1>2. ASSUME NEW a \in Age, NEW b \in Nat, Later(a) > b + 1 PROVE a > b
    BY <1>2, LaterAge, Timed DEF Age
  <1>3. Steady(d)' => Steady(d)
    <2> SUFFICES ASSUME Steady(d)' PROVE Steady(d)  OBVIOUS
    <2>1. ASSUME row[d] # None PROVE row[d].age > Elapsed
      <3>1. row'[d] # None /\ row'[d].age = Later(row[d].age) /\ row[d].age \in Age
        BY <1>0, <2>1, OlderRow DEF StatusRow
      <3> QED BY <1>1, <1>2, <3>1 DEF Steady
    <2>2. ASSUME NEW m \in Metrics, reading[d][m] # None PROVE reading[d][m].age > Elapsed
      <3>1. reading[d][m] \in ReadingRow \cup {None} /\ reading'[d][m] = Older(reading[d][m])
        BY <1>0
      <3>2. /\ reading'[d][m] # None /\ reading'[d][m].age = Later(reading[d][m].age)
            /\ reading[d][m].age \in Age
        BY <2>2, <3>1, OlderReading DEF ReadingRow
      <3> QED BY <1>1, <1>2, <3>2 DEF Steady
    <2> QED BY <2>1, <2>2 DEF Steady
  <1>4. <<r, d>> \in alarm' /\ Steady(d)' => Triggers(r, row'[d], reading'[d])
    BY <1>0, <1>3, TriggersLater DEF CycleInv
  <1>5. Silent(r, d)' => Silent(r, d)
    <2>1. CASE row[d] = None  BY <2>1 DEF Silent
    <2>2. CASE row[d] # None
      <3>1. row'[d] # None /\ row'[d].age = Later(row[d].age) /\ row[d].age \in Age
        BY <1>0, <2>2, OlderRow DEF StatusRow
      <3>2. Timeout(r) \in Nat  BY TimeoutType
      <3>3. ASSUME Silent(r, d)' PROVE row[d].age > Timeout(r) + Elapsed
        <4>1. Later(row[d].age) > Timeout(r) + (Elapsed + 1)
          BY <1>1, <3>1, <3>3 DEF Silent
        <4>2. Timeout(r) + (Elapsed + 1) = (Timeout(r) + Elapsed) + 1 /\ Timeout(r) + Elapsed \in Nat
          BY <1>1, <3>2
        <4> QED BY <1>2, <3>1, <4>1, <4>2
      <3> QED BY <2>2, <3>3 DEF Silent
    <2> QED BY <2>1, <2>2
  <1> QED BY <1>0, <1>4, <1>5 DEF CycleInv

LEMMA CycleNext == TypeOK /\ CycleInv /\ [Next]_vars => CycleInv'
  <1> SUFFICES ASSUME TypeOK, CycleInv, [Next]_vars, NEW r \in Rule, NEW d \in Device, Swept(d)'
               PROVE  /\ <<r, d>> \in alarm' /\ Steady(d)' => Triggers(r, row'[d], reading'[d])
                      /\ r.type = "device_offline" /\ Silent(r, d)' => <<r, d>> \in alarm'
    BY DEF CycleInv
  <1>0. /\ StoreType /\ pause \in Nat /\ pause <= Interval /\ Elapsed \in Nat
        /\ listed \in [Device -> Nat] /\ Timeout(r) \in Nat
    BY TypeParts, TimeoutType, Timed DEF ReaderType, Elapsed, Listing
  <1> DEFINE Same == UNCHANGED <<alarm, pause, active, listed>>
  <1>1. ASSUME Same PROVE Elapsed' = Elapsed /\ Swept(d)
    BY <1>1 DEF Elapsed, Swept
  <1>2. CASE Same /\ row'[d] = row[d] /\ reading'[d] = reading[d]
    <2>1. Steady(d)' = Steady(d)  BY <1>1, <1>2 DEF Steady
    <2>2. Silent(r, d)' = Silent(r, d)  BY <1>1, <1>2 DEF Silent
    <2> QED BY <1>1, <1>2, <2>1, <2>2 DEF CycleInv
  <1>3. ASSUME NEW e \in Device, NEW m \in Metrics, NEW v \in Level, Report(e, m, v)
        PROVE  /\ <<r, d>> \in alarm' /\ Steady(d)' => Triggers(r, row'[d], reading'[d])
               /\ r.type = "device_offline" /\ Silent(r, d)' => <<r, d>> \in alarm'
    <2>0. Same /\ row' = row /\ reading' = [reading EXCEPT ![e][m] = [value |-> v, age |-> 0]]
      BY <1>3 DEF Report, history
    <2>1. CASE d = e
      <3>1. reading'[d][m] = [value |-> v, age |-> 0]  BY <1>0, <2>0, <2>1 DEF StoreType
      <3>2. [value |-> v, age |-> 0] \in ReadingRow  BY Timed DEF ReadingRow, Age
      <3>3. ~Steady(d)'
        BY <1>0, <1>1, <2>0, <3>1, <3>2, NoneAssumption DEF Steady
      <3>4. Silent(r, d)' = Silent(r, d)  BY <1>1, <2>0 DEF Silent
      <3> QED BY <1>1, <2>0, <3>3, <3>4 DEF CycleInv
    <2>2. CASE d # e
      <3>1. reading'[d] = reading[d]  BY <1>0, <2>0, <2>2 DEF StoreType
      <3> QED BY <1>2, <2>0, <3>1
    <2> QED BY <2>1, <2>2
  <1>4. ASSUME NEW e \in Device, HandleStatus(e)
        PROVE  /\ <<r, d>> \in alarm' /\ Steady(d)' => Triggers(r, row'[d], reading'[d])
               /\ r.type = "device_offline" /\ Silent(r, d)' => <<r, d>> \in alarm'
    <2>0. Same /\ reading' = reading /\ row' = [row EXCEPT ![e] = Stamped(e)]
      BY <1>4 DEF HandleStatus
    <2>1. CASE d = e
      <3>1. row'[d] = Stamped(e)  BY <1>0, <2>0, <2>1 DEF StoreType
      <3>2. Stamped(e) \in StatusRow
        BY <1>4, TypeParts, TakenType, Timed DEF HandleStatus, Waiting, Stamped, StatusRow, Age
      <3>3. row'[d] # None /\ row'[d].age = 0
        BY <3>1, <3>2, NoneAssumption DEF Stamped
      <3> QED BY <1>0, <1>1, <2>0, <3>3 DEF Steady, Silent
    <2>2. CASE d # e
      <3>1. row'[d] = row[d]  BY <1>0, <2>0, <2>2 DEF StoreType
      <3> QED BY <1>2, <2>0, <3>1
    <2> QED BY <2>1, <2>2
  <1>5. CASE Cycle
    <2>0. /\ alarm' = CycleResult /\ row' = row /\ reading' = reading
          /\ pause' = Interval /\ active' = active
      BY <1>5 DEF Cycle, stored
    <2>1. Elapsed' = 0  BY <2>0, Timed DEF Elapsed
    <2>2. <<r, d>> \in Evaluated  BY <2>0 DEF Swept, Evaluated, TargetDevices
    <2>3. <<r, d>> \in alarm' <=> Triggers(r, row[d], reading[d])
      BY <2>0, <2>2 DEF CycleResult, Violations
    <2>4. ASSUME r.type = "device_offline", Silent(r, d)' PROVE Triggers(r, row[d], reading[d])
      <3>1. row[d] = None \/ row[d].age > Timeout(r) + 0
        BY <2>0, <2>1, <2>4 DEF Silent
      <3>2. row[d] = None \/ row[d].age > Timeout(r)
        BY <1>0, <3>1
      <3> QED BY <2>4, <3>2 DEF Triggers, DeviceOffline
    <2> QED BY <2>0, <2>3, <2>4
  <1>6. CASE Tick  BY <1>6, CycleTick DEF CycleInv
  <1>7. ASSUME NEW e \in Device, SetActive(e)
        PROVE  /\ <<r, d>> \in alarm' /\ Steady(d)' => Triggers(r, row'[d], reading'[d])
               /\ r.type = "device_offline" /\ Silent(r, d)' => <<r, d>> \in alarm'
    <2>0. /\ UNCHANGED <<alarm, pause, row, reading>>
          /\ listed' = [listed EXCEPT ![e] = 0]
          /\ active' = IF e \in active THEN active \ {e} ELSE active \cup {e}
      BY <1>7 DEF SetActive, stored
    <2>1. Elapsed' = Elapsed  BY <2>0 DEF Elapsed
    <2>2. d # e
      <3>1. ASSUME d = e PROVE FALSE
        <4>1. listed'[d] = 0  BY <1>0, <2>0, <3>1
        <4> QED BY <1>0, <2>1, <4>1 DEF Swept
      <3> QED BY <3>1
    <2>3. listed'[d] = listed[d]  BY <1>0, <2>0, <2>2
    <2>4. Swept(d)  BY <2>0, <2>1, <2>2, <2>3 DEF Swept
    <2>5. Steady(d)' = Steady(d)  BY <2>0, <2>1 DEF Steady
    <2>6. Silent(r, d)' = Silent(r, d)  BY <2>0, <2>1 DEF Silent
    <2> QED BY <2>0, <2>4, <2>5, <2>6 DEF CycleInv
  <1>8. \/ Same /\ UNCHANGED <<row, reading>>
        \/ Cycle \/ Tick
        \/ \E e \in Device : HandleStatus(e) \/ SetActive(e)
        \/ \E e \in Device, m \in Metrics, v \in Level : Report(e, m, v)
    BY DEF Next, DeviceStep, WorkerStep, Failure, Operator, Start, Stop, Crash, Connect, Subscribe,
       BrokerDown, BrokerUp, Drop, Kill, Restart, DeadLetterStatus, CountActive, CountOnline, vars,
       stored, history
  <1> QED BY <1>2, <1>3, <1>4, <1>5, <1>6, <1>7, <1>8

LEMMA InitCycle == Init => CycleInv
  <1> SUFFICES ASSUME Init, NEW d \in Device PROVE ~Swept(d)  BY DEF CycleInv
  <1> QED BY Timed DEF Init, Swept, Elapsed

LEMMA CycleAlways == Spec => [](TypeOK /\ CycleInv)
  <1>1. Init => TypeOK /\ CycleInv  BY InitType, InitCycle
  <1>2. TypeOK /\ CycleInv /\ [Next]_vars => (TypeOK /\ CycleInv)'  BY NextType, CycleNext
  <1> QED BY <1>1, <1>2, PTL DEF Spec

\* What a whole cycle has covered, the last one has.
LEMMA CoveredIsSwept ==
  ASSUME TypeOK, NEW d \in Device, Covered(d)
  PROVE  Swept(d)
  <1>1. Elapsed <= Interval /\ Elapsed \in Nat /\ listed[d] \in Nat
    BY TypeParts, Timed DEF ReaderType, Elapsed, Listing
  <1> QED BY <1>1, Timed DEF Covered, Swept

\* An active device of which nothing is heard is in the alarm of every offline rule of the
\* fleet within the rule's timeout and a cycle, once it has been active for a cycle
\* (alarm_repository.py:43-52, alarm_worker.py:126-155, alarm_engine.py:55-64).
THEOREM SilenceIsDetected == Spec => []DetectedInTime
  <1>1. TypeOK /\ SourceInv /\ CycleInv => DetectedInTime
    <2> SUFFICES ASSUME TypeOK, SourceInv, CycleInv, NEW d \in Device, NEW r \in Rule,
                        Covered(d), r.type = "device_offline",
                        heard[d] > Timeout(r) + Interval, since > Timeout(r) + Interval
                 PROVE  <<r, d>> \in alarm
      BY DEF DetectedInTime
    <2>1. /\ Timeout(r) \in Nat /\ heard[d] \in Nat /\ since \in Nat
          /\ pause \in Nat /\ pause <= Interval
      BY TimeoutType, TypeParts, Timed DEF QueueType, ReaderType, Age
    <2>2. ASSUME row[d] # None PROVE row[d].age > Timeout(r) + Elapsed
      <3>1. row[d].age \in Nat  BY <2>2, TypeParts, Timed DEF StoreType, StatusRow, Age
      <3>2. heard[d] <= row[d].age \/ since <= row[d].age  BY <2>2 DEF SourceInv
      <3> QED BY <2>1, <3>1, <3>2, Timed DEF Elapsed
    <2>3. Silent(r, d)  BY <2>2 DEF Silent
    <2> QED BY <2>3, CoveredIsSwept DEF CycleInv
  <1> QED BY <1>1, SourceAlways, CycleAlways, PTL

\* An alarm of a device that has been active for a cycle outlives its condition by a cycle at
\* most (alarm_repository.py:43-52, alarm_worker.py:117-121).
THEOREM AlarmIsCleared == Spec => []ClearedInTime
  <1>1. TypeOK /\ CycleInv => ClearedInTime
    <2> SUFFICES ASSUME TypeOK, CycleInv, NEW d \in Device, NEW r \in Rule,
                        Covered(d), Settled(d), <<r, d>> \in alarm
                 PROVE  Triggers(r, row[d], reading[d])
      BY DEF ClearedInTime
    <2>1. Elapsed \in Nat /\ Elapsed <= Interval
      BY TypeParts, Timed DEF ReaderType, Elapsed
    <2>2. row[d] \in StatusRow \cup {None} /\ \A m \in Metrics : reading[d][m] \in ReadingRow \cup {None}
      BY TypeParts DEF StoreType
    <2>3. Steady(d)
      BY <2>1, <2>2, Timed DEF Settled, Steady, StatusRow, ReadingRow, Age
    <2> QED BY <2>3, CoveredIsSwept DEF CycleInv
  <1> QED BY <1>1, CycleAlways, PTL

-----------------------------------------------------------------------------
(* The fleet statistics.                                                   *)

\* In an undisturbed answer each count is still the count of what it counted.
QueryInv ==
  query.calm =>
    /\ query.at \in {"online", "done"} => query.active = Cardinality(active)
    /\ query.at = "done" => query.online = Cardinality(OnlineDevices)

LEMMA QueryNext == TypeOK /\ QueryInv /\ [Next]_vars => QueryInv'
  <1> SUFFICES ASSUME TypeOK, QueryInv, [Next]_vars PROVE QueryInv'  OBVIOUS
  <1>0. query \in [at : {"idle", "online", "done"}, active : Count, online : Count, calm : BOOLEAN]
    BY TypeParts DEF ReaderType
  <1>1. CASE query' = [query EXCEPT !.calm = FALSE]
    BY <1>0, <1>1 DEF QueryInv
  <1>2. CASE UNCHANGED <<query, active, row>>
    <2>1. OnlineDevices' = OnlineDevices  BY <1>2 DEF OnlineDevices, CountedOnline
    <2> QED BY <1>2, <2>1 DEF QueryInv
  <1>3. CASE CountActive
    <2>1. query'.at = "online" /\ query'.active = Cardinality(active) /\ active' = active
      BY <1>3 DEF CountActive, NoQuery
    <2> QED BY <2>1 DEF QueryInv
  <1>4. CASE CountOnline
    <2>1. /\ query'.at = "done" /\ query'.active = query.active /\ query'.calm = query.calm
          /\ query'.online = Cardinality(OnlineDevices) /\ active' = active /\ row' = row
          /\ query.at = "online"
      BY <1>0, <1>4 DEF CountOnline, stored
    <2>2. OnlineDevices' = OnlineDevices  BY <2>1 DEF OnlineDevices, CountedOnline
    <2> QED BY <2>1, <2>2 DEF QueryInv
  <1>5. \/ query' = [query EXCEPT !.calm = FALSE]
        \/ UNCHANGED <<query, active, row>>
        \/ CountActive \/ CountOnline
    BY DEF Next, DeviceStep, WorkerStep, Failure, Operator, Start, Stop, Crash, Report, Connect,
       Subscribe, HandleStatus, BrokerDown, BrokerUp, Drop, Kill, Restart, DeadLetterStatus, Cycle,
       SetActive, Tick, vars, stored
  <1> QED BY <1>1, <1>2, <1>3, <1>4, <1>5

\* The difference the answer gives is the number of active devices that are not online, if
\* nothing moved between its statements (stats.py:19-61).
THEOREM OfflineIsCounted == Spec => []OfflineCountExact
  <1>1. Init => TypeOK /\ QueryInv
    <2>1. Init => QueryInv  BY DEF Init, QueryInv, NoQuery
    <2> QED BY <2>1, InitType
  <1>2. TypeOK /\ QueryInv /\ [Next]_vars => (TypeOK /\ QueryInv)'  BY NextType, QueryNext
  <1>3. TypeOK /\ QueryInv => OfflineCountExact
    <2> SUFFICES ASSUME TypeOK, QueryInv, query.at = "done", query.calm,
                        OnlineDevices \subseteq active
                 PROVE  query.active - query.online = Cardinality({d \in active : ~CountedOnline(d)})
      BY DEF OfflineCountExact
    <2>1. active \in SUBSET Device /\ OnlineDevices \in SUBSET Device
      BY TypeParts DEF ReaderType, OnlineDevices
    <2>2. IsFiniteSet(active) /\ IsFiniteSet(OnlineDevices)  BY <2>1, Counted
    <2>3. {d \in active : ~CountedOnline(d)} = active \ OnlineDevices
      BY <2>1 DEF OnlineDevices
    <2>4. active \cap OnlineDevices = OnlineDevices  OBVIOUS
    <2>5. Cardinality(active \ OnlineDevices) = Cardinality(active) - Cardinality(OnlineDevices)
      BY <2>2, <2>4, FS_Difference
    <2> QED BY <2>3, <2>5 DEF QueryInv
  <1> QED BY <1>1, <1>2, <1>3, PTL DEF Spec

=============================================================================
