------------------------------ MODULE Presence ------------------------------
(***************************************************************************)
(* From a device's announcement to what the platform says of it: the       *)
(* status a device leaves with the broker as a retained message, the       *)
(* mqtt-worker's connection and its backoff, the rows it stamps, the alarm *)
(* cycle that reads them, and the fleet statistics.                        *)
(*                                                                         *)
(* Time is discrete, and a row keeps its age instead of its timestamp.     *)
(* The clock does not tick while the worker or the alarm cycle has         *)
(* something to do: handling takes no time next to a tick.  MqttIngest and *)
(* AlarmWorker open these two steps up.                                    *)
(***************************************************************************)
EXTENDS AlarmEngine, Sequences, FiniteSets

CONSTANTS
  Device,      \* registered devices
  Rule,        \* enabled rules of the whole fleet: no device_id, no device_group
  Level,       \* values of a reading
  MinDelay, MaxDelay,  \* of the worker's reconnection
  Interval,    \* of the alarm cycle
  Window,      \* fleet statistics: how new an "online" row must be
  Horizon,     \* bound: ages beyond it are not told apart
  MaxOps,      \* bound: what devices, operators and the network do
  MaxFaults    \* bound: messages dead-lettered

ASSUME TimesAssumption ==
  /\ MinDelay \in Nat \ {0} /\ MaxDelay \in Nat /\ MinDelay <= MaxDelay
  /\ Interval \in Nat \ {0} /\ Window \in Nat
  /\ Horizon \in Nat /\ Horizon >= 2 * MaxDelay /\ Horizon > Window
\* stats.py counts five minutes, alarm_engine.py 300 s.
ASSUME WindowAssumption == Window <= DefaultTimeout
ASSUME BoundsAssumption == MaxOps \in Nat /\ MaxFaults \in Nat
ASSUME DeviceAssumption == IsFiniteSet(Device)

Age == 0..Horizon
Status == {"online", "offline"}
Link == {"connect", "subscribe", "live", "sleep", "down"}
Metrics == {"battery"}

StatusRow == [status : Status, age : Age]
ReadingRow == [value : Level, age : Age]
AlarmRule == [type : RuleType, metric : Metrics \cup {None}, threshold : Int \cup {None},
              timeout : Nat \cup {None}]

ASSUME NoneAssumption == None \notin StatusRow \cup ReadingRow
ASSUME RuleAssumption == Rule \subseteq AlarmRule /\ Level \subseteq Int

VARIABLES
  running,    \* devices whose program runs
  retained,   \* the broker's retained status of a device, or None
  broker,     \* is the broker up
  link,       \* where run_worker stands
  delay, wake,   \* its next sleep; what is left of the present one
  inbox,      \* statuses in the client's queue, per device
  row,        \* the newest device_status row of a device, or None
  reading,    \* the newest telemetry row of a device and metric, or None
  alarm,      \* <<rule, device>> with an active alarm
  pause,      \* ticks to the next alarm cycle
  active,     \* devices.is_active
  query,      \* a request for the fleet statistics
  heard,      \* history: age of the last status the device itself published
  since,      \* history: age of the last subscription
  missed,     \* history: devices whose last status was dead-lettered
  listed,     \* history: ticks since the device was set active or inactive
  away, lag,  \* history: ticks without a subscription; those with a broker asleep
  ops, faults

connection == <<link, delay, wake>>
stored  == <<row, reading>>
history == <<heard, since, missed, listed>>
outage  == <<away, lag>>
budget  == <<ops, faults>>
vars == <<running, retained, broker, connection, inbox, stored, alarm, pause, active, query,
          history, outage, budget>>

Count == 0..Cardinality(Device)
\* Beyond an interval one more tick makes no difference.
Listing == 0..(Interval + 1)
NoQuery == [at |-> "idle", active |-> 0, online |-> 0, calm |-> TRUE]

TypeOK ==
  /\ running \subseteq Device
  /\ retained \in [Device -> Status \cup {None}]
  /\ broker \in BOOLEAN
  /\ link \in Link
  /\ delay \in MinDelay..MaxDelay
  /\ wake \in 0..MaxDelay
  /\ inbox \in [Device -> Seq(Status)]
  /\ row \in [Device -> StatusRow \cup {None}]
  /\ reading \in [Device -> [Metrics -> ReadingRow \cup {None}]]
  /\ alarm \subseteq Rule \X Device
  /\ pause \in 0..Interval
  /\ active \subseteq Device
  /\ query \in [at : {"idle", "online", "done"}, active : Count, online : Count, calm : BOOLEAN]
  /\ heard \in [Device -> Age]
  /\ since \in Age
  /\ missed \subseteq Device
  /\ listed \in [Device -> Listing]
  /\ away \in Age
  /\ lag \in Age
  /\ ops \in 0..MaxOps
  /\ faults \in 0..MaxFaults

Init ==
  /\ running = {}
  /\ retained = [d \in Device |-> None]
  /\ broker \in BOOLEAN
  /\ link = "connect"
  /\ delay = MinDelay
  /\ wake = 0
  /\ inbox = [d \in Device |-> << >>]
  /\ row = [d \in Device |-> None]
  /\ reading = [d \in Device |-> [m \in Metrics |-> None]]
  /\ alarm = {}
  /\ pause = 0
  /\ active = Device
  /\ query = NoQuery
  /\ heard = [d \in Device |-> 0]
  /\ since = 0
  /\ missed = {}
  /\ listed = [d \in Device |-> 0]
  /\ away = 0
  /\ lag = 0
  /\ ops = 0
  /\ faults = 0

-----------------------------------------------------------------------------
(* The devices (scripts/simulate_device.py) and the broker.                *)

SpendOp == ops < MaxOps /\ ops' = ops + 1 /\ faults' = faults

\* A retained publish: the broker keeps it, and sends it on to a subscriber.
Retain(d, status) == [retained EXCEPT ![d] = status]
SentOn(d, status) ==
  IF link = "live" THEN [inbox EXCEPT ![d] = Append(@, status)] ELSE inbox

Publish(d, status) ==
  /\ retained' = Retain(d, status)
  /\ inbox' = SentOn(d, status)
  /\ heard' = [heard EXCEPT ![d] = 0]

\* connect() needs a broker, and "online" is published once, at the start.
Start(d) ==
  /\ SpendOp
  /\ d \notin running
  /\ broker
  /\ running' = running \cup {d}
  /\ Publish(d, "online")
  /\ UNCHANGED <<broker, connection, stored, alarm, pause, active, query, since, missed, listed,
                 outage>>

\* The finally clause; without a broker the message dies with the program.
Stop(d) ==
  /\ SpendOp
  /\ d \in running
  /\ running' = running \ {d}
  /\ \/ broker /\ Publish(d, "offline")
     \/ ~broker /\ UNCHANGED <<retained, inbox, heard>>
  /\ UNCHANGED <<broker, connection, stored, alarm, pause, active, query, since, missed, listed,
                 outage>>

\* Killed or without power: no last will was set.
Crash(d) ==
  /\ SpendOp
  /\ d \in running
  /\ running' = running \ {d}
  /\ UNCHANGED <<retained, broker, connection, inbox, stored, alarm, pause, active, query,
                 history, outage>>

\* Telemetry is not retained: a worker that is not subscribed never sees it.
Report(d, m, v) ==
  /\ SpendOp
  /\ d \in running
  /\ broker
  /\ link = "live"
  /\ reading' = [reading EXCEPT ![d][m] = [value |-> v, age |-> 0]]
  /\ UNCHANGED <<running, retained, broker, connection, inbox, row, alarm, pause, active, query,
                 history, outage>>

\* except MqttError: sleep(delay), and double it up to the cap.
Unbounded == 2 * delay
NextDelay == IF 2 * delay <= MaxDelay THEN 2 * delay ELSE MaxDelay

Backoff ==
  /\ link' = "sleep"
  /\ wake' = delay
  /\ delay' = NextDelay

\* Out of the message loop with MqttError; the client's queue goes with the client.
Lose ==
  \/ /\ link \in {"subscribe", "live"}
     /\ Backoff
     /\ inbox' = [d \in Device |-> << >>]
  \/ /\ link \notin {"subscribe", "live"}
     /\ UNCHANGED <<connection, inbox>>

BrokerDown ==
  /\ SpendOp
  /\ broker
  /\ broker' = FALSE
  /\ lag' = 0
  /\ Lose
  /\ UNCHANGED <<running, retained, stored, alarm, pause, active, query, history, away>>

\* mosquitto.conf has persistence: the retained messages are still there.
BrokerUp ==
  /\ SpendOp
  /\ ~broker
  /\ broker' = TRUE
  /\ UNCHANGED <<running, retained, connection, inbox, stored, alarm, pause, active, query,
                 history, outage>>

Drop ==
  /\ SpendOp
  /\ link \in {"subscribe", "live"}
  /\ Lose
  /\ UNCHANGED <<running, retained, broker, stored, alarm, pause, active, query, history, outage>>

-----------------------------------------------------------------------------
(* The ingestion worker.                                                   *)

\* aiomqtt.Client(...): a connection, not a subscription, resets the delay.
NeverReset == delay
DelayAfterConnect == MinDelay

Connect ==
  /\ link = "connect"
  /\ \/ /\ broker
        /\ link' = "subscribe"
        /\ delay' = DelayAfterConnect
        /\ wake' = wake
     \/ /\ ~broker
        /\ Backoff
  /\ lag' = 0
  /\ UNCHANGED <<running, retained, broker, inbox, stored, alarm, pause, active, query,
                 history, away, budget>>

\* subscribe("phy/+/status"): the broker sends what it retained.
NothingRetained(d) == << >>
Replayed(d) == IF retained[d] = None THEN << >> ELSE <<retained[d]>>

Subscribe ==
  /\ link = "subscribe"
  /\ link' = "live"
  /\ inbox' = [d \in Device |-> Replayed(d)]
  /\ since' = 0
  /\ missed' = {}
  /\ away' = 0
  /\ UNCHANGED <<running, retained, broker, delay, wake, stored, alarm, pause, active, query,
                 heard, listed, lag, budget>>

\* handle_status: the row is stamped when it is handled.
Stamped(d) == [status |-> Head(inbox[d]), age |-> 0]
Waiting(d) == link = "live" /\ inbox[d] # << >>
Taken(d) == [inbox EXCEPT ![d] = Tail(@)]

HandleStatus(d) ==
  /\ Waiting(d)
  /\ row' = [row EXCEPT ![d] = Stamped(d)]
  /\ inbox' = Taken(d)
  /\ missed' = missed \ {d}
  /\ query' = [query EXCEPT !.calm = FALSE]
  /\ UNCHANGED <<running, retained, broker, connection, reading, alarm, pause, active, heard,
                 since, listed, outage, budget>>

DeadLetterStatus(d) ==
  /\ faults < MaxFaults
  /\ faults' = faults + 1
  /\ Waiting(d)
  /\ inbox' = Taken(d)
  /\ missed' = missed \cup {d}
  /\ UNCHANGED <<running, retained, broker, connection, stored, alarm, pause, active, query,
                 heard, since, listed, outage, ops>>

Kill ==
  /\ SpendOp
  /\ link # "down"
  /\ link' = "down"
  /\ wake' = 0
  /\ lag' = 0
  /\ inbox' = [d \in Device |-> << >>]
  /\ UNCHANGED <<running, retained, broker, delay, stored, alarm, pause, active, query, history,
                 away>>

\* A new run_worker.
Restart ==
  /\ link = "down"
  /\ link' = "connect"
  /\ delay' = MinDelay
  /\ UNCHANGED <<running, retained, broker, wake, inbox, stored, alarm, pause, active, query,
                 history, outage, budget>>

-----------------------------------------------------------------------------
(* The alarm cycle, and the operators.                                     *)

\* AlarmRuleRepository.target_devices, of a rule of the whole fleet.
TargetDevices == active
Evaluated == Rule \X TargetDevices

\* evaluation_cycle: each rule on each of its devices, opened or resolved; then the sleep.
\* An alarm of a device that is not active stays as it is.
Violations == {p \in Evaluated : Triggers(p[1], row[p[2]], reading[p[2]])}
CycleOnlyOpens == alarm \cup Violations
CycleResult == (alarm \ Evaluated) \cup Violations

Cycle ==
  /\ pause = 0
  /\ alarm' = CycleResult
  /\ pause' = Interval
  /\ UNCHANGED <<running, retained, broker, connection, inbox, stored, active, query, history,
                 outage, budget>>

\* PATCH /devices/{device_id} with is_active.
SetActive(d) ==
  /\ SpendOp
  /\ active' = IF d \in active THEN active \ {d} ELSE active \cup {d}
  /\ listed' = [listed EXCEPT ![d] = 0]
  /\ query' = [query EXCEPT !.calm = FALSE]
  /\ UNCHANGED <<running, retained, broker, connection, inbox, stored, alarm, pause, heard, since,
                 missed, outage>>

\* fleet_stats: a count per statement, each of what is committed by then.
CountActive ==
  /\ SpendOp
  /\ query.at = "idle"
  /\ query' = [NoQuery EXCEPT !.at = "online", !.active = Cardinality(active)]
  /\ UNCHANGED <<running, retained, broker, connection, inbox, stored, alarm, pause, active,
                 history, outage>>

\* "Online" = most recent status row per device says online, seen in last 5 min.
NoCutoff(d) == row[d] # None /\ row[d].status = "online"
CountedOnline(d) == row[d] # None /\ row[d].status = "online" /\ row[d].age <= Window

RecentRows == {d \in Device : row[d] # None /\ row[d].age <= Window}
OnlineDevices == {d \in Device : CountedOnline(d)}

CountOnline ==
  /\ query.at = "online"
  /\ query' = [query EXCEPT !.at = "done", !.online = Cardinality(OnlineDevices)]
  /\ UNCHANGED <<running, retained, broker, connection, inbox, stored, alarm, pause, active,
                 history, outage, budget>>

-----------------------------------------------------------------------------
(* The clock.                                                              *)

Later(age) == IF age < Horizon THEN age + 1 ELSE age
Older(r) == IF r = None THEN None ELSE [r EXCEPT !.age = Later(@)]

\* A worker that can take a step takes it before the next tick.
Idle ==
  /\ link \in {"sleep", "live", "down"}
  /\ \A d \in Device : ~Waiting(d)
  /\ pause > 0

\* asyncio.sleep(delay) ends.
AsleepForever == link
Woken == IF link = "sleep" /\ wake = 1 THEN "connect" ELSE link

Tick ==
  /\ Idle
  /\ link' = Woken
  /\ wake' = IF wake > 0 THEN wake - 1 ELSE 0
  /\ row' = [d \in Device |-> Older(row[d])]
  /\ reading' = [d \in Device |-> [m \in Metrics |-> Older(reading[d][m])]]
  /\ heard' = [d \in Device |-> Later(heard[d])]
  /\ since' = Later(since)
  /\ listed' = [d \in Device |-> IF listed[d] <= Interval THEN listed[d] + 1 ELSE listed[d]]
  /\ pause' = pause - 1
  /\ away' = IF link = "live" THEN 0 ELSE Later(away)
  /\ lag' = IF link = "sleep" /\ broker THEN Later(lag) ELSE 0
  /\ query' = [query EXCEPT !.calm = FALSE]
  /\ UNCHANGED <<running, retained, broker, delay, inbox, alarm, active, missed, budget>>

-----------------------------------------------------------------------------
WorkerStep == Connect \/ Subscribe \/ \E d \in Device : HandleStatus(d)

DeviceStep ==
  \E d \in Device :
    \/ Start(d) \/ Stop(d) \/ Crash(d)
    \/ \E m \in Metrics, v \in Level : Report(d, m, v)

Operator == CountActive \/ CountOnline \/ \E d \in Device : SetActive(d)

Failure ==
  \/ BrokerDown \/ Drop \/ Kill
  \/ \E d \in Device : DeadLetterStatus(d)

Next ==
  \/ DeviceStep \/ WorkerStep \/ Operator \/ Failure
  \/ BrokerUp \/ Restart \/ Cycle \/ Tick

\* Time passes, ready tasks run, and compose restarts a container that exits.
Fairness ==
  WF_vars(WorkerStep) /\ WF_vars(Restart) /\ WF_vars(Cycle) /\ WF_vars(Tick)

Spec == Init /\ [][Next]_vars /\ Fairness

-----------------------------------------------------------------------------
(* Properties.                                                             *)

\* The backoff (mqtt_worker.py:205): once the broker is back, the worker sleeps on for
\* no longer than it had been without one, plus the shortest delay, and never longer
\* than the longest, whatever connections came and went before.
CatchesUp ==
  link = "sleep" /\ broker => lag <= (away - lag) + MinDelay /\ lag <= MaxDelay

\* A broker that stays up gets its subscriber back.
Returns == <>[]broker => []<>(link = "live")

\* What was said while the worker was away is not lost: with its queue handled, its
\* newest row of a device is the last status the broker took, unless that very message
\* was dead-lettered.
RetainedHeals ==
  \A d \in Device :
    link = "live" /\ inbox[d] = << >> /\ d \notin missed /\ retained[d] # None
      => row[d] # None /\ row[d].status = retained[d]

\* A device is counted online only if it spoke within the window, or the worker
\* subscribed within it and the broker spoke for the device.
OnlineHasSource ==
  \A d \in Device : CountedOnline(d) => heard[d] <= Window \/ since <= Window

\* API_DOCUMENTATION.md:332: "Online" is a row that "was seen within the last 5 minutes",
\* in what init.sql:29 calls the "last-seen history" of the devices: the device spoke
\* that lately.
OnlineMeansSeen == \A d \in Device : CountedOnline(d) => heard[d] <= Window

\* The statistics and the alarms draw the line at the same age: a device counted online
\* is in no violation of an offline rule that leaves the timeout at its default.
OnlineIsNotOffline ==
  \A d \in Device, r \in Rule :
    CountedOnline(d) /\ r.type = "device_offline" /\ r.timeout \in {None, 0}
      => ~DeviceOffline(r, row[d])

\* Active, and not since less than a whole cycle: the last cycle evaluated it.
Covered(d) == d \in active /\ listed[d] > Interval

\* A device that the cycle covers is in the alarm of an offline rule when nothing was heard
\* of it for the rule's timeout and a cycle, dead or running (it says "online" only when it
\* starts), unless a new subscription repeated its last status meanwhile.
DetectedInTime ==
  \A d \in Device, r \in Rule :
    LET limit == Timeout(r) + Interval
    IN  Covered(d) /\ r.type = "device_offline" /\ heard[d] > limit /\ since > limit
          => <<r, d>> \in alarm

\* An alarm of a device that the cycle covers does not outlive its condition by more than a
\* cycle.  (One of a device set inactive does: it is in nobody's cycle any more.)
Settled(d) ==
  /\ row[d] # None => row[d].age > Interval
  /\ \A m \in Metrics : reading[d][m] # None => reading[d][m].age > Interval

ClearedInTime ==
  \A d \in Device, r \in Rule :
    Covered(d) /\ Settled(d) /\ <<r, d>> \in alarm => Triggers(r, row[d], reading[d])

\* In an answer that nothing disturbed, and with no inactive device online, the devices
\* offline or unknown are the active ones that are not online.
OfflineCountExact ==
  query.at = "done" /\ query.calm /\ OnlineDevices \subseteq active
    => query.active - query.online = Cardinality({d \in active : ~CountedOnline(d)})

=============================================================================
