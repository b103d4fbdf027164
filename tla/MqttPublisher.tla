--------------------------- MODULE MqttPublisher ---------------------------
(***************************************************************************)
(* The API process's one MQTT connection: MqttPublisher, the lifespan that *)
(* starts and stops it, and concurrent POST /devices/{id}/commands.        *)
(*                                                                         *)
(* A step is what happens between two awaits.  aiomqtt is external: a call *)
(* on a client that is not connected raises MqttError, and a client whose  *)
(* connection is gone stays so.                                            *)
(***************************************************************************)
EXTENDS Naturals, Sequences

CONSTANTS
  Request,      \* requests to the commands endpoint
  MaxOps,       \* bound: changes of the broker and of the connection
  MaxFaults,    \* bound: SQL statements that fail
  MaxStops      \* bound: times the API process ends

ASSUME BoundsAssumption == MaxOps \in Nat /\ MaxFaults \in Nat /\ MaxStops \in Nat

\* "fresh" has never been entered; "closed" has been left.
ClientState == {"none", "fresh", "live", "dead", "closed"}
Locked == {"publish", "exit", "enter", "retry"}
Stage  == Locked \cup {"new", "wait", "done"}
Status == {0, 202, 404, 500, 503}

VARIABLES
  serving,        \* has the lifespan reached its yield
  broker,         \* is the broker reachable
  client,         \* self._client
  connected,      \* self._connected
  queue,          \* self._lock: its holder, then its waiters in order
  at, status,     \* the requests: where they stand, what they were answered
  qos,            \* what they asked for: 0, or 1 for 1 and 2
  delivered,      \* copies of each command the broker has
  ackLost,        \* history: an acknowledgement of the command was lost
  started,        \* history: this process's start() succeeded
  smooth,         \* history: broker and connections held since it took the lock,
                  \* in a process whose start() succeeded
  ops, faults, stops

process == <<serving, client, connected, queue>>
request == <<at, status, qos, delivered>>
history == <<ackLost, started, smooth>>
budget  == <<ops, faults, stops>>
vars    == <<process, broker, request, history, budget>>

TypeOK ==
  /\ serving \in BOOLEAN
  /\ broker \in BOOLEAN
  /\ client \in ClientState
  /\ connected \in BOOLEAN
  /\ queue \in Seq(Request)
  /\ at \in [Request -> Stage]
  /\ status \in [Request -> Status]
  /\ qos \in [Request -> {0, 1}]
  /\ delivered \in [Request -> Nat]
  /\ ackLost \in [Request -> BOOLEAN]
  /\ started \in BOOLEAN
  /\ smooth \in [Request -> BOOLEAN]
  /\ ops \in 0..MaxOps
  /\ faults \in 0..MaxFaults
  /\ stops \in 0..MaxStops

Init ==
  /\ serving = FALSE
  /\ broker \in BOOLEAN
  /\ client = "none"
  /\ connected = FALSE
  /\ queue = << >>
  /\ at = [r \in Request |-> "new"]
  /\ status = [r \in Request |-> 0]
  /\ qos \in [Request -> {0, 1}]
  /\ delivered = [r \in Request |-> 0]
  /\ ackLost = [r \in Request |-> FALSE]
  /\ started = FALSE
  /\ smooth = [r \in Request |-> FALSE]
  /\ ops = 0
  /\ faults = 0
  /\ stops = 0

-----------------------------------------------------------------------------
(* The lifespan.                                                           *)

\* A failed start is logged and the API serves all the same, without another try.
Startup ==
  /\ ~serving
  /\ serving' = TRUE
  /\ client' = IF broker THEN "live" ELSE "fresh"
  /\ connected' = broker
  /\ started' = broker
  /\ UNCHANGED <<broker, queue, request, ackLost, smooth, budget>>

SpendStop == stops < MaxStops /\ stops' = stops + 1 /\ UNCHANGED <<ops, faults>>

ProcessEnds ==
  /\ serving' = FALSE
  /\ client' = "none"
  /\ connected' = FALSE
  /\ started' = FALSE

\* Shutdown waits for the requests, then leaves the client; the next process
\* starts with a publisher of its own.
Shutdown ==
  /\ SpendStop
  /\ serving
  /\ \A r \in Request : at[r] \in {"new", "done"}
  /\ ProcessEnds
  /\ UNCHANGED <<broker, queue, request, ackLost, smooth>>

\* The requests in flight die with the process, unanswered.
Kill ==
  /\ SpendStop
  /\ serving
  /\ ProcessEnds
  /\ queue' = << >>
  /\ at' = [r \in Request |-> IF at[r] = "new" THEN "new" ELSE "done"]
  /\ UNCHANGED <<broker, status, qos, delivered, ackLost, smooth>>

-----------------------------------------------------------------------------
(* The broker and the network.                                             *)

SpendOp == ops < MaxOps /\ ops' = ops + 1 /\ UNCHANGED <<faults, stops>>
Disturbed == [r \in Request |-> FALSE]
Cut == IF client = "live" THEN "dead" ELSE client

BrokerDown ==
  /\ SpendOp
  /\ broker
  /\ broker' = FALSE
  /\ client' = Cut
  /\ smooth' = Disturbed
  /\ UNCHANGED <<serving, connected, queue, request, ackLost, started>>

BrokerUp ==
  /\ SpendOp
  /\ ~broker
  /\ broker' = TRUE
  /\ UNCHANGED <<process, request, history>>

Drop ==
  /\ SpendOp
  /\ client = "live"
  /\ client' = "dead"
  /\ smooth' = Disturbed
  /\ UNCHANGED <<serving, connected, queue, broker, request, ackLost, started>>

-----------------------------------------------------------------------------
(* publish_command and MqttPublisher.publish.                              *)

MoveTo(r, stage) == at' = [at EXCEPT ![r] = stage] /\ UNCHANGED <<status, queue>>

\* asyncio.Lock serves its waiters in order: the answer of the holder lets the next in.
NoLock(r) == queue # << >>
Holds(r) == queue # << >> /\ Head(queue) = r
LastComesFirst(r) == IF queue = << >> THEN <<r>> ELSE <<Head(queue), r>> \o Tail(queue)
Queued(r) == Append(queue, r)
Released(r) == IF Holds(r) THEN Tail(queue) ELSE queue

Answer(r, code) ==
  /\ at' = [at EXCEPT ![r] = "done"]
  /\ status' = [status EXCEPT ![r] = code]
  /\ queue' = Released(r)

\* `if not await repo.get(device_id)`, then `async with self._lock`.
Check(r) ==
  /\ serving
  /\ at[r] = "new"
  /\ \/ /\ Answer(r, 404)
     \/ /\ at' = [at EXCEPT ![r] = "wait"]
        /\ queue' = Queued(r)
        /\ status' = status
  /\ UNCHANGED <<serving, client, connected, broker, qos, delivered, history, budget>>

CheckFault(r) ==
  /\ faults < MaxFaults
  /\ faults' = faults + 1
  /\ serving
  /\ at[r] = "new"
  /\ Answer(r, 500)
  /\ UNCHANGED <<serving, client, connected, broker, qos, delivered, history, ops, stops>>

\* With the lock: RuntimeError, which alone the endpoint turns into 503.
Enter(r) ==
  /\ at[r] = "wait"
  /\ Holds(r)
  /\ \/ /\ ~connected
        /\ Answer(r, 503)
     \/ /\ connected
        /\ MoveTo(r, "publish")
  /\ smooth' = [smooth EXCEPT ![r] = broker /\ started]
  /\ UNCHANGED <<serving, client, connected, broker, qos, delivered, ackLost, started, budget>>

\* client.publish returned: with QoS 1 and 2 after the broker's acknowledgement.
Published(r) ==
  /\ at[r] \in {"publish", "retry"}
  /\ client = "live"
  /\ delivered' = [delivered EXCEPT ![r] = @ + 1]
  /\ Answer(r, 202)
  /\ UNCHANGED <<serving, client, connected, broker, qos, history, budget>>

\* client.publish raised MqttError: reconnect once and retry; the endpoint
\* does not catch the second one.
FailsAs502(r) == IF at[r] = "publish" THEN MoveTo(r, "exit") ELSE Answer(r, 502)
RetryForever(r) == MoveTo(r, "exit")
AfterFailure(r) == IF at[r] = "publish" THEN MoveTo(r, "exit") ELSE Answer(r, 500)

NotConnected(r) ==
  /\ at[r] \in {"publish", "retry"}
  /\ client # "live"
  /\ AfterFailure(r)
  /\ UNCHANGED <<serving, client, connected, broker, qos, delivered, history, budget>>

\* The broker has the command and its answer does not come: the connection dies,
\* or only aiomqtt's ten seconds pass.
LostAck(r) ==
  /\ SpendOp
  /\ at[r] \in {"publish", "retry"}
  /\ client = "live"
  /\ qos[r] = 1
  /\ delivered' = [delivered EXCEPT ![r] = @ + 1]
  /\ ackLost' = [ackLost EXCEPT ![r] = TRUE]
  /\ smooth' = Disturbed
  /\ client' \in {"live", "dead"}
  /\ AfterFailure(r)
  /\ UNCHANGED <<serving, connected, broker, qos, started>>

\* QoS 0: written to a socket that dies, and called published.
LostQuietly(r) ==
  /\ SpendOp
  /\ at[r] \in {"publish", "retry"}
  /\ client = "live"
  /\ qos[r] = 0
  /\ client' = "dead"
  /\ smooth' = Disturbed
  /\ Answer(r, 202)
  /\ UNCHANGED <<serving, connected, broker, qos, delivered, ackLost, started>>

\* _reconnect: leave the old client, whatever that raises...
ReconnectExit(r) ==
  /\ at[r] = "exit"
  /\ client' = "closed"
  /\ MoveTo(r, "enter")
  /\ UNCHANGED <<serving, connected, broker, qos, delivered, history, budget>>

\* ... and start() a new one.  _connected keeps its value when that fails.
RetrySkipped(r) == Answer(r, 202)
AfterReconnect(r) == MoveTo(r, "retry")
Cleared == FALSE
ConnectedAfterFailedStart == connected

ReconnectEnter(r) ==
  /\ at[r] = "enter"
  /\ \/ /\ broker
        /\ client' = "live"
        /\ connected' = TRUE
        /\ AfterReconnect(r)
     \/ /\ ~broker
        /\ client' = "fresh"
        /\ connected' = ConnectedAfterFailedStart
        /\ Answer(r, 500)
  /\ UNCHANGED <<serving, broker, qos, delivered, history, budget>>

-----------------------------------------------------------------------------
Proceed(r) ==
  \/ Enter(r) \/ Published(r) \/ NotConnected(r)
  \/ ReconnectExit(r) \/ ReconnectEnter(r)

Failure(r) == CheckFault(r) \/ LostAck(r) \/ LostQuietly(r)

Next ==
  \/ Startup \/ Shutdown \/ Kill
  \/ BrokerDown \/ BrokerUp \/ Drop
  \/ \E r \in Request : Check(r) \/ Proceed(r) \/ Failure(r)

\* The event loop runs every ready task; aiomqtt's calls end, by a timeout if not
\* by an answer.  Nothing makes a request arrive.
Fairness == \A r \in Request : WF_vars(Proceed(r))

Spec == Init /\ [][Next]_vars /\ Fairness

-----------------------------------------------------------------------------
(* Properties.                                                             *)

\* publisher.py:5 "a lock so concurrent publishes don't race on the same
\* connection": nobody uses the client while another replaces it.
OneInClient ==
  \A r, s \in Request : at[r] \in Locked /\ at[s] \in Locked => r = s

\* A 202 for QoS 1 or 2 means that the broker has the command; one refused with 404 or
\* 503 never reaches the device, so that the operator may send it again.
AnswersAreTrue ==
  \A r \in Request :
    /\ status[r] = 202 /\ qos[r] = 1 => delivered[r] > 0
    /\ status[r] \in {404, 503} => delivered[r] = 0

\* "reconnecting once and retrying" (publisher.py:52): at most two copies, and two
\* only after a lost acknowledgement.
AtMostOneRetry ==
  \A r \in Request : delivered[r] <= 2 /\ (delivered[r] = 2 => ackLost[r])

\* "automatic reconnect-on-failure" (publisher.py:7): in a process that started
\* with a broker, a command handled while the broker is up and the network holds
\* succeeds, whatever the outages and failed reconnects before it.
RecoversByItself ==
  \A r \in Request : smooth[r] /\ at[r] = "done" /\ status[r] # 0 => status[r] = 202

\* Publishing through one locked client, with its reconnects and failures, is serving
\* one line in order: nothing is sent before its turn or after its answer, and the
\* answer of a command is the end of it.
StageOf(stage) ==
  CASE stage = "new" -> "new" [] stage = "done" -> "through" [] OTHER -> "inside"
LedgerStage == [r \in Request |-> StageOf(at[r])]
Assured == {r \in Request : qos[r] = 1}

Ledger ==
  INSTANCE CommandLedger
  WITH line <- queue, stage <- LedgerStage, answer <- status, copies <- delivered,
       assured <- Assured
KeepsCommandLedger == Ledger!Spec

\* Every command is answered, or dies with the process.
CommandsAnswered == \A r \in Request : at[r] # "new" ~> at[r] = "done"

\* main.py:27 "command endpoints will 503 until the broker is reachable".
Refused(r) == status[r] = 0 /\ status'[r] = 503
RefusesOnlyUnreachable == [][\A r \in Request : Refused(r) => ~broker]_vars

=============================================================================
