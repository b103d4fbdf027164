# A verification development for the IoT time-series platform

TLA+ modules that model the platform's Python services, TLC configurations that
check them on small instances, and TLAPS proofs of what holds for every instance.
`tlc -config X.cfg MCY` runs a check, `tlapm M.tla` checks the proofs of a module.
`PROJECT.json` lists components, runs, mutants, findings, hazards and theorems,
and maps each definition to the lines it models.

## 1. The system

Three Python processes share one TimescaleDB and one Mosquitto broker.

| Component | State it keeps | Operations | Hard part |
|---|---|---|---|
| MQTT ingestion worker (`app/workers/mqtt_worker.py`) | the client's queue, its copy of the known-device cache | one message at a time: look up or register the device, store rows, write an audit row; reconnect loop | several transactions per message; the existence check and the INSERT race with the API; a crash or reconnect drops what MQTT already acknowledged |
| Device repository (`app/repositories/device_repository.py`) | a module-level TTL cache, so one copy per process | create, get, update, delete, upsert | the two copies are never synchronised |
| Device endpoints (`app/api/devices.py`) | none (rows of `devices`) | check, then insert / delete, one statement per await | concurrent requests between check and write |
| Schema (`sql/init.sql`) | tables | keys, cascades, checks | it decides who loses a race |
| Alarm worker (`app/workers/alarm_worker.py`) | the detached list of rules, its MQTT client | a cycle over rules and their devices: evaluate, look up, open or close an alarm, notify | everything it read may be stale when it writes; errors abandon a rule; the client is never remade |
| Alarm repositories and endpoints (`alarm_repository.py`, `api/alarms.py`) | `alarm_rules`, `alarms` | CRUD of rules, resolve | act between any two statements of the worker |
| Rule functions (`services/alarm_engine.py`) | none | compare a reading, a status or an age | edge values |
| Notifications (`services/notifications.py`) | none | MQTT, webhook, Slack, e-mail, failures swallowed | swallowing hides a dead connection |
| Command publisher (`mqtt/publisher.py`, `api/commands.py`, lifespan of `main.py`) | one client, a flag, an `asyncio.Lock` | start, stop, publish with one reconnect and one retry | partial failure of the reconnect; lost acknowledgements |
| Devices (`scripts/simulate_device.py`) | a retained status at the broker | announce, report, sign off, die | what they say while nobody listens |
| Authentication, API keys (`api/auth.py`, `core/dependencies.py`, `core/security.py`, `user_repository.py`) | `users`, `api_keys` | login, register, create and revoke keys | revocation against use, a failure between commit and answer, a missing import |
| Statistics (`api/stats.py`) | none | counts, one statement each | what counts as online; counts that are not of one moment |
| Request logging, rate limit (`middleware/`) | a context variable | one log line per request | when the id leaves the context |
| Health, dashboard, nginx, Prometheus, Grafana, Loki | none of the platform's | read-only or configuration | - |

They interact through tables (the worker, the API and the alarm worker all write
under the same foreign keys), through the broker (devices to the ingestion worker,
the API to devices, the alarm worker to `alarms/{device}`), and through compose,
which starts a container again when its process exits.

What makes each correct: ingestion audits every message exactly once and the audit
is true; rows never outlive their device; the cache lies for a bounded time. The
alarm worker keeps one open alarm per (device, rule), never reopens one, closes
only what it evaluated, and converges. The publisher's answers are true and it
recovers from an outage by itself. What the platform says of a device is no older than
its windows and timeouts allow, and an outage heals. A revoked key stays out.

## 2. Modules

| Module | Models |
|---|---|
| `MqttIngest` | ingestion worker, both caches, create and delete of devices, the tables they share |
| `IngestLedger` | what ingestion promises about the tables, whoever writes them |
| `AlarmWorker` | alarm worker, with the API, devices and broker changing everything around it |
| `AlarmLedger` | what the alarm subsystem promises about `alarms` |
| `AlarmEngine` | the evaluation functions and their dispatch, as operators |
| `Presence` | devices, broker, the worker's reconnect loop, status and telemetry rows with their ages, the alarm cycle, the fleet statistics: a composition over time |
| `MqttPublisher` | the API's MQTT connection and concurrent commands |
| `CommandLedger` | what the command endpoint promises its callers |
| `ApiRequests` | rate limit, request logging, credentials, and the handlers of `api/auth.py` |
| `KeyLedger` | what the API promises about its keys |
| `MqttIngestProofs`, `AlarmWorkerProofs`, `MqttPublisherProofs`, `PresenceProofs`, `ApiRequestsProofs` | inductive invariants, theorems, and three of the refinements |
| `AlarmCycleProofs` | that an undisturbed alarm cycle is exact |
| `ApiKeyProofs` | that `ApiRequests` implements `KeyLedger`, and what follows for a key |
| `MCIngest`, `MCAlarm`, `MCPublisher`, `MCPresence`, `MCApi` | small sets and scopes for TLC |

A step is what the code does between two awaits: one SQL statement with its
COMMIT (PostgreSQL at READ COMMITTED sees the last committed tables) and the
synchronous code that follows it. So every interleaving of coroutines and
processes at an await is an interleaving of actions.

### MqttIngest

`phase` is where `process_message` stands. `Take` is the loop and the synchronous
prefix: JSON and topic checks, the cache test. `Lookup` and `Register` are the two
statements of `upsert_from_telemetry`, `Store` is `handle_telemetry` or
`handle_status` (all rows of a message in one commit), `Ack` the audit row with
`processed = true`, `DeadLetter` the one with `false`, from the except clause or
an early return. `CreateCheck`/`CreateInsert`/`CreateRefresh` and
`DeleteCheck`/`DeleteAgain`/`DeleteErase` are the handlers of `api/devices.py`
with the repository calls they make. `Tick` and `Evict` are the TTLCache: entries
keep their deadline when hit, and a full cache drops them early.

Failures: `Fault` is a statement that raises inside the try block (rolled back),
`LostCommit` the same when the server had committed and the connection died before
saying so, `FaultInDeadLetter` a failing audit INSERT, which nothing catches.
`Kill` ends the process anywhere. `Disconnect` is `MqttError` out of the message
loop: the same process and cache, a new client. aiomqtt queues what MQTT has
already acknowledged in a clean session, so `Restart` and `Disconnect` lose the
queue (`next` jumps to the end of the inbox).

A payload is one of four kinds, the ones handling can tell apart: readings that
make rows, valid with none, refused by the handler or a CHECK, not JSON. `rows`
holds messages, not metrics, because `session.commit()` is once per message.

`IngestLedger` says the same to a reader of the tables: messages are judged in order,
rows are written at most once, before the verdict and with their device, "processed" is
only ever a first verdict, and behind the frontier nothing changes except by a delete.
`KeepsIngestLedger` is the refinement: `stored` is the device of each message in `rows`,
`verdict` what the audit counters say, `frontier` is `next`.

### AlarmWorker and AlarmLedger

`phase` walks `run_worker`, `evaluation_cycle` and `evaluate_rule`: connect, list
the rules, take one, list its targets, evaluate a device, look up its open alarm,
then INSERT, refresh and notify, or look up again and UPDATE by id. `job` is the
detached copy of the rule the cycle holds: changes to `config` reach it only in
the next cycle. Telemetry, thresholds and time are abstracted to `violating`, the
pairs for which evaluating the latest row triggers; `SilenceRule` are the rules
that trigger when there is no row (`device_offline`, `sensor_timeout`). Rules and
devices are taken from their sets in any order, which covers `ORDER BY created_at`.

Everybody else acts between any two statements: rules created, changed, deleted;
devices created (also by the ingestion worker), changed, deleted with the cascade
through `alarm_rules` and `alarms`; alarms resolved; conditions changing; the
broker going and coming. A violated foreign key and an ambiguous lookup raise, and
`AbortRule` is the except clause that goes on with the next rule.

`quiet` is a history variable: since the cycle listed the rules nobody else has changed
anything and no statement has failed. `CycleIsExact` says what such a cycle has achieved,
rule by rule: an open alarm on exactly those devices of the rule where its condition holds,
whatever the tables held before. It is what allows `Presence` to take a cycle for one step
with one result.

`AlarmLedger` says the same for a client of the table: `Open` a pair that has no
open alarm under a new id, `Close` one for good, `Purge` with a device or a rule.
`KeepsAlarmLedger` is the refinement; the two variables map to themselves.

### MqttPublisher

`queue` is the `asyncio.Lock`: its head holds it, the rest wait in order, as
asyncio serves them. A request passes `Check` (the device lookup), `Enter` (with
the lock, the `_connected` test), `Published` or `NotConnected`, then
`ReconnectExit`, `ReconnectEnter` and one retry. `client` is the aiomqtt client:
never entered, live, dead, left. `LostAck` is an acknowledgement that does not
come (QoS 1, 2), `LostQuietly` a QoS 0 message written to a dying socket. QoS 2 is
treated as 1: its exactly-once ends with the connection, and the retry uses a new
one. `smooth` is a history variable: the broker and the connections held since the
request took the lock.

`CommandLedger` is the endpoint as its callers know it: one line, served in order, each
command sent only while it is first and at most twice, and left with a true answer or with
the process. `KeepsCommandLedger` is the refinement: the line is `queue`, the stages are `at`
with everything between the lock's two ends taken as "inside", `copies` is `delivered`,
and the `assured` commands are those of QoS 1 or 2.

### AlarmEngine and Presence

`AlarmEngine` has one operator per `evaluate_*` function, and `Triggers` is
`_evaluate_for_device`. `Presence` puts a clock around it. A row carries its age, so
`now - time` is a number, and ages beyond `Horizon` are not told apart. `link` is where
`run_worker` stands: connecting, between connection and subscription, in the message
loop, in `asyncio.sleep`, dead. `delay` is the variable of the code, `wake` what is left
of the sleep. A device publishes "online" when it starts and "offline" in its `finally`,
both retained, and nothing when it dies; `Subscribe` brings each retained status once
more, and `HandleStatus` stamps it with the present. `CountActive` and `CountOnline` are
the statements of `fleet_stats`.

`Cycle` is `evaluation_cycle` on the newest rows. The rules are those of the whole fleet,
so `TargetDevices` are the active devices: `CycleResult` opens and resolves their alarms and
leaves those of inactive devices alone, as the code does. (Rules pinned to a device, which
do not look at `is_active`, and rules of a group are `AlarmWorker`'s.) `listed` is a history
variable: the ticks since an operator last changed `is_active` of a device, counted up to one
more than a cycle. `Covered` are the devices that are active and have been for a whole cycle,
and `DetectedInTime` and `ClearedInTime` speak of them alone. An alarm of a device set
inactive stays open whatever the device does, as any alarm out of its rule's scope
(`alarm_disabled`).

`Tick` waits until the worker and the cycle have nothing to do: handling takes no time
next to a tick, which stands for seconds. `MqttIngest` and `AlarmWorker` open these two
steps up; what they add (rows lost to a crash, a cycle that fails half way) appears here
as `DeadLetterStatus`, `Kill` and `Drop`. A failing alarm cycle does not appear:
`DetectedInTime` and `ClearedInTime` hold from the cycle that succeeds.

### ApiRequests

A request passes the limiter, the logging middleware, `get_current_principal` with
`require_role`, and its handler, one SQL statement at a time. `Answer` is the path
through `call_next` that returns, `Raise` the one that raises; each writes the line with
the id the context holds at that moment. A credential is nothing valid, a token of a
login, or a key its creator was shown; a token is checked without the database. `barred`
remembers which revocations had been answered when a request came. `Fault` is a failing
statement, rolled back or committed without an answer; `Kill` ends every request of the
process.

`LoggedOnce` says which requests have a line, and of which event: exactly one for each that
reaches the logging and is answered; none for one under way or dead with its process, and
none for one refused with 429, because `SlowAPIMiddleware` is the outer one. What
`logging.py` says of itself is more than that: one line per request, each with the request's
id. The run `api_line_id` shows the second false; the 429 is the exception to the first.

`KeyLedger` leaves out the handlers: a request that is let in as an administrator's holds
an `office` until it has acted, once, by issuing a key under a new id or withdrawing one;
a key it issued is in its `hand` until it is shown. `KeepsKeyLedger` is the refinement:
`office` are the requests past the role check of an administrator's operation that have
not acted, `hand` is the key of a request at its refresh, `issued`, `granted` and
`working` are `lastKey`, `keyRole` and `active`, `badge` the credential, `signedIn` the
tokens.

## 3. Runs

| Run | Instance | Shows |
|---|---|---|
| `ingest_safety` | 2 messages, TTL 2, 1 fault, 1 stop; 2 requests on 1 device, or 1 request and 2 devices | all properties of `MqttIngest`, the refinement, and that the loop drains |
| `alarm_safety` | 3 changes on 2 rules and 1 device with 1 fault or kill, or 2 changes on 1 rule, 2 devices and a group with both | all properties of `AlarmWorker`, the refinement, the exact cycle, convergence |
| `publisher_safety` | 3 requests, 4 network changes, 1 fault, 1 stop | all properties of `MqttPublisher`, the refinement, and that the lock starves nobody |
| `presence` | 2 devices, a rule of each type, delays 1, 2 and 3, window and default timeout 2, cycle 2, 4 operations, 1 dead letter; past 2 operations the second device is silent | all properties of `Presence`: the backoff, the retained statuses, who counts as online, the alarms of active devices, the answers of `fleet_stats` |
| `api_requests` | any 2 requests with 2 keys, 1 fault, 1 death; or 2 revocations and a use | all properties of `ApiRequests`, the refinement, and that requests are answered |

The other runs each check one statement of the documentation, a comment or a test and
find it false of the code:

| Run | Statement | What the code does |
|---|---|---|
| `ingest_stale_cache` | `device_repository.py:12` deletes invalidate immediately | only in the process that deleted; the worker believes in the device for up to 60 s, and its messages are dead-lettered |
| `ingest_crash` | `mqtt_worker.py:161` no failure crashes the worker | a failing audit INSERT does |
| `alarm_disabled` | `alarm_worker.py:8` a clearing condition auto-resolves | not for a rule that was disabled or re-scoped meanwhile |
| `alarm_broker` | `.env.example:41` the MQTT channel works while the broker is reachable | not after one lost connection, for the life of the process |
| `publisher_start` | `main.py:27` 503 until the broker is reachable | 503 also afterwards, after a failed start |
| `presence_replay` | `API_DOCUMENTATION.md:332`, `init.sql:29` online means seen within 5 minutes | a new subscription makes the retained "online" of a device that died a new row |
| `api_line_id` | `logging.py:4` every line of a request carries its id | the line of a request that completes carries "-": `dispatch` resets the context first |

Four more were met and have no run. Each takes one request, or two, to see:
`user_repository.py:33` names `timezone`, which the module does not import, so every
registration of a free name ends as 500 (`RegisterCreate`), where `tests/test_auth.py:61`
expects 201; a request refused with 429 has no line in the log, though `logging.py:51` says
"one structured line per request" (`LoggedFor`); two registrations of a device between check
and INSERT end as 500, not 409 (`API_DOCUMENTATION.md:207`); a command after the broker went
away ends as 500, not 503 (`API_DOCUMENTATION.md:259`).

Bounds. Two messages are a message and its successor: what one leaves behind, the
next finds. Two requests are a race on one device, one fault or stop is a failure
at any step (two failures of one message are of no interest: the second, in the
dead-letter write, ends the process and is covered by a fault there). A TTL of 2
tells a sliding deadline from a fixed one. Three changes allow a rule to be fired,
changed and changed back under a cycle. Three commands are a holder of the lock and
two waiters; four network changes are two outages with their ends. In `presence` the
delays 1, 2 and 3 are the shortest, a doubled and a capped one; the window and the default
timeout are well below the horizon, so that rows grow old enough to fall out of both; and
four operations are a start, a death and an outage with its end. Two keys are one that
was there and one that is created. All counters that stop the state space
(`MaxMessages`, `MaxFaults`, `MaxStops`, `MaxOps`, `MaxKills`, `MaxKeys`) are guards of
environment and failure actions, or of a request that comes, never of the code's own
steps.

Scopes. An MC module may run the union of smaller instances, so that one run answers
for all of them: `Scope` says which of its constants are in play together, `MCSpec` is the
specification restricted to states in it. Only environment and failure actions leave
the scope (in `MCApi` also the choice of a new key's role, which can be made inside it), so
no action that fairness speaks of is cut off, and fairness means the same as
in `Spec`. Every action of the modules is taken inside the scopes (TLC's coverage,
with `Scope` given as a CONSTRAINT of `Spec`, counts them one by one).

Deadlock is checked for the alarm worker and for `Presence`, which run for ever. It is
off for `MqttIngest`, `MqttPublisher` and `ApiRequests`, whose instances really stop when
their messages and requests are used up.

Every property of a passing run is paired with a mutant, a plausible bug in one
mapped definition under which TLC must find it violated.

## 4. Fairness

`WF_vars(WorkerStep)` in both workers: asyncio runs a ready task, and a statement
on PostgreSQL ends, in success or in an exception. `WF_vars(Restart)`: compose
restarts a container that exits (`restart: unless-stopped`). In the publisher,
`WF_vars(Proceed(r))` per request: aiomqtt's calls end in an answer or in a
timeout, and in `ApiRequests` `WF_vars(Handle(r))` for the same reason. `Presence` adds
`WF_vars(Tick)`, time passes, and `WF_vars(Cycle)`, the sleeping cycle wakes up. Nothing
makes a message or a request arrive, a broker come back, a condition change or a cache
entry expire, and no failure is fair. The alarm
worker's choice of the next rule or device needs no fairness of its own: each is
taken once per cycle.

## 5. Proofs

For every set of devices, groups, rules and requests, every TTL and every bound.
The assumptions are those of the modules: bounds are naturals, the TTL and the delays
are positive, the statistics' window is no longer than the default timeout (both are 300 s
in the code), the horizon lies beyond the times it is compared with, requests and devices
that are counted are finitely many, NULL and "no device id" are not ids. TLC evaluates them
in every run.

**MqttIngestProofs.** The properties are not inductive: that a processed message has
its rows depends on what the worker still holds in its hand. `IInv` adds, phase by
phase, what the position in `process_message` knows: a message before `Ack` has its
rows or needs none (`AuditInv`); rows of the message in hand mean that a later
statement failed (`DeadInv`); how many audit rows it has so far (`CountInv`); of a
device no request touched, the cache and the position tell the truth about its row
(`KnownInv`); the time a stale entry was believed plus the time left is at most one
TTL (`StaleInv`); an inserted registration holds the row until a delete
(`CreatorInv`). There is one lemma per part and one step per action in it. From
`Inductive` follow `AuditIsTruthful`, `DeadLetterIsHonest`, `RowsHaveDevices`,
`UndisturbedIsDelivered`, `OneRegistrationWins`, `StaleWindowIsBounded` and, as an
action property, `EveryMessageHandledOnce`. `ImplementsLedger` is the refinement, action by
action: `Store` is `Write`, `Ack` and `DeadLetter` are `Judge`, a delete is `Delete`, a
restart or reconnect is `Lose`, everything else leaves the tables alone. Two theorems say
what `IInv` means for the loop: `LoopTerminates`, it never goes back, and each of its steps
passes the message or brings it nearer to its verdict (`Left`); `PassedIsSettled`, behind it
no verdict is added and no row comes back.

**AlarmWorkerProofs.** The argument is that nobody but the worker opens an alarm.
`Rewrites` names the three statements that open nothing (no change, an UPDATE by
id, the effect of a DELETE) and `StepRewrites` shows that every step is one of them
or the INSERT at `create`. `LookupHolds` then keeps what the lookup found: no open
alarm of the pair can appear before the INSERT. With `UniqueIds` (BIGSERIAL) this
gives `OneActiveAlarm`, `ClosedStaysClosed` and, step by step, `ImplementsLedger`:
the INSERT is `Open`, an UPDATE by id is `Close` or nothing, a DELETE is `Purge`.
`AnnouncesOnce` (announced at most once, in the order of the ids) needs only that ids grow
and that the alarm in hand has been committed and is newer than any announced.
`RereadIsClear` gives `ResolvesItsOwn`, the cascades give `NothingDangles`, and
`CycleIsFresh` (no rules are left over when a cycle lists them) `EveryRuleHasItsTurn`. `CycleTerminates`
counts: fewer rules, or fewer devices of the one in hand, or fewer statements of the device
in hand (`Nearer`); a rule that grows its scope under the worker gives the cycle nothing
more to do, because the list of its devices has been read.

**AlarmCycleProofs.** `ExactCycles`. While `quiet`, the copies of the rules in the cycle's
hands are the rules (`JobsFresh`), what it knows of the pair in hand is so (`PairKnown`),
and each pair it is through with is exact (`DoneExact`); outside, only the foreign key of
`alarm_rules.device_id` is needed (`PinsExist`), so that the devices a rule targets exist
and the INSERT cannot be refused. `DoneExact` begins empty when the rules are listed: an
undisturbed cycle repairs whatever earlier ones left.

**MqttPublisherProofs.** The request inside `publish` is the first of the queue
(`HolderFirst`), so at most one is (`LockExcludes`), and nobody else's step touches the
client it uses. `Honest` says what a request's answer and the copies that went out have to
do with where it stands; `Smooth`, that an undisturbed request has a live client when it
retries, so that its answer is 202 (`Recovers`). `LineInFlight` and `FlightInLine` say that
the queue is the commands at work, each of them once, which gives `LockIsPassedOn` and, with
`Honest`, `ImplementsLedger`: entering the queue is `Join`, every step of its first is
`Serve`, an end of the process is `Die`. `PublishTerminates` measures a command by its place
in the queue and the statements it has left; `AnswerIsFinal` says that nothing is sent once
`publish` is over.

**PresenceProofs.** Five invariants, one per hazard. `BackoffInv` relates the delay to the
time without a subscription: a doubling sequence that was slept through is at least as
long as the next sleep, less the shortest delay; hence `SleepsNoLonger`. `HealInv` says of
each device what the rest of the queue will make of its row, and gives
`RetainedStatusHeals`. `SourceInv`: a row is no newer than the
device's last word or the last subscription (`OnlineIsHeard`). `CycleInv` says of each device that has
been active since before the last cycle (`Swept`) that its alarms are the result of that
cycle, on rows that were younger by the ticks since (`SilenceIsDetected`, `AlarmIsCleared`,
by way of `CoveredIsSwept`). `QueryInv` says what an undisturbed query has counted
(`OfflineIsCounted`). About `AlarmEngine` alone: `TriggersLater`, time clears no condition,
and `SilenceTriggers`, without rows exactly `device_offline` and `sensor_timeout` trigger,
which is how `AlarmWorker` uses `SilenceRule`.

**ApiRequestsProofs.** `RevokedForGood`: what is revoked is not active, and no statement
makes a key active again, because a SERIAL never returns an id; so a request that came after
the answer finds its key inactive (`RevocationHolds`). `Stages` and `Reserved` say what a
request's stage knows of its fields and that the ids suffice. For `KeysAreShown` the orphaned
keys are counted: a handler's step adds none (`HandleOrphans`), a failed statement one
(`FaultOrphans`), a death one per request (`KillOrphans`). `EachIsLoggedOnce` is inductive
with `Stages` (`LogStep`).

**ApiKeyProofs.** `Held` adds what a request came with and that the key in its hand is its
own and unseen. Every step is then one of few kinds, as the ledger sees them (a request
comes, walks on, ends, issues, shows, withdraws; a user signs in or out), and
`ImplementsLedger` maps each kind. `KeysAreForGood` is read off the ledger: a key keeps its
role and, once withdrawn, is withdrawn for good, even if the answer of the revocation was
lost (`RevocationHolds` speaks of answered ones). `HandlersTerminate` counts the statements
a request has left.

**Only model-checked.** `Drains`, `Converges`, `Returns`, `CommandsAnswered` and
`RequestsAnswered` are liveness under fairness, which the prover does not treat. What is
proved of them is the measure that decreases: `LoopTerminates` for `Drains`, `CycleTerminates` and `ExactCycles`
for `Converges`, `SleepsNoLonger` for `Returns`, `PublishTerminates` and
`HandlersTerminate` for `CommandsAnswered` and `RequestsAnswered`; that fairness then leads
to the end is TLC's. Every invariant, action property and refinement of the passing runs is proved. Consequences of a ledger have no run of
their own: `RowsHaveDevices` of `IngestLedger`, `ClosedStaysClosed` of `AlarmLedger`,
`LockIsPassedOn` and `AnswerIsFinal` of `CommandLedger`, `KeysAreForGood` of `KeyLedger`. The divergences are counterexamples, found by TLC.

## 6. Not modelled

* Retention, compression and aggregates of TimescaleDB, the order of rows within a message,
  and two rows of a device with one timestamp: nothing the properties see, or below the
  clock's resolution.
* The statistics' plain counts and `device_stats`: reads whose answers nothing depends on.
* Webhook, Slack and e-mail: no state of the platform depends on them.
* Password hashing, signatures, the counters of the rate limiter: library code, abstracted
  to their outcome. `expires_at` of a key is stored, and nothing in the code reads it.
* What follows the NameError in `UserRepository.create`: it cannot be reached today.
* Health, metrics, the dashboard and configuration have no state of their own.
* `POST /alarms/{id}/resolve` on a closed alarm, which only moves `resolved_at`, a
  column nothing reads back.
* Two replicas of a worker: compose runs one of each. `OneActivePerRule` relies
  on it.
* One module with both workers statement by statement: `Presence` composes them over
  time at the grain of messages and cycles, and each one's own module has the other's
  effects on `devices` as environment actions.

## 7. Plan

Done: `MqttIngest`, `AlarmWorker`, `MqttPublisher`, `AlarmEngine`, `Presence`, `ApiRequests`,
the four ledgers, and the proofs of all of them. Left:

1. That `AlarmWorker`'s `violating` is what `AlarmEngine` computes on the newest rows, for
   all of a device's life and not only for its first moment (`SilenceTriggers`).
2. `Presence`'s devices and rows as an abstraction of `MqttIngest`'s, as its cycle is of
   `AlarmWorker`'s by `ExactCycles`.
3. Registration past the NameError, once the import is there: two registrations of a name,
   and an e-mail already used.
