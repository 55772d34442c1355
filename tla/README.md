# Verification of the Centralized HVAC System

TLA+ models of the system in this repository, the TLC runs that check them on small
instances, and TLAPS proofs of the properties that matter most. Every definition is
translated from the source; the lines it stands for are in `PROJECT.json` under `map`.

## 1. The system

Air-conditioning units run a FreeRTOS firmware. Units without it are polled by an edge
gateway. Both talk to a set of FastAPI services through an MQTT broker (EMQX); the services
share Redis and PostgreSQL.

| Component | Source | State it keeps | Operations | Interacts through |
|---|---|---|---|---|
| Unit firmware: actuators and supervision | `ac_unit_controller.c` 184-302, 468-681 | relay and PWM outputs, `g_compressor_on`, `g_compressor_last_on_ms`, `g_mode`, `g_command`, `g_events`, sensor queue | `task_pid`, `task_watchdog`, `apply_control_output`, `sensor_timer_callback`, reset | shared globals without a lock, two cores |
| Unit firmware: broker link | 305-458, 533-607 | ring buffer, `g_last_broker_ping_ms`, `g_mode` | `mqtt_event_handler`, `task_mqtt`, `safe_publish`, `rb_push`/`rb_pop` | MQTT; shared globals |
| Unit firmware: PID | 205-266 | integral, previous measurement | `pid_compute` | called by `task_pid` |
| Gateway: store and forward | `gateway.py` 109-160, 390-478 | SQLite table, `_connected`, replays under way | `publish`, `push`, `pop_batch`, `_replay_buffer`, client callbacks | event loop and client thread |
| Gateway: local rules and balancer | 210-383, 485-592 | rule and zone cooldowns, latest readings, Modbus connections | `evaluate`, `_on_command`, poll loop | adapters shared by two threads |
| Alert service | `main (3).py` | dedup keys (Redis), alert rows (PostgreSQL), detector windows | `emit_alert`, two message handlers, `resolve_alert` | concurrent handlers; alert bus |
| Control service | `main (2).py` | rule and zone cooldowns, rate keys and pending acknowledgements (Redis), rule list | control loop, dispatcher, rule endpoints, manual command | Redis twins, command topics |
| Digital twin service | `main (1).py` | twin cache, its Redis mirror, WebSocket list | telemetry handler, zone aggregation, stream | telemetry topics, Redis |
| Device service | `main.py` | unit and zone rows | CRUD, `send_command` | PostgreSQL, command topics |
| Predictive maintenance | `main (4).py` | stored analyses, units under analysis | hourly, triggered and on-demand analysis | PostgreSQL, alert bus |
| MQTT client library | `mqtt_client.py` | handlers, connection event | `subscribe`, callbacks, publish | used by all services; client thread and event loop |
| Authentication | `auth.py` | API keys, rate windows (Redis) | token checks, `RateLimiter.check` | HTTP dependencies |

The telemetry service that the README of the repository names is not among the sources; its
messages are an input of the others.

### Behaviours that are hard

* **Tasks on two cores without a lock** in the firmware: two of them run `apply_control_output`,
  three write `g_mode` or `g_last_broker_ping_ms`, and each reads what another has half written.
* **Time**: a 32-bit millisecond counter that wraps and restarts on every reset, differences of
  values that were read at different moments, a hardware watchdog shorter than a delay of the task
  that feeds it.
* **A callback thread beside an event loop**, in the gateway and in the MQTT client: a flag is read in
  one and written in the other, a dictionary is changed in one while the other goes through it,
  connections flap while a replay is under way, commands meet local rules at one adapter.
* **Concurrent handlers** in the services: each `await` lets another handler run between a
  look-up and the write that depends on it, may fail, and may be the last step of the process.
* **Services that share tables**: a unit is deregistered while another request or an analysis works on it.

### What makes each component correct

* Firmware: no early restart of the compressor, flag = relay, a stop that takes effect, no
  running without readings; a ring buffer that is a queue, a mode that follows the broker.
* Gateway: a buffer that is bounded, ordered and loses nothing while the process runs, and whose rows are
  replayed on reconnection (they are not); local rules that keep a critical unit off although others switch it on.
* Alert service: no storms, no suppression that hides an alert for ever.
* Control service: rate limit and cooldowns that never cancel a shutdown.
* Twin service: a mirror that keeps up with the cache, a broadcast that reaches everybody (both within limits, section 4).
* Device and maintenance services: rows that refer to rows, alerts of units that exist, every unit
  analysed again. MQTT client: subscriptions that survive reconnections. Limiter: no more than the
  rate, and nobody refused without cause.

Everything in the code that is hard to test is listed, line by line, in `PROJECT.json` under
`hazards`, with the properties that cover it.

## 2. Modules

Each component has a specification, an `MC_` module that gives its constants small values,
one `.cfg` per question, and a `_proofs` module; that of `TwinService`, `MqttClient` and their composition is `TwinNode_proofs`,
that of `Registry`, `Maintenance` and `RateLimiter` is `Backend_proofs`.

    UnitSafety                     actuators of the unit
    UnitLink  ->  BoundedQueue     broker side of the unit, refines a queue
    EdgeBuffer                     gateway, store and forward
    GatewayControl                 gateway, who drives a unit
    ControlLoop   AlertPipeline    control service, alert service
    TwinNode = TwinService + MqttClient     the process of the twin service
    Maintenance = Registry + analyses       device and maintenance service on their tables
    RateLimiter                    sliding window of an identity

### UnitSafety: the actuator side of the firmware

One action is one access to what the tasks share, so that `apply_control_output` is a chain of
steps (`ReadClock`, `CheckOn`, `Refuse`/`Permit`, `GpioOn`, `SetOn`, `Drive`; `CheckOff`,
`GpioOff`, `ClearOn`, `Save`, `Idle`) that either task may be in. `pc[t]` is the place of a
task, `call[t]` the arguments of its call and where it returns to, `nowL[t]` its local `now`.

| TLA+ | code |
|---|---|
| `relay`, `duty`, `fan` | `GPIO_COMPRESSOR`, `PWM_COMPRESSOR > 0`, `PWM_FAN` |
| `on`, `lastOn` | `g_compressor_on`, `g_compressor_last_on_ms` |
| `mode`, `stopReq`, `cmdOn` | `g_mode`, `EVT_EMERGENCY_STOP`, `g_command.on` |
| `queue`, `reading` | `g_sensor_queue`, the local reading of `task_pid` |
| `PidReceive`, `PidTimeout`, `Gate*`, `PidWake` | the loop of `task_pid`, 479-527 |
| `Watchdog*` | the loop of `task_watchdog`, 583-606 |
| `SensorPost`, `Connected`, `Command` | timer callback, `MQTT_EVENT_CONNECTED`, `MQTT_EVENT_DATA` |
| `Tick`, `Restart` | time; `esp_restart` or the hardware watchdog |

Abstractions: a temperature is *over* the upper limit or *normal*, since nothing else about it is
compared (a reading below the lower limit only sets `error_flags`, which nothing reads); the PID output is a
nondeterministic demand; a fan speed is one of *off, half, command, max*; time is in ticks of
a coarser unit but keeps the wrap of the counter (`Diff`, `Advance`). The broker time-out of the
watchdog task is nondeterministic here (`WatchdogFeed`) and modelled in `UnitLink`. `Tick` waits for the PID
task when it is ready, because that task has the highest priority on its core, and lets at most `MaxLag` ticks
pass while a task is inside `apply_control_output`.

Properties: `FlagAgrees`, `CompressorHasFan`, `NotBlind`, the action property `GuardedRestart`
and the liveness property `StopOpensRelay`. `GuardedRestart` exempts exactly the calls of the PID
task that overlapped the watchdog task's own shutdown (`overlap`): there the guard fails (section 4).
`CompressorHasFan` is about every moment between calls, the watchdog task's delay after its shutdown included, but exempts
the PID task's last call if that overlapped the shutdown (`mixed`): the outputs are then those of either, until the next call.

### UnitLink: the broker side of the firmware

`slots`, `head`, `tail`, `count` are `g_offline_buf`; `mqttAt`, `pidAt`, `wdAt`, `eventAt` say where
`task_mqtt`, the publishing part of `task_pid`, `task_watchdog` and `mqtt_event_handler` are. Each of them
reads or writes `g_mode` or `g_last_broker_ping_ms` in a step of its own: `ReadNow`, `ReadPing`, `Test`, `GoLocal`
are the four accesses of the watchdog's broker time-out, `Connected` and `GoOnline` the two writes of the handler.
A value of the counter is known by its age, so that the unsigned difference is `(pingAge - wdAge) % Wrap`.
`Push` and `Pop` run under the mutex and are one step; a mutex that is not free for 10 ms drops a message
(`PushGivesUp`) or ends a replay (`Rest`). Telemetry that is published online never meets the buffer and is left out.
The constants `MqttLag` and `TaskLag` bound how late a task may be: they are assumptions about the scheduler.

Properties: `IsQueue`, the refinement of `BoundedQueue` (the items are the slots from the tail on, across
wraps and resets), `OfflineForCause`, `LateIsBounded`, and the liveness property `Drains`.

### EdgeBuffer: store and forward in the gateway

`loop` is what the event loop is doing with `msg` and `batch`, `net` where the client's thread is,
`rows` the SQLite table, `outbox` what the client holds in memory, `delivered` what the broker
has. `Publish` reads `_connected`; `Send` or `Push` acts on it later. `ReplayPop` is one
`pop_batch`, `ReplayPublish` the publishing of one row without an `await`, and the event loop is
idle again (the `sleep`) when the batch is finished. `Connack`, `OnConnect`, `Schedule` and
`OnDisconnect` are the callbacks, split where the event loop can see the difference.

In CPython `_on_connect` sets the flag and then raises at `asyncio.get_event_loop()`, because the client's thread has no event loop: that
thread ends and nothing is replayed. `LoopFound` says whether the call finds one: `{FALSE}` is the program, and
`BOOLEAN` also allows what was meant, at each connection anew. Safety is checked with `BOOLEAN`, that is for more
behaviours than the program has: what it shows of replays, their batches and `Acknowledge` would be true of a gateway whose call returned.

Properties: `Capacity`, `Conservation` and `OldestFirst`; `Replayed`, that rows are replayed on reconnection, is violated by `{FALSE}`.

### GatewayControl: who drives a unit behind the gateway

`at` is where the event loop is: polling `current`, writing what its rules decided (`todo`), balancing, or
asleep. `cool` and `balanced` are the cooldowns of the rules and of the balancer, what is left of them; `latest` the
loads of `_latest`. `jobAt` is where the client's thread is in `_on_command`, which writes the setpoint, then the
power, then acknowledges, between any two steps of the loop. `link` says whether the unit answers: a write to a
unit that does not is skipped (`Missed`) or raises (`LoopDies`, `Abandon`), depending on whether `_connected` still
says yes. `power` and `setBy` are the unit's own registers.

A temperature is one of four classes and a load one of three, those that `rules.json` and the balancer tell
apart. A poll cycle is counted as part of the sleep that follows it. A field of a command is absent or given: null fields, which
would make `float` raise, could come only from the device service, which refuses every command (section 4).
As the client's thread ends at its first connection (section 4), commands do not reach the gateway of CPython at all:
they are the wider environment of a gateway that is connected, and without them there are fewer behaviours.

Properties: `BoundedExposure`, the action property `AppliedWhole`, and the liveness property `ShutdownRecurs`.

### AlertPipeline: the alert service

`step[h]` is the await of `emit_alert` that handler `h` is at, `alerts[h]` the list it has still to
emit. `ttl` are the Redis keys, `unresolved` the rows of PostgreSQL, both survive `Crash`. `Fail` is
an exception of any awaited call, which ends the handler and drops its other alerts. The list
that `AnomalyDetector.update` returns is any list of distinct kinds in the order it appends
them (`Batches`). Units share no key, so one unit is modelled; severities are left out
because no key contains them. An alert that comes back on the bus changes nothing and is left out.

`window` are the handlers that have published a kind since its key was created, `broken` the kinds whose key was set by a
handler that an exception or a crash stopped before it published: `KeyIsBacked` says nothing of those.

Properties: `OncePerWindow`, `KeyIsBacked`, and the liveness property `Recurs`.

### ControlLoop: the control service

`step[r]` is the await that the control loop of replica `r` is at; `listed[r]` and `seen[r]` are the
twins it has still to read and to evaluate; `unit[r]` and `todo[r]` the commands it is
dispatching, in order of priority. `cool[r]` is `RuleEngine._cooldowns`, kept in the memory of a replica;
`rate` are the keys `cmd_rate:*` and `twin` the hashes `twin:*`, both in Redis. `Evaluate` is
`RuleEngine.evaluate` and the optimizer for one unit, which do not await; `Drop`, `Allow`, `Publish`,
`SetRate`, `SetAck` are the awaits of `dispatch`. `Fail` is an exception of any awaited call, which ends
the cycle; `EvaluateRaises` is the exception of a rule that compares a text field, which operators
can add (`Edit`). A twin is one of the classes *offline*, *normal*, *high*, *critical*, the
only thing the default rules tell apart; the optimizer may or may not suggest a setpoint.

`LoadBalancer.evaluate_zone` compares `load_percentage`, a string as Redis returns it, with a number. With a
unit ON in the zone that raises, without one the method returns `None`: it never sends a
command, and in the model a cycle ends where it is called (`EndCycle`).

Properties: `ShutdownNotLimited`, the action property `Spaced`, and the liveness property
`ShutdownRecurs`.

### TwinService, MqttClient and TwinNode: the twin service's process

`TwinService` is the service for one unit. `step[t]` is the await a telemetry handler, or the seeding at startup (`Boot`),
is at: `hset`, `expire`, `zadd`, then `send_text` for each WebSocket client. A state of the twin is known by its age only: `hash` says whether the
mirror in Redis is the latest state, one of the busy period under way, or one from *before* it; `stale[t]` whether what
task `t` is writing has been overtaken. `ttl` is the lifetime of the key, 0 if it has none. `conns` is `_ws_connections`,
`next[t]` the place that the iteration of `t` has reached, so that a removal by another task moves the list under it;
`shifted[t]` counts the clients that others removed from before that place, each of which can make the broadcast pass one over.
`PersistFails` is any call to Redis that raises; `CrashTwin` and `RestartTwin` lose all but Redis (`MemoryLost`).

`MqttClient` is `mqtt_client.py`: `thread` is where the client's thread is in its callbacks, `left` the handlers that
`_on_connect` has still to subscribe to, `calls` what `call_soon_threadsafe` has queued, `event` the event that
`wait_connected` awaits. `AddHandler` and `Subscribe` are the two statements of `subscribe`, in the other thread. A
dictionary that has grown under the iteration raises (`IterationRaises`), and so does `reconnect()` when the broker is not back (`Reconnect`): either ends
the client's thread.

`TwinNode` composes the two: the seeding starts when `wait_connected` returns, `subscribe` follows it, and telemetry
arrives while the broker has the subscription. `Aggregate` is the zone aggregation loop, which an exception ends for good (`AggregateFails`).

Properties: `MirrorKeepsUp`, `SilentExpires`, `NobodySkipped`, the liveness property `GoneIsRemoved`; for the
composition `AllSubscribed`, `EventFollows` and the liveness property `Resumes`.

### Registry and Maintenance: the services on their tables

`Registry` is the device service and the rows it shares: `zones`, `zoneOf` of `ac_units`, `alerts`, `feature`
for `maintenance_features`. `req[r].step` is what a request does next: it reads, decides, and writes later, when a key of
the tables may refuse what was decided (`InsertUnit`, `UpdateUnit`, `DeleteUnit`). `Cited` are the foreign keys to a unit.

`Maintenance` adds the tasks that analyse units: the scheduler's job, which has one instance at a time, runs
triggered by `POST /analysis/run`, and predictions on demand. `Compute`, `Store` and `Alert` are the parts of
`analyse_unit` between its awaits; `Return` is its end, also by an exception, which is caught there. The
features and models yield any remaining life of `Ruls`; `Opaque` units are those whose analysis always fails. A risk is
counted in 365ths, as it is computed from the remaining life.

Properties: `References`, `AlertedIsRegistered`, `CountedAsListed`, and the liveness property `KeepsAnalysing`.

### RateLimiter: the sliding window

`now[r]` is the time a task has taken, `log` the sorted set, `expires` the end of the key's lifetime. The pipeline is a
transaction (`Execute`), but tasks reach it up to `Lag` after they took their time, and in any order. `Raises` and
`RaisesLate` are a Redis error before and after the transaction.

Properties: `Limited` and the action property `Forgiving`.

## 3. Runs

| Run | Shows | Bounds |
|---|---|---|
| `unit_safety` | all properties of the actuators, `StopOpensRelay` among them | off-time guard 4, hardware watchdog 2, emergency delay 5, counter of 5 values, lag 0 |
| `unit_link` | the ring is a queue, the mode has causes, the buffer drains | 2 slots, bursts of 1, 2 messages, timeout 2, heartbeat 1, lags 1, counter of 8 values |
| `unit_link_autonomy` | violated: a unit without a broker leaves ONLINE | as `unit_link` |
| `edge_buffer` | the buffer is bounded, ordered and loses nothing, whether or not replays are scheduled | 3 rows, evict 1, batches of 2, 5 messages, 2 replays |
| `edge_buffer_replay` | violated: rows are replayed on reconnection | as `edge_buffer`, `get_event_loop` as in CPython |
| `gateway_control` | all properties of the gateway's control | 1 unit, cooldowns 2, 1, 1, balancer 2, threshold 1, interval 1 |
| `control_loop` | all properties of the control loop, `ShutdownRecurs` among them | 1 replica, 2 units, key 1 tick, cycle 2, cooldowns 3, 1 failure, one rule edited |
| `alert_pipeline` | all properties of the alert pipeline, `Recurs` among them | 2 handlers, 2 kinds, 2 ticks, 2 failures |
| `twin_service` | mirror, lifetime, how many clients a broadcast misses | 2 handlers, 2 clients, lifetime 1, 1 failure |
| `twin_node` | the service on its MQTT client | 2 handlers, no client, 2 queued calls, 1 failure |
| `maintenance` | tables and analyses | 2 units (one opaque), 2 zones, 1 request at a time, the hourly job and one on demand, 3 lives, 1 failure |
| `rate_limiter` | both properties of the limiter | 2 tasks, rate 2, window 3, lag 1, 5 requests, 7 ticks |

The bounds keep the order of the program's constants (PID cycle < hardware watchdog <= off-time
< emergency delay; heartbeat < timeout < counter; batch < table < messages; poll interval < cooldown), so that
the counter wraps within an off-time and within a timeout, the hardware watchdog expires within the delay,
a ring of two slots fills, wraps and drops, the table fills and evicts during a replay, a replay sleeps between
batches, connections flap while one is under way, and a key expires during an emission or a persist. Where an
instance is small because of the state space, the theorem covers the rest: `unit_safety` has no lag and `gateway_control`
one unit, but the invariants and action properties of both are proved for every lag that the off-time outlasts twice and for any number
of units. One request at a time in `maintenance` still interleaves with two analyses and with the alert service's rows, which is what the
keys of the tables decide; that any number of requests may meet in one table is proved.
Bounds that are not the program's: `MaxMessages`, `MaxReplays`, `MaxFailures`, `MaxCalls`, `MaxRequests`, `MaxTime`, and `Many` of the
alert pipeline's history.

Deadlock is checked everywhere: none of the specifications stops. Where a type invariant is left out of a run, it is proved.

**Fairness.** `UnitSafety`: the scheduler runs every ready task, time passes, and a reset that is
due happens; nothing is assumed of the sensor, the broker or commands. `UnitLink`: tasks run and time
passes; a task that tries for the mutex again and again gets it (strong fairness of `Replay`: the mutex has a
10 ms time-out and is held for a copy); nothing is assumed of the broker. `EdgeBuffer`, for the
violated `Replayed` only: the event loop runs what is ready, sleeping replays included (`ReplayPop \/ ReplayEnd`), callbacks return, and the client
sends while it is connected; nothing is assumed of the broker or of the producer. `GatewayControl`: the loop and the thread run, time passes, and
the container is restarted (`restart: unless-stopped`); nothing is assumed of units, commands or connections. `ControlLoop`:
awaited calls return or fail, and time passes; nothing is assumed of twins, operators or failures. `AlertPipeline`: awaited
calls return or fail, and Redis expires keys; failures are bounded, as a service that always fails records nothing. `TwinService` and
`TwinNode`: awaited calls return or raise, queued callbacks run, the client's thread runs, the container is restarted; nothing of the broker, the clients, telemetry or
time. `Maintenance`: the hour passes, awaited calls return or raise, the container is restarted; nothing of requests.

**Mutants.** For every property of a passing run `PROJECT.json` names a variant of one definition,
next to it in the module and marked "A variant", that breaks the property.

## 4. Findings

Two are violation runs; `PROJECT.json` quotes the lines.

1. **Buffered telemetry is never replayed** (`edge_buffer_replay`). `_on_connect` sets `_connected` and then calls
   `asyncio.get_event_loop()` in the client's thread (`gateway.py:443`), where it raises. The thread ends, no replay is scheduled, later messages
   stay in the client's memory, and no command arrives. README.md:236-237 and `gateway.py:112` promise the replay. With `LoopFound = {TRUE}` TLC
   finds no violation, so that this line alone is the cause.
2. **A unit does not notice that its broker is gone** (`unit_link_autonomy`). The heartbeat of the unit itself
   refreshes the time stamp that the watchdog compares, so the mode stays ONLINE and telemetry is handed to a
   client without a connection instead of to the ring buffer. The autonomy mode is entered at boot, and when the
   watchdog's unsigned difference wraps because the time stamp was written between its two readings (`OfflineForCause`).

Seen while modelling, without a run of their own:

* The compressor flag is cleared before the switch-off time is saved (`ac_unit_controller.c:295-296`): a PID call in between
  sees "off" with the old time and restarts the compressor at once, in spite of the "3-minute compressor minimum off-time"
  of README.md:248-249. `GuardedRestart` names exactly this case.
* The 10 s hardware watchdog is not fed during the 300 s emergency delay (`ac_unit_controller.c:593`), so the unit restarts long before the "5 minutes" of
  the comment, and the stop request is gone.
* A PID call that overlaps the watchdog task's shutdown may leave the relay closed with the fan off (`ac_unit_controller.c:278-301`), or the compressor's PWM
  set with the relay open, until the PID task's next call. A call that the off-time guard refuses (281-285) does not set the compressor's PWM to zero.
* Every command through the device service is refused: `send_command` looks at the status of the row (`main.py:245-246`), which is OFFLINE from
  the registration on (`models.py:74`) and which nothing writes afterwards. Nothing is queued either, though the answer says so, and README.md:196 sends such a command.
* A broadcast goes through the list of clients itself, so that the removal of a client by another task moves up those behind it and one of
  them is passed over (`main (1).py:166-173`, 300). `NobodySkipped` bounds how many.
* Two telemetry handlers may reach Redis in the other order, and an older state of the busy period stays in the mirror (`main (1).py:161`); a handler that is
  interrupted between `hset` and `expire` leaves a key without a lifetime until the unit reports again (107-108).
* A dedup key is set before the alert is committed (`main (3).py:171-185`): a failure in between loses the alert and hides the condition until the key expires.
* Two concurrent handlers, or two replicas, look a key up before either sets it: duplicate alerts (`main (3).py:167`) and
  two commands in a window (`main (2).py:253`). Resolving an alert leaves its key (`main (3).py:318`).
* If replays ran: a row is deleted before it is published, so a crash during a replay would lose it although the table "Survives process
  crashes" (`gateway.py:112`), and live telemetry would overtake buffered rows between the batches of a replay that README.md:237 calls atomic.
* The control service's zone load balancer compares strings with numbers, which raises and ends the cycle
  (`main (2).py:168`); pending acknowledgements are read by nothing (`main (2).py:267-269`).
* Units acknowledge a command as APPLIED when the mutex was not taken (`ac_unit_controller.c:447`), and the gateway when
  the write was skipped (`gateway.py:585-592`). A write that raises ends the gateway's process (`gateway.py:532`).
* A `reconnect()` that fails ends the MQTT client's thread (`mqtt_client.py:156`), and so does a subscription during `_on_connect` (142):
  the service lives on without messages. An exception ends the aggregation loop (`main (1).py:199-200`).
* The twin cache is seeded from the database and overwrites what Redis has (`main (1).py:71-87`), while README.md:242 says it is "seeded from Redis".
* A WebSocket client found dead by two broadcasts makes the second `remove` raise, and the other dead clients of that broadcast wait for the next one.
* The rate limiter's key is renewed by refused requests too; the section comment `auth.py:161` calls it a token bucket, but it is
  a sliding window, as its docstring says. No service mounts it.

## 5. Proofs

All theorems are checked by TLAPS to the last leaf, from the named assumptions on constants
(`TimingAssumption`, `OrderAssumption`, `LinkAssumption`, `NoMsgAssumption`, `BufferAssumption`, `GatewayAssumption`, `ControlAssumption`,
`AlertAssumption`, `TwinAssumption`, `NodeAssumption`, `RegistryAssumption`, `MaintenanceAssumption`, `LimiterAssumption`) that TLC also
evaluates. Each component has its type invariant as a theorem: `TypeCorrect`, or `ServiceTypes`, `NodeTypes`, `TablesAreTyped`, `LimiterTypes`.
Every invariant and every action property that a run checks is a theorem; what the runs show on a small instance holds for every
value of the constants that satisfies the assumptions.

* `UnitSafety_proofs`
  * `RestartsAreGuarded` (`GuardedRestart`). The property is not inductive: what a restart relies on is that a closed guard was
    computed from the true switch-off time. `Guarding` therefore says, for each place of each task, how `offAge` (the true
    age) relates to `now - lastOn` and to the local clock of a call under way, that at most one call is in its opening part,
    and that a PID call that does not know of the shutdown carries `overlap`. `TimingAssumption` makes the guard plus the lag
    shorter than the counter: beyond it the difference of two clock values is ambiguous.
  * `FlagIsRelay` (`FlagAgrees`) and `CompressorIsCooled` (`CompressorHasFan`). Flag and relay differ while a call is between its
    two writes, so `Agreeing` says who may be there (`Halfway`), what the other task may then do (`Apart`), what it was asked
    (`Asked`), and what the outputs are while a call has not driven them yet (`Modulated`, and `Cooled` for the fan and for the time after the shutdown). Two calls must not be in opposite halves:
    the one that closes the relay has passed the off-time, the one that opened it less than two lags ago has not.
  * `NeverBlind` (`NotBlind`). `Seeing` follows the reading a PID cycle rests on (`Sighted`), what is true before the first one after a
    reset (`Dark`), and how soon the hardware watchdog ends a unit that is not served (`Prompt`).
  * `OrderAssumption` is what these three need and `GuardedRestart` does not: the off-time exceeds twice the lag of a call, and the
    receive timeout plus the hardware watchdog. The code has 180 s against calls that run without blocking, and
    against 1.1 s and 10 s. Without it TLC finds `FlagAgrees` violated (lag 2, off-time 3).
* `UnitLink_proofs`: `RingIsQueue` (`IsQueue`), `WatchdogHasCause` (`OfflineForCause`) and `LateBounded` (`LateIsBounded`).
  For the refinement each action is shown to be a step of the queue or a stutter; the arithmetic of the ring is in lemmas about
  `(tail + i - 1) % Slots`, with `head = (tail + count) % Slots` in the type invariant. `Handed` counts the late messages by
  the place of the replay. `Fresh` bounds the age of the time stamp while the unit is on line, which is what `LinkAssumption`
  needs so that the unsigned difference is not ambiguous, and `Caused` carries the watchdog's decision from the readings to the write.
* `EdgeBuffer_proofs`: `TableIsBounded` (`Capacity`), `NothingVanishes` (`Conservation`) and `ReplayedOldestFirst` (`OldestFirst`), for any
  `LoopFound`. The last two rest on two more parts: `Conserved`, every message is in one
  place and once in the sequence it is in, and `Ordered`, the rows are sorted and what was popped is older than every row. The lemmas
  about `push` and `pop_batch` (`PushIs`, `PopIs`) reduce both to cutting and appending sorted sequences.
* `GatewayControl_proofs`: `ExposureIsBounded` (`BoundedExposure`), for any number of units. The invariant relates how long a unit has been
  exposed to what is left of the emergency rule's cooldown and of the sleep, and says that an exposed unit whose rule has just fired is about to be written to.
  `CommandIsWhole` (`AppliedWhole`) rests on `Whole`: at each place of a job nobody disturbed, the registers written so far are those the command gave and the others what they were.
* `ControlLoop_proofs`: `ShutdownPasses` (`ShutdownNotLimited`) and `CommandsAreSpaced`
  (`Spaced`), for any number of replicas. The invariant says where a key or a command of a
  replica can be younger than the rate limit: while it sleeps, no longer than the sleep lasts
  (`RateTtl <= Interval`), or within the cycle, after the unit's shutdown was dealt with. It rests
  on `Bookkeeping`: a unit being dispatched to is no longer listed or waiting.
* `AlertPipeline_proofs`: `PublishedOncePerHandler` (`OncePerWindow`) and
  `KeysAreBacked` (`KeyIsBacked`), for any number of failures and crashes. The strengthening `NotYet` covers the handler that has looked
  a key up and not yet set it, after another handler has.
* `TwinNode_proofs`, for any number of handlers and clients and any lifetime
  * of the service by itself: `ServiceTypes` (`TwinTypeOK`), `MirrorIsOfThePeriod` (`MirrorKeepsUp`), `HashesExpire` (`SilentExpires`) and
    `BroadcastReachesAll` (`NobodySkipped`). `Overwritten` says that an old hash is seen only while every task that persists has still to
    write; `Abandoned` what a crash leaves; `Owing` that of the clients a broadcast owes no more than `shifted`
    are outside the part of the list it has still to come to (`Missed`); `MovedUp` counts what a removal does to both sides.
  * of the process: `HandlersAreSubscribed` (`AllSubscribed`), `EventFollowsThread` (`EventFollows`), `NodeTypes`, and `NodeKeepsService`, the
    service's invariants on its client. `Covered` is the loop of `_on_connect` half way, `Queued` says what the last queued call is, and
    `Launched` that a failed startup has touched nothing, so that the relaunch is that of a stopped service.
  * `RemovedIs` states what a removal leaves, for any list: the other clients in a list without repetitions, each no further
    back than it was. It is proved by induction on the list, with the induction principle in the form of a least counterexample (`Least`, from
    the well-foundedness of the order of the naturals), which needs no operator as a parameter.
* `Backend_proofs`
  * `Registry` and `Maintenance`: `RowsReferToRows` (`References`), `AlertsAreOfRegistered` (`AlertedIsRegistered`), `SummaryIsTheList`
    (`CountedAsListed`) and `TablesAreTyped`, for any number of zones, units, requests and analyses. `Heard` says what of a request's
    reading still holds when it writes: the zone it found, as no zone is deleted, and nothing about the unit, whose keys
    decide. `Alerted` puts the row of an analysis before its alert, `Derived` and `Working` keep the risk in a row
    that of the remaining life beside it, so that `Classes` compares the thresholds by arithmetic.
  * `RateLimiter`: `RateHolds` (`Limited`) and `RefusedWithCause` (`Forgiving`), for any rate, window, lag and number of tasks. The
    strengthening `Lasting` says that an accepted member is still in the set, and the set in Redis, as long as a span that counts it may
    see another one accepted; the rest is about cardinalities of subsets.

TLC checked each strengthening before it was proved.

**A caution about the prover.** The SMT encoding of TLAPS 1.4.5 takes the domain of whatever has a `Len` to be `1..Len`, so that a
function on `0..n` among the facts of a leaf that also mentions `Len` is a contradiction. The leaves that mention `Len` were
therefore also given to Z3 with that axiom weakened to its sound half, and all of them hold.

Only model-checked: liveness, which is outside the prover's reach (`StopOpensRelay`, `Drains`, both `ShutdownRecurs`,
`Recurs`, `GoneIsRemoved`, `Resumes`, `KeepsAnalysing`), and the two properties that are violated.

## 6. Not modelled

* **PID controller** (`pid_compute`): floating-point arithmetic of one task. A version over scaled integers would check other
  numbers than the firmware computes; `UnitSafety` holds for whatever it returns.
* **Statistics of the maintenance service** (features, isolation forest, gradient boosting): library code on floating-point data; any result is possible in `Maintenance`.
* **AnomalyDetector and SetpointOptimizer**: their decisions are nondeterministic in `AlertPipeline` and `ControlLoop`.
* **Token, key and role checks** of `auth.py`: functions of the request without state, used by no service.
* **Listing and status endpoints**: they read.
* **Declarations** (`config.py`, `models.py`, migrations): the values are the constants of the models, the keys of the tables are in `Registry`.
* **MockAdapter, the simulator, deployment files and tests**: stand-ins for hardware, configuration of external software, and evidence of what is intended.
* **Inside the libraries**: paho-mqtt, Redis, PostgreSQL, FreeRTOS and the ESP MQTT client are external, modelled from what the code relies on.
