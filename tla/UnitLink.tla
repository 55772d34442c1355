------------------------------- MODULE UnitLink -------------------------------
(***************************************************************************)
(* The broker side of the AC unit firmware (ac_unit_controller.c): the PID *)
(* task publishes telemetry or puts it into the ring buffer, the MQTT task *)
(* sends heartbeats and replays the buffer, the client's event handler and *)
(* the watchdog task decide which of the two: all through g_mode and       *)
(* g_last_broker_ping_ms, which nothing protects.  One action is one       *)
(* access to what they share; the buffer has a mutex.                      *)
(*                                                                         *)
(* A value of the millisecond counter, which wraps, is known by its age:   *)
(* the ticks since it was read, modulo Wrap.  A tick leaves no task behind *)
(* for longer than its lag.                                                *)
(***************************************************************************)
EXTENDS Integers, Sequences

CONSTANTS
  Messages,
  Slots,       \* OFFLINE_BUFFER_SLOTS
  Burst,       \* messages replayed in a row
  Wrap,        \* number of values of the millisecond counter
  Timeout,     \* BROKER_TIMEOUT_MS
  Heartbeat,   \* HEARTBEAT_INTERVAL_MS
  MqttLag,     \* assumed: how late the MQTT task may be, which blocks in the client
  TaskLag      \* assumed: how long a pass of the watchdog, or the event handler between its writes, may take

ASSUME LinkAssumption ==
  /\ Slots \in Nat \ {0} /\ Burst \in Nat \ {0}
  /\ Timeout \in Nat /\ Heartbeat \in Nat \ {0} /\ MqttLag \in Nat /\ TaskLag \in Nat
  /\ Wrap \in Nat /\ Wrap > 2 * (Heartbeat + MqttLag + TaskLag)

VARIABLES
  slots, head, tail, count,  \* g_offline_buf
  msg,        \* task_mqtt's local msg
  replayed,   \* task_mqtt's local replayed
  mqttAt,     \* where the MQTT task is
  pidAt,      \* where the PID task is, and what it publishes
  wdAt,       \* where the watchdog task is
  wdAge,      \* the age of its local now
  expired,    \* its local elapsed is above the timeout
  eventAt,    \* where the event handler is
  mode,       \* g_mode
  pingAge,    \* the age of g_last_broker_ping_ms
  hbAge,      \* ticks since the last heartbeat was due
  connected,  \* external: the client has a connection
  overtaken,  \* history: g_last_broker_ping_ms was written since the watchdog read the counter
  late        \* history: messages replayed since the mode is no longer ONLINE

ring   == <<slots, head, tail, count>>
mqttT  == <<msg, replayed, mqttAt, hbAge>>
wdT    == <<wdAt, wdAge, expired>>
pings  == <<pingAge, overtaken>>
vars   == <<ring, mqttT, pidAt, wdT, eventAt, mode, pings, connected, late>>

-------------------------------------------------------------------------------
NoMsg == "none"

ASSUME NoMsgAssumption == NoMsg \notin Messages

NoPid == [at |-> "idle", m |-> NoMsg]

TypeOK ==
  /\ slots \in [0..(Slots - 1) -> Messages \cup {NoMsg}]
  /\ head \in 0..(Slots - 1) /\ tail \in 0..(Slots - 1) /\ count \in 0..Slots
  /\ head = (tail + count) % Slots
  /\ msg \in Messages \cup {NoMsg} /\ replayed \in 0..Burst
  /\ mqttAt \in {"loop", "beat", "replay", "send"}
  /\ pidAt \in {NoPid} \cup [at : {"push"}, m : Messages]
  /\ wdAt \in {"start", "elapsed", "test", "set", "stop"}
  /\ wdAge \in 0..TaskLag /\ expired \in BOOLEAN
  /\ eventAt \in {"idle", "online"}
  /\ mode \in {"ONLINE", "LOCAL_AUTONOMY", "EMERGENCY_STOP"}
  /\ pingAge \in 0..(Wrap - 1) /\ hbAge \in 0..(Heartbeat + MqttLag)
  /\ connected \in BOOLEAN /\ overtaken \in BOOLEAN /\ late \in Nat

Init ==
  /\ slots = [i \in 0..(Slots - 1) |-> NoMsg] /\ head = 0 /\ tail = 0 /\ count = 0
  /\ msg = NoMsg /\ replayed = 0 /\ mqttAt = "loop" /\ pidAt = NoPid
  /\ wdAt = "start" /\ wdAge = 0 /\ expired = FALSE /\ eventAt = "idle"
  /\ mode = "LOCAL_AUTONOMY" /\ pingAge = 0 /\ hbAge = 0
  /\ connected = FALSE /\ overtaken = FALSE /\ late = 0

-------------------------------------------------------------------------------
(* The ring buffer *)

Following(i) == (i + 1) % Slots

\* A variant: a full buffer overwrites the oldest message, and its tail stays.
PushOver(m) ==
  /\ slots' = [slots EXCEPT ![head] = m]
  /\ head' = Following(head) /\ count' = IF count < Slots THEN count + 1 ELSE count
  /\ UNCHANGED tail

\* rb_push: a message is dropped if the buffer is full.
Push(m) ==
  IF count < Slots
  THEN /\ slots' = [slots EXCEPT ![head] = m]
       /\ head' = Following(head) /\ count' = count + 1
       /\ UNCHANGED tail
  ELSE UNCHANGED ring

\* rb_pop
Pop ==
  /\ count > 0
  /\ msg' = slots[tail]
  /\ tail' = Following(tail) /\ count' = count - 1
  /\ UNCHANGED <<slots, head>>

-------------------------------------------------------------------------------
(* The PID task: safe_publish *)

Telemetry ==
  /\ pidAt.at = "idle" /\ mode # "ONLINE"
  /\ \E m \in Messages : pidAt' = [at |-> "push", m |-> m]
  /\ UNCHANGED <<ring, mqttT, wdT, eventAt, mode, pings, connected, late>>

PushTelemetry ==
  /\ pidAt.at = "push"
  /\ Push(pidAt.m) /\ pidAt' = NoPid
  /\ UNCHANGED <<mqttT, wdT, eventAt, mode, pings, connected, late>>

\* The mutex is not free for 10 ms: the message is dropped.
PushGivesUp ==
  /\ pidAt.at = "push" /\ pidAt' = NoPid
  /\ UNCHANGED <<ring, mqttT, wdT, eventAt, mode, pings, connected, late>>

-------------------------------------------------------------------------------
(* The MQTT task *)

Pinged == pingAge' = 0 /\ overtaken' = TRUE

\* The loop goes on: to the heartbeat if it is due and the mode is ONLINE.
Loop ==
  /\ mqttAt = "loop"
  /\ IF hbAge >= Heartbeat
     THEN hbAge' = 0 /\ mqttAt' = IF mode = "ONLINE" THEN "beat" ELSE "replay"
     ELSE UNCHANGED hbAge /\ mqttAt' = "replay"
  /\ replayed' = 0
  /\ UNCHANGED <<ring, msg, pidAt, wdT, eventAt, mode, pings, connected, late>>

\* It takes the time of its own message for a sign of the broker.
Beat ==
  /\ mqttAt = "beat"
  /\ Pinged /\ mqttAt' = "replay"
  /\ UNCHANGED <<ring, msg, replayed, hbAge, pidAt, wdT, eventAt, mode, connected, late>>

\* A variant: the whole buffer is replayed.
MoreAll == count > 0 /\ (replayed > 0 \/ mode = "ONLINE")

\* A variant: a message is kept back for a replay that is worth its while.
MoreThanOne == count > 1 /\ replayed < Burst /\ (replayed > 0 \/ mode = "ONLINE")

\* The mode is looked at before the first message only.
More == count > 0 /\ replayed < Burst /\ (replayed > 0 \/ mode = "ONLINE")

Replay ==
  /\ mqttAt = "replay" /\ More
  /\ Pop /\ mqttAt' = "send"
  /\ UNCHANGED <<replayed, hbAge, pidAt, wdT, eventAt, mode, pings, connected, late>>

Send ==
  /\ mqttAt = "send" /\ mqttAt' = "replay"
  /\ replayed' = IF replayed < Burst THEN replayed + 1 ELSE replayed
  /\ late' = IF mode = "ONLINE" THEN 0 ELSE late + 1
  /\ UNCHANGED <<ring, msg, hbAge, pidAt, wdT, eventAt, mode, pings, connected>>

\* Nothing to replay, enough replayed, or the mutex was not free.
Rest ==
  /\ mqttAt = "replay" /\ mqttAt' = "loop"
  /\ UNCHANGED <<ring, msg, replayed, hbAge, pidAt, wdT, eventAt, mode, pings, connected, late>>

-------------------------------------------------------------------------------
(* The event handler *)

\* MQTT_EVENT_CONNECTED
Connected ==
  /\ eventAt = "idle" /\ ~connected
  /\ connected' = TRUE /\ Pinged /\ eventAt' = "online"
  /\ UNCHANGED <<ring, mqttT, pidAt, wdT, mode, late>>

GoOnline ==
  /\ eventAt = "online" /\ eventAt' = "idle"
  /\ mode' = "ONLINE" /\ late' = 0
  /\ UNCHANGED <<ring, mqttT, pidAt, wdT, pings, connected>>

\* MQTT_EVENT_DISCONNECTED leaves the mode to the watchdog.
Disconnected ==
  /\ eventAt = "idle" /\ connected
  /\ connected' = FALSE
  /\ UNCHANGED <<ring, mqttT, pidAt, wdT, eventAt, mode, pings, late>>

-------------------------------------------------------------------------------
(* The watchdog task *)

ReadNow ==
  /\ wdAt = "start" /\ wdAt' = "elapsed"
  /\ overtaken' = FALSE
  /\ UNCHANGED <<ring, mqttT, pidAt, wdAge, expired, eventAt, mode, pingAge, connected, late>>

\* A variant: the operands are swapped.
ElapsedSwapped == (wdAge - pingAge) % Wrap

\* now - g_last_broker_ping_ms, unsigned: a ping that is younger than now is taken for very old.
Elapsed == (pingAge - wdAge) % Wrap

ReadPing ==
  /\ wdAt = "elapsed" /\ wdAt' = "test"
  /\ expired' = (Elapsed > Timeout)
  /\ UNCHANGED <<ring, mqttT, pidAt, wdAge, eventAt, mode, pings, connected, late>>

\* The broker timed out.
Test ==
  /\ wdAt = "test"
  /\ wdAt' = IF mode = "ONLINE" /\ expired THEN "set" ELSE "start"
  /\ wdAge' = 0 /\ expired' = FALSE
  /\ UNCHANGED <<ring, mqttT, pidAt, eventAt, mode, pings, connected, late>>

GoLocal ==
  /\ wdAt = "set" /\ wdAt' = "start" /\ wdAge' = 0
  /\ mode' = "LOCAL_AUTONOMY"
  /\ UNCHANGED <<ring, mqttT, pidAt, expired, eventAt, pings, connected, late>>

\* EVT_EMERGENCY_STOP, which the PID task sets: the watchdog sleeps until the restart.
Emergency ==
  /\ wdAt = "test" /\ wdAt' = "stop" /\ wdAge' = 0 /\ expired' = FALSE
  /\ mode' = "EMERGENCY_STOP"
  /\ UNCHANGED <<ring, mqttT, pidAt, eventAt, pings, connected, late>>

Restart ==
  /\ wdAt = "stop"
  /\ slots' = [i \in 0..(Slots - 1) |-> NoMsg] /\ head' = 0 /\ tail' = 0 /\ count' = 0
  /\ msg' = NoMsg /\ replayed' = 0 /\ mqttAt' = "loop" /\ pidAt' = NoPid
  /\ wdAt' = "start" /\ wdAge' = 0 /\ expired' = FALSE /\ eventAt' = "idle"
  /\ mode' = "LOCAL_AUTONOMY" /\ pingAge' = 0 /\ hbAge' = 0
  /\ connected' = FALSE /\ overtaken' = FALSE /\ late' = 0

Tick ==
  /\ hbAge < Heartbeat + MqttLag /\ (wdAt \in {"start", "stop"} \/ wdAge < TaskLag)
  /\ eventAt = "idle" \/ pingAge < TaskLag
  /\ pingAge' = (pingAge + 1) % Wrap /\ hbAge' = hbAge + 1
  /\ wdAge' = IF wdAt \in {"start", "stop"} THEN 0 ELSE wdAge + 1
  /\ UNCHANGED <<ring, msg, replayed, mqttAt, pidAt, wdAt, expired, eventAt, mode, overtaken,
                 connected, late>>

Mqtt     == Loop \/ Beat \/ Replay \/ Send
Watchdog == ReadNow \/ ReadPing \/ Test \/ GoLocal \/ Emergency

Next ==
  \/ Telemetry \/ PushTelemetry \/ PushGivesUp
  \/ Mqtt \/ Rest
  \/ Connected \/ GoOnline \/ Disconnected
  \/ Watchdog \/ Restart \/ Tick

\* Tasks run, time passes, and a task gets the mutex if it tries again and again.
Fairness ==
  /\ WF_vars(Loop \/ Beat \/ Send) /\ WF_vars(Rest) /\ SF_vars(Replay)
  /\ WF_vars(GoOnline) /\ WF_vars(Watchdog) /\ WF_vars(Tick)

Spec     == Init /\ [][Next]_vars
FairSpec == Spec /\ Fairness

-------------------------------------------------------------------------------
(* Properties *)

\* The ring buffer is a bounded queue: what is in the slots, from the tail on, comes out oldest
\* first, each message once, however head and tail wrap, and no message that was not put in
\* (lines 309-336, 567-571).
Items == [i \in 1..count |-> slots[(tail + i - 1) % Slots]]

Queue == INSTANCE BoundedQueue WITH Size <- Slots, Nothing <- NoMsg, items <- Items, taken <- msg

IsQueue == Queue!QueueSpec

\* The watchdog takes a unit off line for one of two causes: nothing was written to
\* g_last_broker_ping_ms for longer than the timeout, or something was while the watchdog was
\* between its readings, so that its unsigned difference wrapped or was old (lines 400-404,
\* 584-602).
OfflineForCause ==
  [][GoLocal /\ mode = "ONLINE" => pingAge > Timeout \/ overtaken]_vars

\* No more than a burst is handed to the client after the unit has left the ONLINE mode, of
\* what was taken out of the buffer (lines 563-573).
LateIsBounded == late <= Burst

\* A unit that stays online empties its buffer, at any rate again and again (lines 563-573).
Drains == <>[](mode = "ONLINE") => []<>(count = 0)

-------------------------------------------------------------------------------
(* What the repository says and the code does not do *)

\* If the broker is unreachable, the unit enters LOCAL_AUTONOMY (README.md:234-235).
Autonomy == <>[](~connected) => []<>(mode # "ONLINE")
===============================================================================
