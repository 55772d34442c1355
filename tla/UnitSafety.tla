------------------------------ MODULE UnitSafety ------------------------------
(***************************************************************************)
(* The actuator side of the AC unit firmware (ac_unit_controller.c): the   *)
(* PID task pinned to core 0 and the watchdog task pinned to core 1 both   *)
(* call apply_control_output, which reads and writes the compressor        *)
(* globals without a lock.  One action is one access to what the two tasks *)
(* share.  The sensor timer, the broker's CONNECTED event and a remote     *)
(* command interleave with them; the hardware watchdog or the end of the   *)
(* emergency delay restarts the unit.                                      *)
(*                                                                         *)
(* Time is the FreeRTOS millisecond counter, a uint32_t that wraps, in     *)
(* ticks of a coarser unit.  The PID output is a nondeterministic demand;  *)
(* a temperature is above the upper limit or not, the one comparison that  *)
(* task_pid makes (nothing reads the error_flags of the lower limit).      *)
(***************************************************************************)
EXTENDS Integers

CONSTANTS
  Wrap,            \* number of values of the millisecond counter (2^32)
  MinOff,          \* COMPRESSOR_MIN_OFF_MS
  HwWdt,           \* period of the hardware watchdog, hal_watchdog_init(10000)
  WdPeriod,        \* vTaskDelay of the watchdog loop
  EmergencyDelay,  \* vTaskDelay(300000) before esp_restart
  PidPeriod,       \* vTaskDelay(1000) of the PID loop
  RecvTimeout,     \* xQueueReceive timeout, 1.1 s
  MaxLag           \* ticks that may pass while a task is inside apply_control_output

ASSUME TimingAssumption ==
  /\ Wrap \in Nat /\ MinOff \in Nat /\ HwWdt \in Nat /\ WdPeriod \in Nat
  /\ EmergencyDelay \in Nat /\ PidPeriod \in Nat /\ RecvTimeout \in Nat
  /\ MaxLag \in Nat
  /\ MinOff + MaxLag < Wrap
  /\ WdPeriod < HwWdt

\* The off-time guard is longer than two calls of apply_control_output, and than a unit without
\* readings stays up.
ASSUME OrderAssumption == 2 * MaxLag < MinOff /\ RecvTimeout + HwWdt < MinOff

VARIABLES
  relay,      \* GPIO_COMPRESSOR: the compressor is energised
  duty,       \* PWM_COMPRESSOR is above zero
  fan,        \* PWM_FAN
  on,         \* g_compressor_on
  lastOn,     \* g_compressor_last_on_ms
  mode,       \* g_mode
  stopReq,    \* EVT_EMERGENCY_STOP in g_events
  cmdOn,      \* g_command.on
  queue,      \* g_sensor_queue, length 1
  reading,    \* task_pid's local reading: the class of its temperature
  pc,         \* where each task is
  call,       \* arguments of the apply_control_output call, and where it returns to
  nowL,       \* apply_control_output's local now
  now,        \* the tick counter in milliseconds
  pidAge,     \* ticks since the PID task blocked
  wdAge,      \* ticks since the hardware watchdog was fed
  stopAge,    \* ticks since the watchdog task entered its emergency delay
  offAge,     \* history: ticks since the relay opened, up to MinOff
  readAge,    \* history: ticks since the PID task received a reading, up to BlindMax
  overlap,    \* history: the PID task's current call overlapped the watchdog's shutdown
  mixed       \* history: the PID task's last call overlapped the watchdog's

actuators == <<relay, duty, fan, on, lastOn>>
control   == <<mode, stopReq, cmdOn, queue, reading>>
clocks    == <<now, pidAge, wdAge, stopAge, readAge>>
vars == <<actuators, control, pc, call, nowL, clocks, offAge, overlap, mixed>>

-------------------------------------------------------------------------------
Task  == {"pid", "watchdog"}
None  == "none"
Temp  == {"normal", "over"}   \* "over": above TEMP_MAX_SAFE_C
Modes == {"ONLINE", "LOCAL_AUTONOMY", "EMERGENCY_STOP"}
Fans  == {"off", "half", "command", "max"}

\* Program counters inside apply_control_output, after and before it has read the clock.
Timed == {"checkOn", "guard", "gpioOn", "setOn", "drive",
          "checkOff", "gpioOff", "clearOn", "save", "idle"}
Apply == Timed \cup {"clock"}
\* The relay is open, the globals do not say so yet.
Opening == {"clearOn", "save"}

PC    == Apply \cup {"receive", "gate", "delay", "boot", "sleep", "mark", "stop"}
Calls == [cool : BOOLEAN, fan : {"off", "command", "max"}, next : {"receive", "delay", "stop"}]

Call(cool, speed, next) == [cool |-> cool, fan |-> speed, next |-> next]
Shutdown(next) == Call(FALSE, "off", next)
NoCall == Shutdown("delay")

\* Unsigned subtraction of two counter values.
Diff(a, b) == IF a >= b THEN a - b ELSE a - b + Wrap

\* A variant: the counter never wraps.
AdvanceUnbounded(n) == n + 1

\* The next value of the millisecond counter.
Advance(n) == (n + 1) % Wrap

Bump(n, top) == IF n < top THEN n + 1 ELSE n

\* One more than the longest a unit can go on running on an old reading.
BlindMax == PidPeriod + RecvTimeout + HwWdt + MaxLag + 1

Goto(t, label) == pc' = [pc EXCEPT ![t] = label]

TypeOK ==
  /\ relay \in BOOLEAN /\ duty \in BOOLEAN /\ fan \in Fans
  /\ on \in BOOLEAN /\ lastOn \in 0..(Wrap - 1)
  /\ mode \in Modes /\ stopReq \in BOOLEAN /\ cmdOn \in BOOLEAN
  /\ queue \in Temp \cup {None} /\ reading \in Temp
  /\ pc \in [Task -> PC] /\ call \in [Task -> Calls] /\ nowL \in [Task -> 0..(Wrap - 1)]
  /\ now \in 0..(Wrap - 1)
  /\ pidAge \in Nat /\ wdAge \in 0..HwWdt /\ stopAge \in 0..EmergencyDelay
  /\ offAge \in 0..MinOff /\ readAge \in 0..BlindMax
  /\ overlap \in BOOLEAN /\ mixed \in BOOLEAN

\* What app_main and the static initialisers leave, at power-up and after a
\* reset; the PID task's reading is an uninitialised local.
Booted(oldRelay, oldOffAge) ==
  /\ relay' = FALSE /\ duty' = FALSE /\ fan' = "off" /\ on' = FALSE /\ lastOn' = 0
  /\ mode' = "LOCAL_AUTONOMY" /\ stopReq' = FALSE /\ cmdOn' = TRUE
  /\ queue' = None /\ reading' \in Temp
  /\ pc' = [t \in Task |-> IF t = "pid" THEN "receive" ELSE "boot"]
  /\ call' = [t \in Task |-> NoCall]
  /\ nowL' = [t \in Task |-> 0]
  /\ now' = 0 /\ pidAge' = 0 /\ wdAge' = 0 /\ stopAge' = 0
  /\ offAge' = (IF oldRelay THEN 0 ELSE oldOffAge) /\ readAge' = BlindMax
  /\ overlap' = FALSE /\ mixed' = FALSE

Init ==
  /\ relay = FALSE /\ duty = FALSE /\ fan = "off" /\ on = FALSE /\ lastOn = 0
  /\ mode = "LOCAL_AUTONOMY" /\ stopReq = FALSE /\ cmdOn = TRUE
  /\ queue = None /\ reading \in Temp
  /\ pc = [t \in Task |-> IF t = "pid" THEN "receive" ELSE "boot"]
  /\ call = [t \in Task |-> NoCall]
  /\ nowL = [t \in Task |-> 0]
  /\ now = 0 /\ pidAge = 0 /\ wdAge = 0 /\ stopAge = 0
  /\ offAge \in 0..MinOff /\ readAge = BlindMax
  /\ overlap = FALSE /\ mixed = FALSE

-------------------------------------------------------------------------------
(* apply_control_output, called by either task *)

\* now = xTaskGetTickCount() * portTICK_PERIOD_MS
ReadClock(t) ==
  /\ pc[t] = "clock"
  /\ nowL' = [nowL EXCEPT ![t] = now]
  /\ Goto(t, IF call[t].cool THEN "checkOn" ELSE "checkOff")
  /\ overlap' = IF t = "pid" THEN pc["watchdog"] \in Opening ELSE overlap
  /\ UNCHANGED <<actuators, control, call, clocks, offAge, mixed>>

CheckOn(t) ==
  /\ pc[t] = "checkOn"
  /\ Goto(t, IF on THEN "drive" ELSE "guard")
  /\ UNCHANGED <<actuators, control, call, nowL, clocks, offAge, overlap, mixed>>

OffTime(t) == Diff(nowL[t], lastOn)

\* The caller goes on: the PID task blocks, the watchdog task enters its delay.
\* Arguments and locals end with the call.
Return(t) ==
  /\ Goto(t, call[t].next)
  /\ nowL' = [nowL EXCEPT ![t] = 0]
  /\ call' = [call EXCEPT ![t] = NoCall]
  /\ overlap' = IF t = "pid" THEN FALSE ELSE overlap
  /\ UNCHANGED <<control, clocks, offAge, mixed>>

\* The off-time guard: too early, halve the fan and return.
Refuse(t) ==
  /\ pc[t] = "guard"
  /\ OffTime(t) < MinOff
  /\ fan' = "half"
  /\ Return(t)
  /\ UNCHANGED <<relay, duty, on, lastOn>>

Permit(t) ==
  /\ pc[t] = "guard"
  /\ OffTime(t) >= MinOff
  /\ Goto(t, "gpioOn")
  /\ UNCHANGED <<actuators, control, call, nowL, clocks, offAge, overlap, mixed>>

GpioOn(t) ==
  /\ pc[t] = "gpioOn"
  /\ relay' = TRUE /\ offAge' = 0
  /\ Goto(t, "setOn")
  /\ UNCHANGED <<duty, fan, on, lastOn, control, call, nowL, clocks, overlap, mixed>>

SetOn(t) ==
  /\ pc[t] = "setOn"
  /\ on' = TRUE
  /\ Goto(t, "drive")
  /\ UNCHANGED <<relay, duty, fan, lastOn, control, call, nowL, clocks, offAge, overlap, mixed>>

\* The two PWM writes that end the cooling branch; nothing reads them back.
Drive(t) ==
  /\ pc[t] = "drive"
  /\ duty' = TRUE /\ fan' = call[t].fan
  /\ Return(t)
  /\ UNCHANGED <<relay, on, lastOn>>

CheckOff(t) ==
  /\ pc[t] = "checkOff"
  /\ Goto(t, IF on THEN "gpioOff" ELSE "idle")
  /\ UNCHANGED <<actuators, control, call, nowL, clocks, offAge, overlap, mixed>>

GpioOff(t) ==
  /\ pc[t] = "gpioOff"
  /\ relay' = FALSE /\ offAge' = (IF relay THEN 0 ELSE offAge)
  /\ overlap' = (overlap \/ (t = "watchdog" /\ pc["pid"] \in Apply))
  /\ Goto(t, "clearOn")
  /\ UNCHANGED <<duty, fan, on, lastOn, control, call, nowL, clocks, mixed>>

\* A variant: the flag is left set.
ClearOnForgets(t) ==
  /\ pc[t] = "clearOn"
  /\ Goto(t, "save")
  /\ UNCHANGED <<actuators, control, call, nowL, clocks, offAge, overlap, mixed>>

ClearOn(t) ==
  /\ pc[t] = "clearOn"
  /\ on' = FALSE
  /\ Goto(t, "save")
  /\ UNCHANGED <<relay, duty, fan, lastOn, control, call, nowL, clocks, offAge, overlap, mixed>>

\* A variant: the time of switching off is not recorded.
SaveForgets(t) ==
  /\ pc[t] = "save"
  /\ Goto(t, "idle")
  /\ UNCHANGED <<actuators, control, call, nowL, clocks, offAge, overlap, mixed>>

\* The time saved is the one read when the call began.
Save(t) ==
  /\ pc[t] = "save"
  /\ lastOn' = nowL[t]
  /\ Goto(t, "idle")
  /\ UNCHANGED <<relay, duty, fan, on, control, call, nowL, clocks, offAge, overlap, mixed>>

\* A variant: the compressor PWM is not set to zero.
IdleKeepsDuty(t) ==
  /\ pc[t] = "idle"
  /\ fan' = call[t].fan
  /\ Return(t)
  /\ UNCHANGED <<relay, duty, on, lastOn>>

Idle(t) ==
  /\ pc[t] = "idle"
  /\ duty' = FALSE /\ fan' = call[t].fan
  /\ Return(t)
  /\ UNCHANGED <<relay, on, lastOn>>

ApplyStep(t) ==
  \/ ReadClock(t)
  \/ CheckOn(t) \/ Refuse(t) \/ Permit(t) \/ GpioOn(t) \/ SetOn(t) \/ Drive(t)
  \/ CheckOff(t) \/ GpioOff(t) \/ ClearOn(t) \/ Save(t) \/ Idle(t)

-------------------------------------------------------------------------------
(* task_pid *)

PidReceive ==
  /\ pc["pid"] = "receive" /\ queue # None
  /\ reading' = queue /\ queue' = None
  /\ readAge' = 0 /\ pidAge' = 0
  /\ Goto("pid", "gate")
  /\ UNCHANGED <<actuators, mode, stopReq, cmdOn, call, nowL, now, wdAge, stopAge, offAge, overlap, mixed>>

\* A variant: a missing reading requests no stop.
PidTimeoutSilent ==
  /\ pc["pid"] = "receive" /\ queue = None /\ pidAge >= RecvTimeout
  /\ pidAge' = 0
  /\ Goto("pid", "gate")
  /\ UNCHANGED <<actuators, control, call, nowL, now, wdAge, stopAge, readAge, offAge, overlap, mixed>>

\* No reading in time: request the stop, and fall through with the old reading.
PidTimeout ==
  /\ pc["pid"] = "receive" /\ queue = None /\ pidAge >= RecvTimeout
  /\ stopReq' = TRUE /\ pidAge' = 0
  /\ Goto("pid", "gate")
  /\ UNCHANGED <<actuators, mode, cmdOn, queue, reading, call, nowL, now, wdAge, stopAge,
                 readAge, offAge, overlap, mixed>>

PidCall(c) ==
  /\ call' = [call EXCEPT !["pid"] = c]
  /\ Goto("pid", "clock")
  /\ mixed' = (pc["watchdog"] \in Apply)
  /\ UNCHANGED <<actuators, mode, cmdOn, queue, reading, nowL, clocks, offAge, overlap>>

Stopped == mode = "EMERGENCY_STOP" \/ ~cmdOn

GateStopped ==
  /\ pc["pid"] = "gate" /\ Stopped
  /\ PidCall(Shutdown("delay"))
  /\ UNCHANGED stopReq

GateOver ==
  /\ pc["pid"] = "gate" /\ ~Stopped /\ reading = "over"
  /\ stopReq' = TRUE
  /\ PidCall(Call(FALSE, "max", "receive"))

\* The PID output, for some setpoint, is above zero or not.
GateControl ==
  /\ pc["pid"] = "gate" /\ ~Stopped /\ reading # "over"
  /\ \E demand \in BOOLEAN : PidCall(Call(demand, "command", "delay"))
  /\ UNCHANGED stopReq

PidWake ==
  /\ pc["pid"] = "delay" /\ pidAge >= PidPeriod
  /\ pidAge' = 0
  /\ Goto("pid", "receive")
  /\ UNCHANGED <<actuators, control, call, nowL, now, wdAge, stopAge, readAge, offAge, overlap, mixed>>

PidLoop == PidReceive \/ PidTimeout \/ GateStopped \/ GateOver \/ GateControl \/ PidWake

PidStep == PidLoop \/ ApplyStep("pid")

-------------------------------------------------------------------------------
(* task_watchdog *)

WatchdogReady ==
  \/ pc["watchdog"] = "boot"
  \/ pc["watchdog"] = "sleep" /\ wdAge >= WdPeriod

\* A variant: the wrong bit is tested.
StopMissed == FALSE

\* bits & EVT_EMERGENCY_STOP
StopSeen == stopReq

\* No stop requested: perhaps the broker has timed out; feed and sleep.
WatchdogFeed ==
  /\ WatchdogReady /\ ~StopSeen
  /\ mode' \in {mode, IF mode = "ONLINE" THEN "LOCAL_AUTONOMY" ELSE mode}
  /\ wdAge' = 0
  /\ Goto("watchdog", "sleep")
  /\ UNCHANGED <<actuators, stopReq, cmdOn, queue, reading, call, nowL, now, pidAge, stopAge,
                 readAge, offAge, overlap, mixed>>

WatchdogStop ==
  /\ WatchdogReady /\ StopSeen
  /\ Goto("watchdog", "mark")
  /\ UNCHANGED <<actuators, control, call, nowL, clocks, offAge, overlap, mixed>>

WatchdogMark ==
  /\ pc["watchdog"] = "mark"
  /\ mode' = "EMERGENCY_STOP"
  /\ call' = [call EXCEPT !["watchdog"] = Shutdown("stop")]
  /\ Goto("watchdog", "clock")
  /\ mixed' = (pc["pid"] \in Apply)
  /\ UNCHANGED <<actuators, stopReq, cmdOn, queue, reading, nowL, clocks, offAge, overlap>>

WatchdogStep == WatchdogFeed \/ WatchdogStop \/ WatchdogMark \/ ApplyStep("watchdog")

-------------------------------------------------------------------------------
(* The rest of the unit *)

\* sensor_timer_callback: xQueueOverwrite replaces an unread reading.
SensorPost ==
  /\ \E temperature \in Temp : queue' = temperature
  /\ UNCHANGED <<actuators, mode, stopReq, cmdOn, reading, pc, call, nowL, clocks, offAge, overlap, mixed>>

\* MQTT_EVENT_CONNECTED
Connected ==
  /\ mode' = "ONLINE"
  /\ UNCHANGED <<actuators, stopReq, cmdOn, queue, reading, pc, call, nowL, clocks, offAge, overlap, mixed>>

\* MQTT_EVENT_DATA with a status field
Command ==
  /\ cmdOn' \in BOOLEAN
  /\ UNCHANGED <<actuators, mode, stopReq, queue, reading, pc, call, nowL, clocks, offAge, overlap, mixed>>

\* The PID task is ready and, having the highest priority, runs before time passes.
PidUrgent ==
  \/ pc["pid"] \in {"gate", "clock"}
  \/ pc["pid"] = "receive" /\ (queue # None \/ pidAge >= RecvTimeout)
  \/ pc["pid"] = "delay" /\ pidAge >= PidPeriod

Tick ==
  /\ ~PidUrgent
  /\ \A t \in Task : pc[t] \in Timed => Diff(now, nowL[t]) < MaxLag
  /\ wdAge < HwWdt
  /\ pc["watchdog"] = "stop" => stopAge < EmergencyDelay
  /\ now' = Advance(now)
  /\ pidAge' = IF pc["pid"] \in {"receive", "delay"} THEN pidAge + 1 ELSE pidAge
  /\ wdAge' = wdAge + 1
  /\ stopAge' = IF pc["watchdog"] = "stop" THEN stopAge + 1 ELSE stopAge
  /\ readAge' = Bump(readAge, BlindMax)
  /\ offAge' = IF relay THEN offAge ELSE Bump(offAge, MinOff)
  /\ UNCHANGED <<actuators, control, pc, call, nowL, overlap, mixed>>

\* The emergency delay is over, or the hardware watchdog has not been fed.
Expired ==
  \/ pc["watchdog"] = "stop" /\ stopAge = EmergencyDelay
  \/ wdAge = HwWdt

Restart ==
  /\ Expired
  /\ Booted(relay, offAge)

-------------------------------------------------------------------------------
Next ==
  \/ PidStep \/ WatchdogStep
  \/ SensorPost \/ Connected \/ Command
  \/ Tick \/ Restart

\* FreeRTOS runs every ready task, time passes and a reset that is due happens.
Fairness ==
  /\ WF_vars(PidStep) /\ WF_vars(WatchdogStep) /\ WF_vars(Tick) /\ WF_vars(Restart)

Spec     == Init /\ [][Next]_vars
FairSpec == Spec /\ Fairness

-------------------------------------------------------------------------------
(* Properties *)

\* The compressor is energised only after it has been off for COMPRESSOR_MIN_OFF_MS,
\* less the time one call of apply_control_output may take, unless that call
\* overlapped the watchdog task's own shutdown of the compressor: across wraps of
\* the counter, resets and either task's switching off (lines 278-297).
GuardedRestart ==
  [][~relay /\ relay' => overlap \/ offAge + MaxLag >= MinOff]_vars

\* Outside apply_control_output the flag that every decision is based on agrees
\* with the relay, although two tasks write both without a lock (lines 280-297).
FlagAgrees ==
  (\A t \in Task : pc[t] \notin Apply) => on = relay

\* Between calls of apply_control_output a compressor whose relay is closed is modulated and has
\* the commanded fan speed, also after the watchdog task's shutdown, but for a PID call that
\* overlapped that shutdown, until the PID task's next; and until the shutdown it is modulated
\* only when its relay is closed (lines 278-301).
CompressorHasFan ==
  (\A t \in Task : pc[t] \notin Apply) =>
    /\ relay /\ ~mixed => duty /\ fan = "command"
    /\ pc["watchdog"] \in {"boot", "sleep"} => duty = relay

\* The compressor never runs on a reading older than a PID cycle, a receive timeout
\* and a hardware watchdog period together, and never before the first reading, whose
\* place an uninitialised local takes (lines 475, 481-516, 588-603).
NotBlind == relay => readAge < BlindMax

\* A requested stop opens the relay, whatever the broker connection does to the
\* mode afterwards (lines 484, 496, 588-595).
StopOpensRelay == stopReq ~> ~relay
===============================================================================
