-------------------------- MODULE UnitSafety_proofs --------------------------
(***************************************************************************)
(* Proofs about UnitSafety for every counter width, duration and lag that  *)
(* satisfy TimingAssumption.  The argument for GuardedRestart relates the  *)
(* off-time the guard computes, from a clock value read earlier and a      *)
(* saved time that another task may be about to overwrite, to the time the *)
(* relay has really been open.                                             *)
(***************************************************************************)
EXTENDS UnitSafety, TLAPS

\* Each task is where its own code can be, with the arguments its code passes.
Places ==
  /\ pc["pid"] \in Apply \cup {"receive", "gate", "delay"}
  /\ pc["pid"] \in Apply => call["pid"].next # "stop"
  /\ pc["watchdog"] \in {"boot", "sleep", "mark", "stop", "clock", "checkOff", "idle",
                         "gpioOff"} \cup Opening
  /\ pc["watchdog"] \in Apply => call["watchdog"] = Shutdown("stop")

\* A clock value in use is at most MaxLag ticks old.
Fresh == \A t \in Task : pc[t] \in Timed => Diff(now, nowL[t]) <= MaxLag

\* The PID task knows of every shutdown in progress during its call.
Noticed == pc["pid"] \in Timed /\ pc["watchdog"] \in Opening => overlap

\* The saved time understates the off-time by at most MaxLag, unless it is being replaced.
Measured ==
  ~relay /\ offAge < MinOff /\ (\A t \in Task : pc[t] \notin Opening)
    => Diff(now, lastOn) <= offAge + MaxLag

\* So does the off-time the PID task's guard computes,
Computed ==
  pc["pid"] \in {"checkOn", "guard"} /\ ~overlap /\ ~relay /\ offAge < MinOff
    => Diff(nowL["pid"], lastOn) <= offAge + MaxLag

\* and a start it has permitted is late enough.
Permitted ==
  pc["pid"] = "gpioOn" /\ ~overlap /\ ~relay => offAge + MaxLag >= MinOff


-------------------------------------------------------------------------------
(* Counter arithmetic *)

\* Unsigned subtraction gives a counter value.
LEMMA DiffType ==
  ASSUME NEW a \in 0..(Wrap - 1), NEW b \in 0..(Wrap - 1)
  PROVE  Diff(a, b) \in 0..(Wrap - 1)
BY TimingAssumption DEF Diff

\* The next counter value, without the modulus.
LEMMA AdvanceIs ==
  ASSUME NEW n \in 0..(Wrap - 1)
  PROVE  Advance(n) = IF n = Wrap - 1 THEN 0 ELSE n + 1
BY TimingAssumption DEF Advance

\* One tick adds one to an elapsed time that has not reached the wrap.
LEMMA DiffAdvance ==
  ASSUME NEW a \in 0..(Wrap - 1), NEW b \in 0..(Wrap - 1), Diff(a, b) < Wrap - 1
  PROVE  /\ Advance(a) \in 0..(Wrap - 1)
         /\ Diff(Advance(a), b) = Diff(a, b) + 1
BY AdvanceIs, TimingAssumption DEF Diff

-------------------------------------------------------------------------------
(* Types and places *)

LEMMA InitTypes == Init => TypeOK /\ Places
<1> SUFFICES ASSUME Init PROVE TypeOK /\ Places
  OBVIOUS
<1> USE DEF Init, Task
<1>1. call \in [Task -> Calls]
  BY DEF Calls, NoCall, Shutdown, Call
<1>2. pc \in [Task -> PC] /\ pc["pid"] = "receive" /\ pc["watchdog"] = "boot"
  BY DEF PC
<1>3. BlindMax \in Nat /\ 0 \in 0..(Wrap - 1)
  BY TimingAssumption DEF BlindMax
<1>4. Places
  BY <1>2 DEF Places, Apply, Timed
<1>5. /\ lastOn \in 0..(Wrap - 1) /\ now \in 0..(Wrap - 1) /\ nowL \in [Task -> 0..(Wrap - 1)]
      /\ pidAge \in Nat /\ wdAge \in 0..HwWdt /\ stopAge \in 0..EmergencyDelay
      /\ offAge \in 0..MinOff /\ readAge \in 0..BlindMax
  BY <1>3, TimingAssumption
<1>6. /\ mode \in Modes /\ fan \in Fans /\ queue \in Temp \cup {None} /\ reading \in Temp
      /\ relay \in BOOLEAN /\ duty \in BOOLEAN /\ on \in BOOLEAN /\ stopReq \in BOOLEAN
      /\ cmdOn \in BOOLEAN /\ overlap \in BOOLEAN /\ mixed \in BOOLEAN
  BY DEF Modes, Fans
<1>7. TypeOK
  BY <1>1, <1>2, <1>5, <1>6, Zenon DEF TypeOK
<1> QED
  BY <1>4, <1>7

\* What moving a task does to the program counters.
LEMMA GotoMoves ==
  ASSUME pc \in [Task -> PC], NEW t \in Task, NEW label \in PC, Goto(t, label)
  PROVE  /\ pc' \in [Task -> PC]
         /\ pc'[t] = label
         /\ \A u \in Task : u # t => pc'[u] = pc[u]
BY DEF Goto

\* What returning from apply_control_output does.
LEMMA ReturnMoves ==
  ASSUME TypeOK, Places, NEW t \in Task, pc[t] \in Apply, Return(t)
  PROVE  /\ pc' \in [Task -> PC]
         /\ pc'[t] = call[t].next
         /\ t = "pid" => pc'[t] \in {"receive", "delay"}
         /\ t = "watchdog" => pc'[t] = "stop"
         /\ \A u \in Task : u # t => pc'[u] = pc[u] /\ call'[u] = call[u] /\ nowL'[u] = nowL[u]
         /\ call' \in [Task -> Calls]
         /\ nowL' \in [Task -> 0..(Wrap - 1)]
         /\ overlap' \in BOOLEAN
         /\ UNCHANGED <<mode, stopReq, cmdOn, queue, reading, now, pidAge, wdAge, stopAge,
                        readAge, offAge, mixed>>
<1>1. NoCall \in Calls /\ 0 \in 0..(Wrap - 1)
  BY TimingAssumption DEF NoCall, Calls, Shutdown, Call
<1>2. /\ call' \in [Task -> Calls] /\ nowL' \in [Task -> 0..(Wrap - 1)]
      /\ \A u \in Task : u # t => call'[u] = call[u] /\ nowL'[u] = nowL[u]
  BY <1>1 DEF Return, TypeOK
<1>3. call[t].next \in {"receive", "delay", "stop"}
  BY DEF TypeOK, Calls
<1>4. call[t].next \in PC
  BY <1>3 DEF PC
<1>5. /\ t = "pid" => call[t].next \in {"receive", "delay"}
      /\ t = "watchdog" => call[t].next = "stop"
  BY <1>3 DEF Places, Shutdown, Call
<1>6. overlap' \in BOOLEAN
  BY DEF Return, TypeOK
<1> QED
  BY <1>2, <1>4, <1>5, <1>6, GotoMoves DEF Return, TypeOK, control, clocks

\* A step of apply_control_output keeps the types and returns where its caller goes on.
LEMMA ApplyTypes ==
  ASSUME TypeOK, Places, NEW t \in Task, ApplyStep(t)
  PROVE  TypeOK' /\ Places'
<1> DEFINE Branch == {"checkOn", "guard", "gpioOn", "setOn", "drive"}
<1>1. pc[t] \in Apply /\ (t = "watchdog" => pc[t] \notin Branch /\ ~call[t].cool)
  BY DEF ApplyStep, ReadClock, CheckOn, Refuse, Permit, GpioOn, SetOn, Drive, CheckOff, GpioOff,
         ClearOn, Save, Idle, Apply, Timed, Places, Opening, Shutdown, Call
<1>2. ASSUME NEW label \in Timed, Goto(t, label), t = "watchdog" => label \notin Branch,
             UNCHANGED call
      PROVE  pc' \in [Task -> PC] /\ call' \in [Task -> Calls] /\ Places'
  <2>1. label \in PC /\ label \in Apply /\ label \notin {"receive", "stop", "delay"}
    BY DEF PC, Apply, Timed
  <2>2. pc' \in [Task -> PC] /\ pc'[t] = label /\ \A u \in Task : u # t => pc'[u] = pc[u]
    BY <2>1, GotoMoves, <1>2 DEF TypeOK
  <2>3. t = "watchdog" => label \in {"checkOff", "gpioOff", "clearOn", "save", "idle"}
    BY <1>2 DEF Timed
  <2>4. CASE t = "pid"
    BY <2>1, <2>2, <2>4, <1>1, <1>2 DEF Places, TypeOK, Task
  <2>5. CASE t = "watchdog"
    BY <2>1, <2>2, <2>3, <2>5, <1>1, <1>2 DEF Places, TypeOK, Task, Opening
  <2> QED
    BY <2>4, <2>5 DEF Task
<1>3. ASSUME Return(t)
      PROVE  Places'
  <2>1. CASE t = "pid"
    BY <2>1, <1>1, <1>3, ReturnMoves DEF Places, Task, Apply, Timed
  <2>2. CASE t = "watchdog"
    BY <2>2, <1>1, <1>3, ReturnMoves DEF Places, Task, Apply, Timed, Opening
  <2> QED
    BY <2>1, <2>2 DEF Task
<1>4. call[t].fan \in Fans /\ "half" \in Fans
  BY DEF TypeOK, Calls, Fans
<1> HIDE DEF Branch
<1> USE DEF actuators, control, clocks
<1>5. CASE ReadClock(t)
  <2>1. PICK label \in Timed : Goto(t, label) /\ (t = "watchdog" => label \notin Branch)
    BY <1>5, <1>1 DEF ReadClock, Timed, Branch
  <2>2. pc' \in [Task -> PC] /\ call' \in [Task -> Calls] /\ Places'
    BY <2>1, <1>2, <1>5 DEF ReadClock, Branch
  <2>3. overlap' \in BOOLEAN
    <3>1. (pc["watchdog"] \in Opening) \in BOOLEAN
      OBVIOUS
    <3> QED
      BY <3>1, <1>5, Zenon DEF ReadClock, TypeOK
  <2>4. nowL' \in [Task -> 0..(Wrap - 1)]
    BY <1>5 DEF ReadClock, TypeOK
  <2> QED
    BY <2>2, <2>3, <2>4, <1>5 DEF ReadClock, TypeOK
<1>6. CASE CheckOn(t)
  <2>1. PICK label \in Timed : Goto(t, label) /\ (t = "watchdog" => label \notin Branch)
    BY <1>6, <1>1 DEF CheckOn, Timed, Branch
  <2>2. pc' \in [Task -> PC] /\ call' \in [Task -> Calls] /\ Places'
    BY <2>1, <1>2, <1>6 DEF CheckOn, Branch
  <2> QED
    BY <2>2, <1>6, TimingAssumption DEF CheckOn, TypeOK
<1>7. CASE Permit(t)
  <2>1. PICK label \in Timed : Goto(t, label) /\ (t = "watchdog" => label \notin Branch)
    BY <1>7, <1>1 DEF Permit, Timed, Branch
  <2>2. pc' \in [Task -> PC] /\ call' \in [Task -> Calls] /\ Places'
    BY <2>1, <1>2, <1>7 DEF Permit, Branch
  <2> QED
    BY <2>2, <1>7, TimingAssumption DEF Permit, TypeOK
<1>8. CASE GpioOn(t)
  <2>1. PICK label \in Timed : Goto(t, label) /\ (t = "watchdog" => label \notin Branch)
    BY <1>8, <1>1 DEF GpioOn, Timed, Branch
  <2>2. pc' \in [Task -> PC] /\ call' \in [Task -> Calls] /\ Places'
    BY <2>1, <1>2, <1>8 DEF GpioOn, Branch
  <2> QED
    BY <2>2, <1>8, TimingAssumption DEF GpioOn, TypeOK
<1>9. CASE SetOn(t)
  <2>1. PICK label \in Timed : Goto(t, label) /\ (t = "watchdog" => label \notin Branch)
    BY <1>9, <1>1 DEF SetOn, Timed, Branch
  <2>2. pc' \in [Task -> PC] /\ call' \in [Task -> Calls] /\ Places'
    BY <2>1, <1>2, <1>9 DEF SetOn, Branch
  <2> QED
    BY <2>2, <1>9, TimingAssumption DEF SetOn, TypeOK
<1>10. CASE CheckOff(t)
  <2>1. PICK label \in Timed : Goto(t, label) /\ (t = "watchdog" => label \notin Branch)
    BY <1>10, <1>1 DEF CheckOff, Timed, Branch
  <2>2. pc' \in [Task -> PC] /\ call' \in [Task -> Calls] /\ Places'
    BY <2>1, <1>2, <1>10 DEF CheckOff, Branch
  <2> QED
    BY <2>2, <1>10, TimingAssumption DEF CheckOff, TypeOK
<1>11. CASE GpioOff(t)
  <2>1. PICK label \in Timed : Goto(t, label) /\ (t = "watchdog" => label \notin Branch)
    BY <1>11, <1>1 DEF GpioOff, Timed, Branch
  <2>2. pc' \in [Task -> PC] /\ call' \in [Task -> Calls] /\ Places'
    BY <2>1, <1>2, <1>11 DEF GpioOff, Branch
  <2>3. overlap' \in BOOLEAN
    BY <1>11, Zenon DEF GpioOff, TypeOK
  <2>4. offAge' \in 0..MinOff
    BY <1>11, TimingAssumption DEF GpioOff, TypeOK
  <2>5. relay' = FALSE /\ UNCHANGED <<duty, fan, on, lastOn, control, nowL, clocks, mixed>>
    BY <1>11 DEF GpioOff
  <2> QED
    BY <2>2, <2>3, <2>4, <2>5 DEF TypeOK
<1>12. CASE ClearOn(t)
  <2>1. PICK label \in Timed : Goto(t, label) /\ (t = "watchdog" => label \notin Branch)
    BY <1>12, <1>1 DEF ClearOn, Timed, Branch
  <2>2. pc' \in [Task -> PC] /\ call' \in [Task -> Calls] /\ Places'
    BY <2>1, <1>2, <1>12 DEF ClearOn, Branch
  <2> QED
    BY <2>2, <1>12, TimingAssumption DEF ClearOn, TypeOK
<1>13. CASE Save(t)
  <2>1. PICK label \in Timed : Goto(t, label) /\ (t = "watchdog" => label \notin Branch)
    BY <1>13, <1>1 DEF Save, Timed, Branch
  <2>2. pc' \in [Task -> PC] /\ call' \in [Task -> Calls] /\ Places'
    BY <2>1, <1>2, <1>13 DEF Save, Branch
  <2> QED
    BY <2>2, <1>13, TimingAssumption DEF Save, TypeOK
<1>14. CASE Refuse(t)
  BY <1>14, <1>1, <1>3, <1>4, ReturnMoves DEF Refuse, TypeOK
<1>15. CASE Drive(t)
  BY <1>15, <1>1, <1>3, <1>4, ReturnMoves DEF Drive, TypeOK
<1>16. CASE Idle(t)
  BY <1>16, <1>1, <1>3, <1>4, ReturnMoves DEF Idle, TypeOK
<1> QED
  BY <1>5, <1>6, <1>7, <1>8, <1>9, <1>10, <1>11, <1>12, <1>13, <1>14, <1>15, <1>16 DEF ApplyStep

\* Every other step keeps them too.
LEMMA OtherTypes ==
  ASSUME TypeOK, Places, Next, ~ApplyStep("pid"), ~ApplyStep("watchdog")
  PROVE  TypeOK' /\ Places'
<1> USE DEF actuators, control, clocks, None
<1>0. /\ {"receive", "gate", "delay", "boot", "sleep", "mark", "stop", "clock"} \subseteq PC
      /\ "pid" \in Task /\ "watchdog" \in Task
      /\ NoCall \in Calls /\ Shutdown("stop") \in Calls
  BY DEF PC, Apply, Task, NoCall, Shutdown, Call, Calls
<1>a. BlindMax \in Nat /\ \A n \in 0..(Wrap - 1) : Advance(n) \in 0..(Wrap - 1)
  BY TimingAssumption DEF BlindMax, Advance
<1>1. CASE PidReceive
  <2>1. pc' \in [Task -> PC] /\ pc'["pid"] = "gate" /\ pc'["watchdog"] = pc["watchdog"]
    BY <1>0, <1>1, GotoMoves DEF PidReceive, TypeOK
  <2>2. call' = call
    BY <1>1 DEF PidReceive
  <2>3. Places'
    BY <2>1, <2>2 DEF Places, Apply, Timed, Shutdown, Call
  <2> QED
    BY <1>a, <2>1, <2>2, <2>3, <1>1, TimingAssumption DEF PidReceive, TypeOK, Modes
<1>2. CASE PidTimeout
  <2>1. pc' \in [Task -> PC] /\ pc'["pid"] = "gate" /\ pc'["watchdog"] = pc["watchdog"]
    BY <1>0, <1>2, GotoMoves DEF PidTimeout, TypeOK
  <2>2. call' = call
    BY <1>2 DEF PidTimeout
  <2>3. Places'
    BY <2>1, <2>2 DEF Places, Apply, Timed, Shutdown, Call
  <2> QED
    BY <1>a, <2>1, <2>2, <2>3, <1>2, TimingAssumption DEF PidTimeout, TypeOK, Modes
<1>3. CASE GateStopped
  <2>0. Shutdown("delay") \in Calls /\ Shutdown("delay").next # "stop" /\ PidCall(Shutdown("delay"))
    BY <1>3 DEF GateStopped, Calls, Shutdown, Call
  <2>1. PICK c \in Calls : PidCall(c) /\ c.next # "stop"
    BY <2>0
  <2>2. /\ pc' \in [Task -> PC] /\ pc'["pid"] = "clock" /\ pc'["watchdog"] = pc["watchdog"]
    BY <1>0, <2>1, GotoMoves DEF PidCall, TypeOK
  <2>3. /\ call' \in [Task -> Calls] /\ call'["pid"] = c /\ call'["watchdog"] = call["watchdog"]
    BY <1>0, <2>1 DEF PidCall, TypeOK
  <2>4. stopReq' \in BOOLEAN
    BY <1>3 DEF GateStopped, TypeOK
  <2>5. Places'
    BY <2>1, <2>2, <2>3 DEF Places, Apply
  <2> QED
    BY <2>1, <2>2, <2>3, <2>4, <2>5 DEF PidCall, TypeOK
<1>4. CASE GateOver
  <2>0. Call(FALSE, "max", "receive") \in Calls /\ Call(FALSE, "max", "receive").next # "stop" /\ PidCall(Call(FALSE, "max", "receive"))
    BY <1>4 DEF GateOver, Calls, Shutdown, Call
  <2>1. PICK c \in Calls : PidCall(c) /\ c.next # "stop"
    BY <2>0
  <2>2. /\ pc' \in [Task -> PC] /\ pc'["pid"] = "clock" /\ pc'["watchdog"] = pc["watchdog"]
    BY <1>0, <2>1, GotoMoves DEF PidCall, TypeOK
  <2>3. /\ call' \in [Task -> Calls] /\ call'["pid"] = c /\ call'["watchdog"] = call["watchdog"]
    BY <1>0, <2>1 DEF PidCall, TypeOK
  <2>4. stopReq' \in BOOLEAN
    BY <1>4 DEF GateOver, TypeOK
  <2>5. Places'
    BY <2>1, <2>2, <2>3 DEF Places, Apply
  <2> QED
    BY <2>1, <2>2, <2>3, <2>4, <2>5 DEF PidCall, TypeOK
<1>5. CASE GateControl
  <2>1. PICK c \in Calls : PidCall(c) /\ c.next # "stop"
    BY <1>5 DEF GateControl, Calls, Shutdown, Call
  <2>2. /\ pc' \in [Task -> PC] /\ pc'["pid"] = "clock" /\ pc'["watchdog"] = pc["watchdog"]
    BY <1>0, <2>1, GotoMoves DEF PidCall, TypeOK
  <2>3. /\ call' \in [Task -> Calls] /\ call'["pid"] = c /\ call'["watchdog"] = call["watchdog"]
    BY <1>0, <2>1 DEF PidCall, TypeOK
  <2>4. stopReq' \in BOOLEAN
    BY <1>5 DEF GateControl, TypeOK
  <2>5. Places'
    BY <2>1, <2>2, <2>3 DEF Places, Apply
  <2> QED
    BY <2>1, <2>2, <2>3, <2>4, <2>5 DEF PidCall, TypeOK
<1>6. CASE PidWake
  <2>1. pc' \in [Task -> PC] /\ pc'["pid"] = "receive" /\ pc'["watchdog"] = pc["watchdog"]
    BY <1>0, <1>6, GotoMoves DEF PidWake, TypeOK
  <2>2. call' = call
    BY <1>6 DEF PidWake
  <2>3. Places'
    BY <2>1, <2>2 DEF Places, Apply, Timed, Shutdown, Call
  <2> QED
    BY <1>a, <2>1, <2>2, <2>3, <1>6, TimingAssumption DEF PidWake, TypeOK, Modes
<1>7. CASE WatchdogFeed
  <2>1. pc' \in [Task -> PC] /\ pc'["watchdog"] = "sleep" /\ pc'["pid"] = pc["pid"]
    BY <1>0, <1>7, GotoMoves DEF WatchdogFeed, TypeOK
  <2>2. call' = call
    BY <1>7 DEF WatchdogFeed
  <2>3. Places'
    BY <2>1, <2>2 DEF Places, Apply, Timed, Shutdown, Call
  <2> QED
    BY <1>a, <2>1, <2>2, <2>3, <1>7, TimingAssumption DEF WatchdogFeed, TypeOK, Modes
<1>8. CASE WatchdogStop
  <2>1. pc' \in [Task -> PC] /\ pc'["watchdog"] = "mark" /\ pc'["pid"] = pc["pid"]
    BY <1>0, <1>8, GotoMoves DEF WatchdogStop, TypeOK
  <2>2. call' = call
    BY <1>8 DEF WatchdogStop
  <2>3. Places'
    BY <2>1, <2>2 DEF Places, Apply, Timed, Shutdown, Call
  <2> QED
    BY <1>a, <2>1, <2>2, <2>3, <1>8, TimingAssumption DEF WatchdogStop, TypeOK, Modes
<1>9. CASE WatchdogMark
  <2>1. pc' \in [Task -> PC] /\ pc'["watchdog"] = "clock" /\ pc'["pid"] = pc["pid"]
    BY <1>0, <1>9, GotoMoves DEF WatchdogMark, TypeOK
  <2>2. /\ call' \in [Task -> Calls] /\ call'["watchdog"] = Shutdown("stop")
        /\ call'["pid"] = call["pid"]
    BY <1>0, <1>9 DEF WatchdogMark, TypeOK
  <2>3. Places'
    BY <2>1, <2>2 DEF Places, Apply, Timed, Shutdown, Call
  <2> QED
    BY <1>a, <2>1, <2>2, <2>3, <1>9, TimingAssumption DEF WatchdogMark, TypeOK, Modes
<1>10. CASE SensorPost
  BY <1>10 DEF SensorPost, TypeOK, Places, Modes
<1>11. CASE Connected
  BY <1>11 DEF Connected, TypeOK, Places, Modes
<1>12. CASE Command
  BY <1>12 DEF Command, TypeOK, Places, Modes
<1>13. CASE Tick
  <2>1. now' \in 0..(Wrap - 1) /\ pidAge' \in Nat /\ wdAge' \in 0..HwWdt
    BY <1>a, <1>13, TimingAssumption DEF Tick, TypeOK
  <2>2. stopAge' \in 0..EmergencyDelay
    BY <1>13, TimingAssumption DEF Tick, TypeOK
  <2>3. readAge' \in 0..BlindMax /\ offAge' \in 0..MinOff
    BY <1>a, <1>13, TimingAssumption DEF Tick, TypeOK, Bump
  <2> QED
    BY <2>1, <2>2, <2>3, <1>13 DEF Tick, TypeOK, Places
<1>14. CASE Restart
  <2>1. /\ pc' \in [Task -> PC] /\ pc'["pid"] = "receive" /\ pc'["watchdog"] = "boot"
        /\ call' \in [Task -> Calls] /\ nowL' \in [Task -> 0..(Wrap - 1)]
    BY <1>0, <1>14, TimingAssumption DEF Restart, Booted, Task, PC
  <2>2. /\ lastOn' \in 0..(Wrap - 1) /\ now' \in 0..(Wrap - 1) /\ pidAge' \in Nat
        /\ wdAge' \in 0..HwWdt /\ stopAge' \in 0..EmergencyDelay
        /\ offAge' \in 0..MinOff /\ readAge' \in 0..BlindMax
    BY <1>a, <1>14, TimingAssumption DEF Restart, Booted, TypeOK
  <2>3. /\ mode' \in Modes /\ fan' \in Fans /\ queue' \in Temp \cup {None} /\ reading' \in Temp
        /\ relay' \in BOOLEAN /\ duty' \in BOOLEAN /\ on' \in BOOLEAN /\ stopReq' \in BOOLEAN
        /\ cmdOn' \in BOOLEAN /\ overlap' \in BOOLEAN /\ mixed' \in BOOLEAN
    BY <1>14 DEF Restart, Booted, Modes, Fans
  <2>4. Places'
    BY <2>1 DEF Places, Apply, Timed
  <2> QED
    BY <2>1, <2>2, <2>3, <2>4, Zenon DEF TypeOK
<1> QED
  BY <1>1, <1>2, <1>3, <1>4, <1>5, <1>6, <1>7, <1>8,
     <1>9, <1>10, <1>11, <1>12, <1>13, <1>14 DEF Next, PidStep, PidLoop, WatchdogStep

LEMMA TypesStep ==
  ASSUME TypeOK, Places, [Next]_vars
  PROVE  TypeOK' /\ Places'
<1>1. CASE ApplyStep("pid")
  BY <1>1, ApplyTypes DEF Task
<1>2. CASE ApplyStep("watchdog")
  BY <1>2, ApplyTypes DEF Task
<1>3. CASE Next /\ ~ApplyStep("pid") /\ ~ApplyStep("watchdog")
  BY <1>3, OtherTypes
<1>4. CASE UNCHANGED vars
  BY <1>4 DEF vars, actuators, control, clocks, TypeOK, Places
<1> QED
  BY <1>1, <1>2, <1>3, <1>4

\* The type invariant, with each task where its own code can be.
THEOREM Types == Spec => [](TypeOK /\ Places)
<1>1. TypeOK /\ Places /\ [Next]_vars => (TypeOK /\ Places)'
  BY TypesStep
<1> QED
  BY <1>1, InitTypes, PTL DEF Spec

-------------------------------------------------------------------------------
(* The off-time guard *)

Guarding == Fresh /\ Noticed /\ Measured /\ Computed /\ Permitted

LEMMA InitGuarding == Init => Guarding
<1> SUFFICES ASSUME Init PROVE Guarding
  OBVIOUS
<1>1. pc["pid"] = "receive" /\ \A t \in Task : pc[t] \in {"receive", "boot"}
  BY DEF Init, Task
<1>2. Diff(now, lastOn) = 0 /\ offAge \in Nat
  BY TimingAssumption DEF Init, Diff
<1> QED
  BY <1>1, <1>2, TimingAssumption
     DEF Guarding, Fresh, Noticed, Measured, Computed, Permitted, Timed, Opening

\* A step that only moves tasks, within or out of their calls, and neither into the
\* guard nor across the switching off.
LEMMA Quiet ==
  ASSUME TypeOK, Guarding,
         UNCHANGED <<relay, lastOn, now, offAge>>,
         \A u \in Task : pc'[u] \in Timed => pc[u] \in Timed /\ nowL'[u] = nowL[u],
         \A u \in Task : pc[u] \in Opening <=> pc'[u] \in Opening,
         pc'["pid"] \in Timed => overlap' = overlap,
         pc'["pid"] \in {"checkOn", "guard"} => pc["pid"] \in {"checkOn", "guard"},
         pc'["pid"] = "gpioOn" => pc["pid"] = "gpioOn"
  PROVE  Guarding'
<1> USE DEF Guarding, Task
<1>1. Fresh'
  BY DEF Fresh
<1>2. Noticed'
  BY DEF Noticed
<1>3. Measured'
  BY DEF Measured
<1>4. Computed'
  BY DEF Computed, Timed
<1>5. Permitted'
  BY DEF Permitted, Timed
<1> QED
  BY <1>1, <1>2, <1>3, <1>4, <1>5

\* The call's clock value is current, and every shutdown in progress is noticed.
LEMMA ReadClockGuards ==
  ASSUME TypeOK, Places, Guarding, NEW t \in Task, ReadClock(t)
  PROVE  Guarding'
<1> USE DEF Guarding
<1>1. /\ pc' = [pc EXCEPT ![t] = IF call[t].cool THEN "checkOn" ELSE "checkOff"]
      /\ nowL' = [nowL EXCEPT ![t] = now] /\ pc[t] = "clock"
      /\ UNCHANGED <<relay, lastOn, now, offAge>>
      /\ t = "pid" => overlap' = (pc["watchdog"] \in Opening)
      /\ t = "watchdog" => overlap' = overlap
  BY DEF ReadClock, Goto, actuators, clocks
<1>2. Diff(now, now) = 0
  BY DEF Diff, TypeOK
<1>3. /\ pc'[t] \in {"checkOn", "checkOff"} /\ nowL'[t] = now
      /\ \A u \in Task : u # t => pc'[u] = pc[u] /\ nowL'[u] = nowL[u]
  BY <1>1 DEF TypeOK
<1>4. Fresh'
  BY <1>1, <1>2, <1>3, TimingAssumption DEF Fresh
<1>5. Noticed'
  BY <1>1, <1>3 DEF Noticed, Task, Opening
<1>6. Measured'
  BY <1>1, <1>3 DEF Measured, Task, Opening
<1>7. t = "pid" => Computed'
  BY <1>1, <1>3 DEF Measured, Computed, Task, Opening
<1>8. t = "watchdog" => Computed'
  BY <1>1, <1>3 DEF Computed, Task
<1>9. Permitted'
  BY <1>1, <1>3 DEF Permitted, Task
<1> QED
  BY <1>4, <1>5, <1>6, <1>7, <1>8, <1>9 DEF Task

\* Passing the guard.
LEMMA PermitGuards ==
  ASSUME TypeOK, Places, Guarding, NEW t \in Task, Permit(t)
  PROVE  Guarding'
<1> USE DEF Guarding
<1>1. /\ pc[t] = "guard" /\ pc'[t] = "gpioOn" /\ Diff(nowL[t], lastOn) >= MinOff
      /\ \A u \in Task : u # t => pc'[u] = pc[u]
      /\ UNCHANGED <<relay, lastOn, now, nowL, offAge, overlap>>
  BY DEF Permit, Goto, OffTime, actuators, clocks, TypeOK
<1>2. t = "pid"
  BY <1>1 DEF Places, Opening, Task
<1>3. Fresh' /\ Noticed'
  BY <1>1, <1>2 DEF Fresh, Noticed, Task, Timed
<1>4. Measured' /\ Computed'
  BY <1>1, <1>2 DEF Measured, Computed, Task, Opening
<1>5. Permitted'
  <2>1. Diff(nowL["pid"], lastOn) \in Int /\ offAge \in Int
    BY DiffType, TimingAssumption DEF TypeOK, Task
  <2> QED
    BY <1>1, <1>2, <2>1, TimingAssumption DEF Computed, Permitted
<1> QED
  BY <1>3, <1>4, <1>5

LEMMA GpioOnGuards ==
  ASSUME TypeOK, Places, Guarding, NEW t \in Task, GpioOn(t)
  PROVE  Guarding'
<1> USE DEF Guarding
<1>1. /\ pc[t] = "gpioOn" /\ pc'[t] = "setOn" /\ relay' = TRUE
      /\ \A u \in Task : u # t => pc'[u] = pc[u]
      /\ UNCHANGED <<lastOn, now, nowL, overlap>>
  BY DEF GpioOn, Goto, clocks, TypeOK
<1>2. t = "pid"
  BY <1>1 DEF Places, Opening, Task
<1>3. Fresh' /\ Noticed'
  BY <1>1, <1>2 DEF Fresh, Noticed, Task, Timed
<1>4. Measured' /\ Computed' /\ Permitted'
  BY <1>1 DEF Measured, Computed, Permitted
<1> QED
  BY <1>3, <1>4

\* The relay opens; until the time is saved only an overlapped call can be misled.
LEMMA GpioOffGuards ==
  ASSUME TypeOK, Places, Guarding, NEW t \in Task, GpioOff(t)
  PROVE  Guarding'
<1> USE DEF Guarding
<1>1. /\ pc[t] = "gpioOff" /\ pc'[t] = "clearOn" /\ relay' = FALSE
      /\ \A u \in Task : u # t => pc'[u] = pc[u]
      /\ UNCHANGED <<lastOn, now, nowL>>
      /\ t = "watchdog" /\ pc["pid"] \in Apply => overlap'
      /\ overlap => overlap'
  BY DEF GpioOff, Goto, clocks, TypeOK
<1>2. Fresh'
  BY <1>1 DEF Fresh, Task, Timed
<1>3. Noticed'
  BY <1>1 DEF Noticed, Task, Timed, Apply, Opening
<1>4. Measured'
  BY <1>1 DEF Measured, Opening
<1>5. Computed' /\ Permitted'
  BY <1>1 DEF Computed, Permitted, Task, Timed, Apply
<1> QED
  BY <1>2, <1>3, <1>4, <1>5

\* The saved time is the call's clock value, which is fresh.
LEMMA SaveGuards ==
  ASSUME TypeOK, Places, Guarding, NEW t \in Task, Save(t)
  PROVE  Guarding'
<1> USE DEF Guarding
<1>1. /\ pc[t] = "save" /\ pc'[t] = "idle" /\ lastOn' = nowL[t]
      /\ \A u \in Task : u # t => pc'[u] = pc[u]
      /\ UNCHANGED <<relay, now, nowL, offAge, overlap>>
  BY DEF Save, Goto, clocks, TypeOK
<1>2. Fresh' /\ Noticed'
  BY <1>1 DEF Fresh, Noticed, Task, Timed, Opening
<1>3. Measured'
  <2>1. Diff(now, nowL[t]) <= MaxLag /\ Diff(now, nowL[t]) \in Int /\ offAge \in Nat
    BY <1>1, DiffType, TimingAssumption DEF Fresh, Timed, TypeOK
  <2> QED
    BY <1>1, <2>1, TimingAssumption DEF Measured
<1>4. Computed' /\ Permitted'
  BY <1>1 DEF Noticed, Computed, Permitted, Task, Timed, Opening
<1> QED
  BY <1>2, <1>3, <1>4

\* One tick ages what the guard measures and what it should measure alike.
LEMMA TickGuards ==
  ASSUME TypeOK, Places, Guarding, Tick
  PROVE  Guarding'
<1> USE DEF Guarding
<1>1. /\ UNCHANGED <<relay, lastOn, pc, nowL, overlap>> /\ now' = Advance(now)
      /\ offAge' = (IF relay THEN offAge ELSE Bump(offAge, MinOff))
      /\ \A t \in Task : pc[t] \in Timed => Diff(now, nowL[t]) < MaxLag
  BY DEF Tick, actuators
<1>2. /\ offAge \in Nat /\ offAge' \in Nat /\ offAge' <= MinOff
      /\ ~relay /\ offAge' < MinOff => offAge' = offAge + 1 /\ offAge < MinOff
      /\ ~relay => offAge' >= offAge
  BY <1>1, TimingAssumption DEF TypeOK, Bump
<1>3. Fresh'
  <2> SUFFICES ASSUME NEW t \in Task, pc[t] \in Timed
               PROVE  Diff(now', nowL[t]) <= MaxLag
    BY <1>1 DEF Fresh
  <2>1. Diff(now, nowL[t]) \in 0..(Wrap - 1) /\ Diff(now, nowL[t]) < MaxLag
    BY <1>1, DiffType DEF TypeOK
  <2>2. Diff(Advance(now), nowL[t]) = Diff(now, nowL[t]) + 1
    BY <2>1, DiffAdvance, TimingAssumption DEF TypeOK
  <2> QED
    BY <1>1, <2>1, <2>2, TimingAssumption
<1>4. Noticed'
  BY <1>1 DEF Noticed
<1>5. Measured'
  <2> SUFFICES ASSUME ~relay, offAge' < MinOff, \A t \in Task : pc[t] \notin Opening
               PROVE  Diff(now', lastOn) <= offAge' + MaxLag
    BY <1>1 DEF Measured
  <2>1. Diff(now, lastOn) <= offAge + MaxLag /\ Diff(now, lastOn) \in 0..(Wrap - 1)
    BY <1>2, DiffType DEF Measured, TypeOK
  <2>2. Diff(Advance(now), lastOn) = Diff(now, lastOn) + 1
    BY <1>2, <2>1, DiffAdvance, TimingAssumption DEF TypeOK
  <2> QED
    BY <1>1, <1>2, <2>1, <2>2, TimingAssumption
<1>6. Computed'
  <2>1. Diff(nowL["pid"], lastOn) \in Int
    BY DiffType, TimingAssumption DEF TypeOK, Task
  <2> QED
    BY <1>1, <1>2, <2>1, TimingAssumption DEF Computed
<1>7. Permitted'
  BY <1>1, <1>2, TimingAssumption DEF Permitted
<1> QED
  BY <1>3, <1>4, <1>5, <1>6, <1>7

LEMMA RestartGuards ==
  ASSUME TypeOK, Restart
  PROVE  Guarding'
<1>1. /\ pc'["pid"] = "receive" /\ \A t \in Task : pc'[t] \in {"receive", "boot"}
      /\ now' = 0 /\ lastOn' = 0 /\ offAge' \in Nat
  BY TimingAssumption DEF Restart, Booted, Task, TypeOK
<1>2. Diff(now', lastOn') = 0
  BY <1>1 DEF Diff
<1>3. Fresh' /\ Noticed' /\ Computed' /\ Permitted'
  BY <1>1 DEF Fresh, Noticed, Computed, Permitted, Timed
<1>4. Measured'
  BY <1>1, <1>2, TimingAssumption DEF Measured
<1> QED
  BY <1>3, <1>4 DEF Guarding

\* The remaining steps of a call are quiet.
LEMMA CallGuards ==
  ASSUME TypeOK, Places, Guarding, NEW t \in Task,
         CheckOn(t) \/ SetOn(t) \/ CheckOff(t) \/ ClearOn(t)
           \/ Refuse(t) \/ Drive(t) \/ Idle(t)
  PROVE  Guarding'
<1> USE DEF actuators, clocks, Timed, Opening
<1>1. CASE CheckOn(t)
  <2>1. /\ pc[t] = "checkOn" /\ pc'[t] \in {"drive", "guard"}
        /\ \A u \in Task : u # t => pc'[u] = pc[u]
        /\ UNCHANGED <<relay, lastOn, now, nowL, offAge, overlap>>
    BY <1>1 DEF CheckOn, Goto, TypeOK
  <2> QED
    BY <2>1, Quiet DEF Task
<1>2. CASE SetOn(t)
  <2>1. /\ pc[t] = "setOn" /\ pc'[t] \in {"drive"}
        /\ \A u \in Task : u # t => pc'[u] = pc[u]
        /\ UNCHANGED <<relay, lastOn, now, nowL, offAge, overlap>>
    BY <1>2 DEF SetOn, Goto, TypeOK
  <2> QED
    BY <2>1, Quiet DEF Task
<1>3. CASE CheckOff(t)
  <2>1. /\ pc[t] = "checkOff" /\ pc'[t] \in {"gpioOff", "idle"}
        /\ \A u \in Task : u # t => pc'[u] = pc[u]
        /\ UNCHANGED <<relay, lastOn, now, nowL, offAge, overlap>>
    BY <1>3 DEF CheckOff, Goto, TypeOK
  <2> QED
    BY <2>1, Quiet DEF Task
<1>4. CASE ClearOn(t)
  <2>1. /\ pc[t] = "clearOn" /\ pc'[t] \in {"save"}
        /\ \A u \in Task : u # t => pc'[u] = pc[u]
        /\ UNCHANGED <<relay, lastOn, now, nowL, offAge, overlap>>
    BY <1>4 DEF ClearOn, Goto, TypeOK
  <2> QED
    BY <2>1, Quiet DEF Task
<1>5. CASE Refuse(t)
  <2>1. /\ pc[t] = "guard" /\ Return(t) /\ pc[t] \in Apply
        /\ UNCHANGED <<relay, lastOn, now, offAge>>
        /\ t # "pid" => overlap' = overlap
    BY <1>5 DEF Refuse, Return, Apply
  <2>2. /\ pc'[t] \in {"receive", "delay", "stop"}
        /\ \A u \in Task : u # t => pc'[u] = pc[u] /\ nowL'[u] = nowL[u]
    BY <2>1, ReturnMoves DEF Task
  <2> QED
    BY <2>1, <2>2, Quiet DEF Task
<1>6. CASE Drive(t)
  <2>1. /\ pc[t] = "drive" /\ Return(t) /\ pc[t] \in Apply
        /\ UNCHANGED <<relay, lastOn, now, offAge>>
        /\ t # "pid" => overlap' = overlap
    BY <1>6 DEF Drive, Return, Apply
  <2>2. /\ pc'[t] \in {"receive", "delay", "stop"}
        /\ \A u \in Task : u # t => pc'[u] = pc[u] /\ nowL'[u] = nowL[u]
    BY <2>1, ReturnMoves DEF Task
  <2> QED
    BY <2>1, <2>2, Quiet DEF Task
<1>7. CASE Idle(t)
  <2>1. /\ pc[t] = "idle" /\ Return(t) /\ pc[t] \in Apply
        /\ UNCHANGED <<relay, lastOn, now, offAge>>
        /\ t # "pid" => overlap' = overlap
    BY <1>7 DEF Idle, Return, Apply
  <2>2. /\ pc'[t] \in {"receive", "delay", "stop"}
        /\ \A u \in Task : u # t => pc'[u] = pc[u] /\ nowL'[u] = nowL[u]
    BY <2>1, ReturnMoves DEF Task
  <2> QED
    BY <2>1, <2>2, Quiet DEF Task
<1> QED
  BY <1>1, <1>2, <1>3, <1>4, <1>5, <1>6, <1>7

\* Steps outside a call are quiet.
LEMMA LoopGuards ==
  ASSUME TypeOK, Places, Guarding,
         PidLoop \/ WatchdogFeed \/ WatchdogStop \/ WatchdogMark
           \/ SensorPost \/ Connected \/ Command
  PROVE  Guarding'
<1> USE DEF actuators, clocks, Timed, Opening
<1>1. CASE PidReceive
  <2>1. /\ pc["pid"] = "receive" /\ pc'["pid"] = "gate" /\ pc'["watchdog"] = pc["watchdog"]
        /\ UNCHANGED <<relay, lastOn, now, nowL, offAge, overlap>>
    BY <1>1 DEF PidReceive, Goto, TypeOK, Task
  <2> QED
    BY <2>1, Quiet DEF Task
<1>2. CASE PidTimeout
  <2>1. /\ pc["pid"] = "receive" /\ pc'["pid"] = "gate" /\ pc'["watchdog"] = pc["watchdog"]
        /\ UNCHANGED <<relay, lastOn, now, nowL, offAge, overlap>>
    BY <1>2 DEF PidTimeout, Goto, TypeOK, Task
  <2> QED
    BY <2>1, Quiet DEF Task
<1>3. CASE GateStopped
  <2>1. /\ pc["pid"] = "gate" /\ pc'["pid"] = "clock" /\ pc'["watchdog"] = pc["watchdog"]
        /\ UNCHANGED <<relay, lastOn, now, nowL, offAge, overlap>>
    BY <1>3 DEF GateStopped, PidCall, Goto, TypeOK, Task
  <2> QED
    BY <2>1, Quiet DEF Task
<1>4. CASE GateOver
  <2>1. /\ pc["pid"] = "gate" /\ pc'["pid"] = "clock" /\ pc'["watchdog"] = pc["watchdog"]
        /\ UNCHANGED <<relay, lastOn, now, nowL, offAge, overlap>>
    BY <1>4 DEF GateOver, PidCall, Goto, TypeOK, Task
  <2> QED
    BY <2>1, Quiet DEF Task
<1>5. CASE GateControl
  <2>1. /\ pc["pid"] = "gate" /\ pc'["pid"] = "clock" /\ pc'["watchdog"] = pc["watchdog"]
        /\ UNCHANGED <<relay, lastOn, now, nowL, offAge, overlap>>
    BY <1>5 DEF GateControl, PidCall, Goto, TypeOK, Task
  <2> QED
    BY <2>1, Quiet DEF Task
<1>6. CASE PidWake
  <2>1. /\ pc["pid"] = "delay" /\ pc'["pid"] = "receive" /\ pc'["watchdog"] = pc["watchdog"]
        /\ UNCHANGED <<relay, lastOn, now, nowL, offAge, overlap>>
    BY <1>6 DEF PidWake, Goto, TypeOK, Task
  <2> QED
    BY <2>1, Quiet DEF Task
<1>7. CASE WatchdogFeed
  <2>1. /\ pc["watchdog"] \in {"boot", "sleep"} /\ pc'["watchdog"] = "sleep" /\ pc'["pid"] = pc["pid"]
        /\ UNCHANGED <<relay, lastOn, now, nowL, offAge, overlap>>
    BY <1>7 DEF WatchdogFeed, WatchdogReady, Goto, TypeOK, Task
  <2> QED
    BY <2>1, Quiet DEF Task
<1>8. CASE WatchdogStop
  <2>1. /\ pc["watchdog"] \in {"boot", "sleep"} /\ pc'["watchdog"] = "mark" /\ pc'["pid"] = pc["pid"]
        /\ UNCHANGED <<relay, lastOn, now, nowL, offAge, overlap>>
    BY <1>8 DEF WatchdogStop, WatchdogReady, Goto, TypeOK, Task
  <2> QED
    BY <2>1, Quiet DEF Task
<1>9. CASE WatchdogMark
  <2>1. /\ pc["watchdog"] = "mark" /\ pc'["watchdog"] = "clock" /\ pc'["pid"] = pc["pid"]
        /\ UNCHANGED <<relay, lastOn, now, nowL, offAge, overlap>>
    BY <1>9 DEF WatchdogMark, Goto, TypeOK, Task
  <2> QED
    BY <2>1, Quiet DEF Task
<1>10. CASE SensorPost
  <2>1. UNCHANGED <<relay, lastOn, now, offAge, pc, nowL, overlap>>
    BY <1>10 DEF SensorPost
  <2> QED
    BY <2>1, Quiet DEF Task
<1>11. CASE Connected
  <2>1. UNCHANGED <<relay, lastOn, now, offAge, pc, nowL, overlap>>
    BY <1>11 DEF Connected
  <2> QED
    BY <2>1, Quiet DEF Task
<1>12. CASE Command
  <2>1. UNCHANGED <<relay, lastOn, now, offAge, pc, nowL, overlap>>
    BY <1>12 DEF Command
  <2> QED
    BY <2>1, Quiet DEF Task
<1> QED
  BY <1>1, <1>2, <1>3, <1>4, <1>5, <1>6, <1>7, <1>8, <1>9, <1>10, <1>11, <1>12 DEF PidLoop

LEMMA GuardingStep ==
  ASSUME TypeOK, Places, Guarding, [Next]_vars
  PROVE  Guarding'
<1>1. ASSUME NEW t \in Task, ApplyStep(t)
      PROVE  Guarding'
  BY <1>1, ReadClockGuards, PermitGuards, GpioOnGuards, GpioOffGuards, SaveGuards, CallGuards
     DEF ApplyStep
<1>2. CASE Tick
  BY <1>2, TickGuards
<1>3. CASE Restart
  BY <1>3, RestartGuards
<1>4. CASE UNCHANGED vars
  BY <1>4, Quiet DEF vars, actuators, clocks, Task
<1>5. CASE PidLoop \/ WatchdogFeed \/ WatchdogStop \/ WatchdogMark
             \/ SensorPost \/ Connected \/ Command
  BY <1>5, LoopGuards
<1>6. "pid" \in Task /\ "watchdog" \in Task
  BY DEF Task
<1> QED
  BY <1>1, <1>2, <1>3, <1>4, <1>5, <1>6 DEF Next, PidStep, WatchdogStep

\* The inductive invariant of the off-time guard.
THEOREM GuardInvariant == Spec => [](TypeOK /\ Places /\ Guarding)
<1>1. TypeOK /\ Places /\ Guarding /\ [Next]_vars => (TypeOK /\ Places /\ Guarding)'
  BY TypesStep, GuardingStep
<1>2. Init => TypeOK /\ Places /\ Guarding
  BY InitTypes, InitGuarding
<1> QED
  BY <1>1, <1>2, PTL DEF Spec

\* The compressor is never started before COMPRESSOR_MIN_OFF_MS less the time of one
\* call has passed with its relay open, except by a call that overlaps the watchdog
\* task's shutdown (apply_control_output, lines 278-297).
THEOREM RestartsAreGuarded == Spec => GuardedRestart
<1>1. ASSUME TypeOK, Places, Guarding, [Next]_vars
      PROVE  [~relay /\ relay' => overlap \/ offAge + MaxLag >= MinOff]_vars
  <2> SUFFICES ASSUME Next, ~relay, relay'
               PROVE  overlap \/ offAge + MaxLag >= MinOff
    BY <1>1
  <2>1. PICK t \in Task : GpioOn(t)
    BY DEF Next, PidStep, PidLoop, WatchdogStep, ApplyStep, Task, actuators,
           ReadClock, CheckOn, Refuse, Permit, SetOn, Drive, CheckOff, GpioOff, ClearOn, Save, Idle,
           PidReceive, PidTimeout, GateStopped, GateOver, GateControl, PidCall, PidWake,
           WatchdogFeed, WatchdogStop, WatchdogMark, SensorPost, Connected, Command, Tick,
           Restart, Booted
  <2>2. pc[t] = "gpioOn" /\ t = "pid"
    BY <1>1, <2>1 DEF GpioOn, Places, Task, Opening
  <2> QED
    BY <1>1, <2>2 DEF Guarding, Permitted
<1> QED
  BY <1>1, GuardInvariant, PTL DEF Spec, GuardedRestart

\* Every variable keeps its type: in particular the off-time, the saved time and the
\* counter stay within the counter's width across wraps and resets.
THEOREM TypeCorrect == Spec => []TypeOK
BY Types, PTL
-------------------------------------------------------------------------------
(* The flag and the modulation of the compressor *)

Starting == {"checkOn", "guard", "gpioOn", "setOn", "drive"}

\* The PID task is called to cool with the commanded fan speed only.
Asked ==
  /\ pc["pid"] \in Starting => call["pid"].cool
  /\ pc["pid"] \in Apply /\ call["pid"].cool => call["pid"].fan = "command"

\* The watchdog task has seen the flag and will open the relay and clear it.
Stopping == pc["watchdog"] \in {"gpioOff", "clearOn"}

\* The flag and the relay differ only while a task is between its two writes,
Halfway ==
  /\ on /\ ~relay => \E t \in Task : pc[t] = "clearOn"
  /\ relay /\ ~on => pc["pid"] = "setOn"
  /\ pc["pid"] \in {"guard", "gpioOn", "setOn"} => ~on
  /\ pc["pid"] = "setOn" => relay
  /\ \A t \in Task : pc[t] = "clearOn" => ~relay

\* and a start is never between them while the watchdog task is switching off: it would need
\* the flag cleared by an earlier call, whose switch-off time is too recent for the guard.
Apart ==
  /\ Stopping => pc["pid"] \notin {"gpioOn", "setOn"}
  /\ Stopping /\ ~on /\ pc["pid"] # "save" =>
       Diff(now, lastOn) <= MaxLag + Diff(now, nowL["watchdog"])
  /\ Stopping /\ ~on /\ pc["pid"] \in {"checkOn", "guard"} =>
       Diff(nowL["pid"], lastOn) <= 2 * MaxLag

\* Before the watchdog task shuts the unit down, what a call leaves behind it.
Modulated ==
  pc["watchdog"] \in {"boot", "sleep"} =>
    /\ pc["pid"] \notin Timed \ {"checkOn", "checkOff"} => duty = relay /\ (relay => fan = "command")
    /\ pc["pid"] \in {"guard", "gpioOn"} => ~relay /\ ~duty
    /\ pc["pid"] \in {"setOn", "drive"} => relay
    /\ pc["pid"] \in {"clearOn", "save", "idle"} => ~relay

Agreeing == Asked /\ Halfway /\ Apart /\ Modulated


LEMMA InitAgreeing == Init => Agreeing
<1> SUFFICES ASSUME Init PROVE Agreeing
  OBVIOUS
<1>1. pc["pid"] = "receive" /\ pc["watchdog"] = "boot"
  BY DEF Init, Task
<1> QED
  BY <1>1 DEF Init, Agreeing, Asked, Halfway, Apart, Stopping, Modulated, Starting, Apply, Timed, Task

\* Where a step of one task leaves both.
LEMMA Where ==
  ASSUME TypeOK, NEW t \in Task, NEW label, Goto(t, label)
  PROVE  /\ t = "pid" => pc'["pid"] = label /\ pc'["watchdog"] = pc["watchdog"]
         /\ t = "watchdog" => pc'["watchdog"] = label /\ pc'["pid"] = pc["pid"]
BY DEF Goto, TypeOK, Task

\* A step of apply_control_output keeps the flag and the relay in agreement.
LEMMA AgreeingApply ==
  ASSUME TypeOK, Places, Guarding, Agreeing, NEW t \in Task, ApplyStep(t)
  PROVE  Agreeing'
<1> USE DEF Agreeing, Task
<1> USE DEF actuators, control, clocks, Starting, Stopping, Timed, Apply
<1>1. CASE ReadClock(t)
  <2>1. /\ t = "pid" => pc'["pid"] = (IF call[t].cool THEN "checkOn" ELSE "checkOff") /\ pc'["watchdog"] = pc["watchdog"]
        /\ t = "watchdog" => pc'["watchdog"] = (IF call[t].cool THEN "checkOn" ELSE "checkOff") /\ pc'["pid"] = pc["pid"]
    BY <1>1, Where DEF ReadClock
  <2>2. Asked'
    BY <1>1, <2>1 DEF ReadClock, Asked, Places, Opening
  <2>3. Halfway'
    BY <1>1, <2>1 DEF ReadClock, Halfway, Places, Apart, Opening
  <2>4. Apart'
    <3>1. CASE t = "pid"
      <4>1. nowL'["pid"] = now /\ nowL'["watchdog"] = nowL["watchdog"]
        BY <1>1, <3>1 DEF ReadClock, TypeOK
      <4>2. Stopping => Diff(now, nowL["watchdog"]) <= MaxLag
        BY DEF Guarding, Fresh
      <4>3. Diff(now, lastOn) \in Int /\ Diff(now, nowL["watchdog"]) \in Int
        BY DiffType, TimingAssumption DEF TypeOK
      <4>4. /\ Stopping' = Stopping /\ pc["pid"] = "clock" /\ pc'["pid"] \in {"checkOn", "checkOff"}
            /\ UNCHANGED <<on, lastOn, now>>
        BY <1>1, <2>1, <3>1 DEF ReadClock
      <4> QED
        BY <4>1, <4>2, <4>3, <4>4, TimingAssumption DEF Apart
    <3>2. CASE t = "watchdog"
      BY <1>1, <2>1, <3>2 DEF ReadClock, Apart, Places, Shutdown, Call
    <3> QED
      BY <3>1, <3>2
  <2>5. Modulated'
    BY <1>1, <2>1 DEF ReadClock, Modulated, Halfway, Places, Asked, Opening
  <2> QED
    BY <2>2, <2>3, <2>4, <2>5
<1>2. CASE CheckOn(t)
  <2>1. /\ t = "pid" => pc'["pid"] = (IF on THEN "drive" ELSE "guard") /\ pc'["watchdog"] = pc["watchdog"]
        /\ t = "watchdog" => pc'["watchdog"] = (IF on THEN "drive" ELSE "guard") /\ pc'["pid"] = pc["pid"]
    BY <1>2, Where DEF CheckOn
  <2>2. Asked'
    BY <1>2, <2>1 DEF CheckOn, Asked, Places, Opening
  <2>3. Halfway'
    BY <1>2, <2>1 DEF CheckOn, Halfway, Places, Apart, Opening
  <2>4. Apart'
    BY <1>2, <2>1 DEF CheckOn, Apart, Halfway, Places, Opening
  <2>5. Modulated'
    BY <1>2, <2>1 DEF CheckOn, Modulated, Halfway, Places, Asked, Opening
  <2> QED
    BY <2>2, <2>3, <2>4, <2>5
<1>3. CASE Permit(t)
  <2>1. /\ t = "pid" => pc'["pid"] = ("gpioOn") /\ pc'["watchdog"] = pc["watchdog"]
        /\ t = "watchdog" => pc'["watchdog"] = ("gpioOn") /\ pc'["pid"] = pc["pid"]
    BY <1>3, Where DEF Permit
  <2>2. Asked'
    BY <1>3, <2>1 DEF Permit, Asked, Places, Opening
  <2>3. Halfway'
    BY <1>3, <2>1 DEF Permit, Halfway, Places, Apart, Opening
  <2>4. Apart'
    <3>1. t = "pid" /\ Diff(nowL["pid"], lastOn) >= MinOff
      BY <1>3 DEF Permit, OffTime, Places, Opening
    <3>2. Diff(nowL["pid"], lastOn) \in Int
      BY DiffType, TimingAssumption DEF TypeOK
    <3>3. ~Stopping
      BY <1>3, <3>1, <3>2, TimingAssumption, OrderAssumption DEF Permit, Apart, Halfway
    <3> QED
      BY <2>1, <3>1, <3>3 DEF Apart
  <2>5. Modulated'
    BY <1>3, <2>1 DEF Permit, Modulated, Halfway, Places, Asked, Opening
  <2> QED
    BY <2>2, <2>3, <2>4, <2>5
<1>4. CASE GpioOn(t)
  <2>1. /\ t = "pid" => pc'["pid"] = ("setOn") /\ pc'["watchdog"] = pc["watchdog"]
        /\ t = "watchdog" => pc'["watchdog"] = ("setOn") /\ pc'["pid"] = pc["pid"]
    BY <1>4, Where DEF GpioOn
  <2>2. Asked'
    BY <1>4, <2>1 DEF GpioOn, Asked, Places, Opening
  <2>3. Halfway'
    BY <1>4, <2>1 DEF GpioOn, Halfway, Places, Apart, Opening
  <2>4. Apart'
    BY <1>4, <2>1 DEF GpioOn, Apart, Halfway, Places, Opening
  <2>5. Modulated'
    BY <1>4, <2>1 DEF GpioOn, Modulated, Halfway, Places, Asked, Opening
  <2> QED
    BY <2>2, <2>3, <2>4, <2>5
<1>5. CASE SetOn(t)
  <2>1. /\ t = "pid" => pc'["pid"] = ("drive") /\ pc'["watchdog"] = pc["watchdog"]
        /\ t = "watchdog" => pc'["watchdog"] = ("drive") /\ pc'["pid"] = pc["pid"]
    BY <1>5, Where DEF SetOn
  <2>2. Asked'
    BY <1>5, <2>1 DEF SetOn, Asked, Places, Opening
  <2>3. Halfway'
    BY <1>5, <2>1 DEF SetOn, Halfway, Places, Apart, Opening
  <2>4. Apart'
    BY <1>5, <2>1 DEF SetOn, Apart, Halfway, Places, Opening
  <2>5. Modulated'
    BY <1>5, <2>1 DEF SetOn, Modulated, Halfway, Places, Asked, Opening
  <2> QED
    BY <2>2, <2>3, <2>4, <2>5
<1>6. CASE CheckOff(t)
  <2>1. /\ t = "pid" => pc'["pid"] = (IF on THEN "gpioOff" ELSE "idle") /\ pc'["watchdog"] = pc["watchdog"]
        /\ t = "watchdog" => pc'["watchdog"] = (IF on THEN "gpioOff" ELSE "idle") /\ pc'["pid"] = pc["pid"]
    BY <1>6, Where DEF CheckOff
  <2>2. Asked'
    BY <1>6, <2>1 DEF CheckOff, Asked, Places, Opening
  <2>3. Halfway'
    BY <1>6, <2>1 DEF CheckOff, Halfway, Places, Apart, Opening
  <2>4. Apart'
    BY <1>6, <2>1 DEF CheckOff, Apart, Halfway, Places, Opening
  <2>5. Modulated'
    BY <1>6, <2>1 DEF CheckOff, Modulated, Halfway, Places, Asked, Opening
  <2> QED
    BY <2>2, <2>3, <2>4, <2>5
<1>7. CASE GpioOff(t)
  <2>1. /\ t = "pid" => pc'["pid"] = ("clearOn") /\ pc'["watchdog"] = pc["watchdog"]
        /\ t = "watchdog" => pc'["watchdog"] = ("clearOn") /\ pc'["pid"] = pc["pid"]
    BY <1>7, Where DEF GpioOff
  <2>2. Asked'
    BY <1>7, <2>1 DEF GpioOff, Asked, Places, Opening
  <2>3. Halfway'
    BY <1>7, <2>1 DEF GpioOff, Halfway, Places, Apart, Opening
  <2>4. Apart'
    BY <1>7, <2>1 DEF GpioOff, Apart, Halfway, Places, Opening
  <2>5. Modulated'
    BY <1>7, <2>1 DEF GpioOff, Modulated, Halfway, Places, Asked, Opening
  <2> QED
    BY <2>2, <2>3, <2>4, <2>5
<1>8. CASE ClearOn(t)
  <2>1. /\ t = "pid" => pc'["pid"] = ("save") /\ pc'["watchdog"] = pc["watchdog"]
        /\ t = "watchdog" => pc'["watchdog"] = ("save") /\ pc'["pid"] = pc["pid"]
    BY <1>8, Where DEF ClearOn
  <2>2. Asked'
    BY <1>8, <2>1 DEF ClearOn, Asked, Places, Opening
  <2>3. Halfway'
    BY <1>8, <2>1 DEF ClearOn, Halfway, Places, Apart, Opening
  <2>4. Apart'
    BY <1>8, <2>1 DEF ClearOn, Apart, Halfway, Places, Opening
  <2>5. Modulated'
    BY <1>8, <2>1 DEF ClearOn, Modulated, Halfway, Places, Asked, Opening
  <2> QED
    BY <2>2, <2>3, <2>4, <2>5
<1>9. CASE Save(t)
  <2>1. /\ t = "pid" => pc'["pid"] = ("idle") /\ pc'["watchdog"] = pc["watchdog"]
        /\ t = "watchdog" => pc'["watchdog"] = ("idle") /\ pc'["pid"] = pc["pid"]
    BY <1>9, Where DEF Save
  <2>2. Asked'
    BY <1>9, <2>1 DEF Save, Asked, Places, Opening
  <2>3. Halfway'
    BY <1>9, <2>1 DEF Save, Halfway, Places, Apart, Opening
  <2>4. Apart'
    <3>1. CASE t = "pid"
      <4>1. Diff(now, nowL["pid"]) <= MaxLag
        BY <1>9, <3>1 DEF Save, Guarding, Fresh
      <4>2. Diff(now, nowL["pid"]) \in Int /\ Diff(now, nowL["watchdog"]) \in Nat
        BY DiffType, TimingAssumption DEF TypeOK
      <4>3. lastOn' = nowL["pid"] /\ UNCHANGED <<on, now, nowL>>
        BY <1>9, <3>1 DEF Save
      <4> QED
        BY <2>1, <3>1, <4>1, <4>2, <4>3, TimingAssumption DEF Apart
    <3>2. CASE t = "watchdog"
      BY <1>9, <2>1, <3>2 DEF Save, Apart
    <3> QED
      BY <3>1, <3>2
  <2>5. Modulated'
    BY <1>9, <2>1 DEF Save, Modulated, Halfway, Places, Asked, Opening
  <2> QED
    BY <2>2, <2>3, <2>4, <2>5
<1>10. CASE Refuse(t)
  <2>1. /\ t = "pid" => pc'["pid"] \in {"receive", "delay"} /\ pc'["watchdog"] = pc["watchdog"]
        /\ t = "watchdog" => pc'["watchdog"] = "stop" /\ pc'["pid"] = pc["pid"]
                              /\ call'["pid"] = call["pid"]
    BY <1>10, ReturnMoves DEF Refuse
  <2>2. Asked'
    BY <1>10, <2>1 DEF Refuse, Asked, Places, Opening
  <2>3. Halfway'
    BY <1>10, <2>1 DEF Refuse, Halfway, Places, Apart, Opening
  <2>4. Apart'
    BY <1>10, <2>1, ReturnMoves DEF Refuse, Apart, Halfway, Places, Opening
  <2>5. Modulated'
    BY <1>10, <2>1 DEF Refuse, Modulated, TypeOK
  <2> QED
    BY <2>2, <2>3, <2>4, <2>5
<1>11. CASE Drive(t)
  <2>1. /\ t = "pid" => pc'["pid"] \in {"receive", "delay"} /\ pc'["watchdog"] = pc["watchdog"]
        /\ t = "watchdog" => pc'["watchdog"] = "stop" /\ pc'["pid"] = pc["pid"]
                              /\ call'["pid"] = call["pid"]
    BY <1>11, ReturnMoves DEF Drive
  <2>2. Asked'
    BY <1>11, <2>1 DEF Drive, Asked, Places, Opening
  <2>3. Halfway'
    BY <1>11, <2>1 DEF Drive, Halfway, Places, Apart, Opening
  <2>4. Apart'
    BY <1>11, <2>1, ReturnMoves DEF Drive, Apart, Halfway, Places, Opening
  <2>5. Modulated'
    BY <1>11, <2>1 DEF Drive, Modulated, Halfway, Places, Asked, Opening
  <2> QED
    BY <2>2, <2>3, <2>4, <2>5
<1>12. CASE Idle(t)
  <2>1. /\ t = "pid" => pc'["pid"] \in {"receive", "delay"} /\ pc'["watchdog"] = pc["watchdog"]
        /\ t = "watchdog" => pc'["watchdog"] = "stop" /\ pc'["pid"] = pc["pid"]
                              /\ call'["pid"] = call["pid"]
    BY <1>12, ReturnMoves DEF Idle
  <2>2. Asked'
    BY <1>12, <2>1 DEF Idle, Asked, Places, Opening
  <2>3. Halfway'
    BY <1>12, <2>1 DEF Idle, Halfway, Places, Apart, Opening
  <2>4. Apart'
    BY <1>12, <2>1, ReturnMoves DEF Idle, Apart, Halfway, Places, Opening
  <2>5. Modulated'
    BY <1>12, <2>1 DEF Idle, Modulated, TypeOK
  <2> QED
    BY <2>2, <2>3, <2>4, <2>5
<1> QED
  BY <1>1, <1>2, <1>3, <1>4, <1>5, <1>6, <1>7, <1>8, <1>9, <1>10, <1>11, <1>12 DEF ApplyStep

\* A step outside a call that starts at most one keeps what is said of calls.
LEMMA AgreeingAside ==
  ASSUME TypeOK, Agreeing, UNCHANGED <<actuators, now, nowL>>,
         \/ pc'["pid"] = pc["pid"] /\ call'["pid"] = call["pid"]
         \/ /\ pc["pid"] \notin Timed /\ pc'["pid"] \notin Timed
            /\ pc'["pid"] = "clock" /\ call'["pid"].cool => call'["pid"].fan = "command",
         \/ pc'["watchdog"] = pc["watchdog"]
         \/ pc["watchdog"] \in {"boot", "sleep"} /\ pc'["watchdog"] = "sleep"
         \/ pc["watchdog"] \notin Timed /\ pc'["watchdog"] \in {"mark", "clock"}
  PROVE  Agreeing'
<1> USE DEF Agreeing, Task, actuators, Timed, Apply
<1>1. Asked'
  BY DEF Asked, Starting
<1>2. Halfway'
  BY DEF Halfway
<1>3. Apart'
  BY DEF Apart, Stopping
<1>4. Modulated'
  BY DEF Modulated
<1> QED
  BY <1>1, <1>2, <1>3, <1>4

LEMMA AgreeingTick ==
  ASSUME TypeOK, Guarding, Agreeing, Tick
  PROVE  Agreeing'
<1> USE DEF Agreeing
<1>1. UNCHANGED <<relay, duty, fan, on, lastOn, pc, call, nowL>> /\ now' = Advance(now)
  BY DEF Tick, actuators
<1>2. Asked' /\ Halfway' /\ Modulated'
  BY <1>1 DEF Asked, Halfway, Modulated
<1>3. Apart'
  <2> SUFFICES ASSUME Stopping, ~on, pc["pid"] # "save"
               PROVE  Diff(now', lastOn) <= MaxLag + Diff(now', nowL["watchdog"])
    BY <1>1 DEF Apart, Stopping
  <2>1. Diff(now, lastOn) <= MaxLag + Diff(now, nowL["watchdog"])
    BY DEF Apart
  <2>2. Diff(now, nowL["watchdog"]) < MaxLag
    BY DEF Tick, Stopping, Timed, Task
  <2>3. Diff(now, lastOn) \in 0..(Wrap - 1) /\ Diff(now, nowL["watchdog"]) \in 0..(Wrap - 1)
    BY DiffType DEF TypeOK, Task
  <2>4. /\ Diff(Advance(now), lastOn) = Diff(now, lastOn) + 1
        /\ Diff(Advance(now), nowL["watchdog"]) = Diff(now, nowL["watchdog"]) + 1
    BY <2>1, <2>2, <2>3, DiffAdvance, TimingAssumption, OrderAssumption DEF TypeOK, Task
  <2> QED
    BY <1>1, <2>1, <2>3, <2>4, TimingAssumption
<1> QED
  BY <1>2, <1>3

LEMMA AgreeingRestart == ASSUME Restart PROVE Agreeing'
<1>1. /\ pc'["pid"] = "receive" /\ pc'["watchdog"] = "boot"
      /\ relay' = FALSE /\ duty' = FALSE /\ on' = FALSE
  BY DEF Restart, Booted, Task
<1> QED
  BY <1>1 DEF Agreeing, Asked, Halfway, Apart, Stopping, Modulated, Starting, Apply, Timed, Task

LEMMA AgreeingOther ==
  ASSUME TypeOK, Guarding, Agreeing, [Next]_vars, ~ApplyStep("pid"), ~ApplyStep("watchdog")
  PROVE  Agreeing'
<1> USE DEF actuators, control, clocks, Timed
<1>1. CASE PidReceive
  <2>1. /\ pc["pid"] \notin Timed /\ pc'["pid"] = "gate" /\ pc'["watchdog"] = pc["watchdog"]
        /\ UNCHANGED <<actuators, now, nowL>>
    BY <1>1 DEF PidReceive, Goto, TypeOK, Task
  <2> QED
    BY <2>1, AgreeingAside
<1>2. CASE PidTimeout
  <2>1. /\ pc["pid"] \notin Timed /\ pc'["pid"] = "gate" /\ pc'["watchdog"] = pc["watchdog"]
        /\ UNCHANGED <<actuators, now, nowL>>
    BY <1>2 DEF PidTimeout, Goto, TypeOK, Task
  <2> QED
    BY <2>1, AgreeingAside
<1>3. CASE PidWake
  <2>1. /\ pc["pid"] \notin Timed /\ pc'["pid"] = "receive" /\ pc'["watchdog"] = pc["watchdog"]
        /\ UNCHANGED <<actuators, now, nowL>>
    BY <1>3 DEF PidWake, Goto, TypeOK, Task
  <2> QED
    BY <2>1, AgreeingAside
<1>4. CASE GateStopped
  <2>1. /\ pc["pid"] \notin Timed /\ pc'["pid"] = "clock" /\ pc'["watchdog"] = pc["watchdog"]
        /\ UNCHANGED <<actuators, now, nowL>>
        /\ call'["pid"].cool => call'["pid"].fan = "command"
    BY <1>4 DEF GateStopped, PidCall, Call, Shutdown, Goto, TypeOK, Task
  <2> QED
    BY <2>1, AgreeingAside
<1>5. CASE GateOver
  <2>1. /\ pc["pid"] \notin Timed /\ pc'["pid"] = "clock" /\ pc'["watchdog"] = pc["watchdog"]
        /\ UNCHANGED <<actuators, now, nowL>>
        /\ call'["pid"].cool => call'["pid"].fan = "command"
    BY <1>5 DEF GateOver, PidCall, Call, Shutdown, Goto, TypeOK, Task
  <2> QED
    BY <2>1, AgreeingAside
<1>6. CASE GateControl
  <2>1. /\ pc["pid"] \notin Timed /\ pc'["pid"] = "clock" /\ pc'["watchdog"] = pc["watchdog"]
        /\ UNCHANGED <<actuators, now, nowL>>
        /\ call'["pid"].cool => call'["pid"].fan = "command"
    BY <1>6 DEF GateControl, PidCall, Call, Shutdown, Goto, TypeOK, Task
  <2> QED
    BY <2>1, AgreeingAside
<1>7. CASE WatchdogFeed
  <2>1. /\ pc["watchdog"] \in {"boot", "sleep", "mark"} /\ pc'["watchdog"] = "sleep"
        /\ pc["watchdog"] = "mark" => pc'["watchdog"] # "sleep"
        /\ pc'["pid"] = pc["pid"] /\ call'["pid"] = call["pid"]
        /\ UNCHANGED <<actuators, now, nowL>>
    BY <1>7 DEF WatchdogFeed, WatchdogReady, Goto, TypeOK, Task
  <2> QED
    BY <2>1, AgreeingAside
<1>8. CASE WatchdogStop
  <2>1. /\ pc["watchdog"] \in {"boot", "sleep", "mark"} /\ pc'["watchdog"] = "mark"
        /\ pc["watchdog"] = "mark" => pc'["watchdog"] # "sleep"
        /\ pc'["pid"] = pc["pid"] /\ call'["pid"] = call["pid"]
        /\ UNCHANGED <<actuators, now, nowL>>
    BY <1>8 DEF WatchdogStop, WatchdogReady, Goto, TypeOK, Task
  <2> QED
    BY <2>1, AgreeingAside
<1>9. CASE WatchdogMark
  <2>1. /\ pc["watchdog"] \in {"boot", "sleep", "mark"} /\ pc'["watchdog"] = "clock"
        /\ pc["watchdog"] = "mark" => pc'["watchdog"] # "sleep"
        /\ pc'["pid"] = pc["pid"] /\ call'["pid"] = call["pid"]
        /\ UNCHANGED <<actuators, now, nowL>>
    BY <1>9 DEF WatchdogMark, WatchdogReady, Goto, TypeOK, Task
  <2> QED
    BY <2>1, AgreeingAside
<1>10. CASE SensorPost \/ Connected \/ Command \/ UNCHANGED vars
  <2>1. UNCHANGED <<actuators, pc, call, now, nowL>>
    BY <1>10 DEF SensorPost, Connected, Command, vars
  <2> QED
    BY <2>1, AgreeingAside
<1> QED
  BY <1>1, <1>2, <1>3, <1>4, <1>5, <1>6, <1>7, <1>8, <1>9, <1>10, AgreeingTick, AgreeingRestart
     DEF Next, PidStep, PidLoop, WatchdogStep

\* The inductive invariant of the flag and the relay.
THEOREM AgreementInvariant == Spec => [](TypeOK /\ Places /\ Guarding /\ Agreeing)
<1>1. TypeOK /\ Places /\ Guarding /\ Agreeing /\ [Next]_vars => Agreeing'
  BY AgreeingApply, AgreeingOther DEF Task
<1> QED
  BY <1>1, InitAgreeing, GuardInvariant, PTL DEF Spec

\* The flag that every decision is based on agrees with the relay whenever no call of
\* apply_control_output is under way, although two tasks on two cores write both without a
\* lock, for every lag that the off-time guard outlasts twice (lines 278-301).
THEOREM FlagIsRelay == Spec => []FlagAgrees
<1>1. TypeOK /\ Agreeing => FlagAgrees
  BY DEF Agreeing, Halfway, FlagAgrees, Apply, Timed, TypeOK, Task
<1> QED
  BY <1>1, AgreementInvariant, PTL

\* What a call that the other task's did not overlap leaves behind it, and where it has opened
\* the relay; mixed says that calls overlapped, and they do so once until the unit is reset.
Cooled ==
  /\ pc["watchdog"] \in {"boot", "sleep", "mark"} => ~mixed
  /\ ~mixed =>
       /\ pc["pid"] \notin Apply => (relay => duty /\ fan = "command")
       /\ pc["pid"] \notin Apply \/ pc["watchdog"] \notin Apply
       /\ pc["pid"] \in {"guard", "gpioOn", "clearOn", "save", "idle"} => ~relay
       /\ pc["watchdog"] \in {"clearOn", "save", "idle"} => ~relay

LEMMA InitCooled == Init => Cooled
<1> SUFFICES ASSUME Init PROVE Cooled
  OBVIOUS
<1>1. pc["pid"] = "receive" /\ pc["watchdog"] = "boot"
  BY DEF Init, Task
<1> QED
  BY <1>1 DEF Init, Cooled, Apply, Timed

LEMMA CooledApply ==
  ASSUME TypeOK, Places, Agreeing, Cooled, NEW t \in Task, ApplyStep(t)
  PROVE  Cooled'
<1> USE DEF Task, Timed, Apply
<1>1. CASE ReadClock(t)
  <2>1. /\ t = "pid" => pc'["pid"] = (IF call[t].cool THEN "checkOn" ELSE "checkOff") /\ pc'["watchdog"] = pc["watchdog"]
        /\ t = "watchdog" => pc'["watchdog"] = (IF call[t].cool THEN "checkOn" ELSE "checkOff") /\ pc'["pid"] = pc["pid"]
    BY <1>1, Where DEF ReadClock
  <2> QED
    BY <1>1, <2>1 DEF ReadClock, Cooled, Agreeing, Halfway, Places, Opening, actuators
<1>2. CASE CheckOn(t)
  <2>1. /\ t = "pid" => pc'["pid"] = (IF on THEN "drive" ELSE "guard") /\ pc'["watchdog"] = pc["watchdog"]
        /\ t = "watchdog" => pc'["watchdog"] = (IF on THEN "drive" ELSE "guard") /\ pc'["pid"] = pc["pid"]
    BY <1>2, Where DEF CheckOn
  <2> QED
    BY <1>2, <2>1 DEF CheckOn, Cooled, Agreeing, Halfway, Places, Opening, actuators
<1>3. CASE Permit(t)
  <2>1. /\ t = "pid" => pc'["pid"] = "gpioOn" /\ pc'["watchdog"] = pc["watchdog"]
        /\ t = "watchdog" => pc'["watchdog"] = "gpioOn" /\ pc'["pid"] = pc["pid"]
    BY <1>3, Where DEF Permit
  <2> QED
    BY <1>3, <2>1 DEF Permit, Cooled, Agreeing, Halfway, Places, Opening, actuators
<1>4. CASE GpioOn(t)
  <2>1. /\ t = "pid" => pc'["pid"] = "setOn" /\ pc'["watchdog"] = pc["watchdog"]
        /\ t = "watchdog" => pc'["watchdog"] = "setOn" /\ pc'["pid"] = pc["pid"]
    BY <1>4, Where DEF GpioOn
  <2> QED
    BY <1>4, <2>1 DEF GpioOn, Cooled, Agreeing, Halfway, Places, Opening, actuators
<1>5. CASE SetOn(t)
  <2>1. /\ t = "pid" => pc'["pid"] = "drive" /\ pc'["watchdog"] = pc["watchdog"]
        /\ t = "watchdog" => pc'["watchdog"] = "drive" /\ pc'["pid"] = pc["pid"]
    BY <1>5, Where DEF SetOn
  <2> QED
    BY <1>5, <2>1 DEF SetOn, Cooled, Agreeing, Halfway, Places, Opening, actuators
<1>6. CASE CheckOff(t)
  <2>1. /\ t = "pid" => pc'["pid"] = (IF on THEN "gpioOff" ELSE "idle") /\ pc'["watchdog"] = pc["watchdog"]
        /\ t = "watchdog" => pc'["watchdog"] = (IF on THEN "gpioOff" ELSE "idle") /\ pc'["pid"] = pc["pid"]
    BY <1>6, Where DEF CheckOff
  <2> QED
    BY <1>6, <2>1 DEF CheckOff, Cooled, Agreeing, Halfway, Places, Opening, actuators
<1>7. CASE GpioOff(t)
  <2>1. /\ t = "pid" => pc'["pid"] = "clearOn" /\ pc'["watchdog"] = pc["watchdog"]
        /\ t = "watchdog" => pc'["watchdog"] = "clearOn" /\ pc'["pid"] = pc["pid"]
    BY <1>7, Where DEF GpioOff
  <2> QED
    BY <1>7, <2>1 DEF GpioOff, Cooled, Agreeing, Halfway, Places, Opening, actuators
<1>8. CASE ClearOn(t)
  <2>1. /\ t = "pid" => pc'["pid"] = "save" /\ pc'["watchdog"] = pc["watchdog"]
        /\ t = "watchdog" => pc'["watchdog"] = "save" /\ pc'["pid"] = pc["pid"]
    BY <1>8, Where DEF ClearOn
  <2> QED
    BY <1>8, <2>1 DEF ClearOn, Cooled, Agreeing, Halfway, Places, Opening, actuators
<1>9. CASE Save(t)
  <2>1. /\ t = "pid" => pc'["pid"] = "idle" /\ pc'["watchdog"] = pc["watchdog"]
        /\ t = "watchdog" => pc'["watchdog"] = "idle" /\ pc'["pid"] = pc["pid"]
    BY <1>9, Where DEF Save
  <2> QED
    BY <1>9, <2>1 DEF Save, Cooled, Agreeing, Halfway, Places, Opening, actuators
<1>10. CASE Refuse(t)
  <2>1. /\ t = "pid" => pc'["pid"] \in {"receive", "delay"} /\ pc'["watchdog"] = pc["watchdog"]
        /\ t = "watchdog" => pc'["watchdog"] = "stop" /\ pc'["pid"] = pc["pid"]
        /\ mixed' = mixed
    BY <1>10, ReturnMoves DEF Refuse, Return
  <2> QED
    BY <1>10, <2>1 DEF Refuse, Cooled, Agreeing, Asked, Starting, Places, Opening, TypeOK
<1>11. CASE Drive(t)
  <2>1. /\ t = "pid" => pc'["pid"] \in {"receive", "delay"} /\ pc'["watchdog"] = pc["watchdog"]
        /\ t = "watchdog" => pc'["watchdog"] = "stop" /\ pc'["pid"] = pc["pid"]
        /\ mixed' = mixed
    BY <1>11, ReturnMoves DEF Drive, Return
  <2> QED
    BY <1>11, <2>1 DEF Drive, Cooled, Agreeing, Asked, Starting, Places, Opening, TypeOK
<1>12. CASE Idle(t)
  <2>1. /\ t = "pid" => pc'["pid"] \in {"receive", "delay"} /\ pc'["watchdog"] = pc["watchdog"]
        /\ t = "watchdog" => pc'["watchdog"] = "stop" /\ pc'["pid"] = pc["pid"]
        /\ mixed' = mixed
    BY <1>12, ReturnMoves DEF Idle, Return
  <2> QED
    BY <1>12, <2>1 DEF Idle, Cooled, Agreeing, Asked, Starting, Places, Opening, TypeOK
<1> QED
  BY <1>1, <1>2, <1>3, <1>4, <1>5, <1>6, <1>7, <1>8, <1>9, <1>10, <1>11, <1>12 DEF ApplyStep

LEMMA CooledOther ==
  ASSUME TypeOK, Places, Agreeing, Cooled, [Next]_vars, ~ApplyStep("pid"), ~ApplyStep("watchdog")
  PROVE  Cooled'
<1> USE DEF Task, Timed, Apply, actuators, control
<1>1. CASE PidReceive \/ PidTimeout \/ PidWake
  <2>1. /\ pc["pid"] \notin Apply /\ pc'["pid"] \notin Apply /\ pc'["watchdog"] = pc["watchdog"]
        /\ UNCHANGED <<relay, duty, fan, mixed>>
    BY <1>1, Where DEF PidReceive, PidTimeout, PidWake
  <2> QED
    BY <2>1 DEF Cooled
<1>2. CASE GateStopped \/ GateOver \/ GateControl
  <2>1. /\ pc["pid"] = "gate" /\ pc'["pid"] = "clock" /\ pc'["watchdog"] = pc["watchdog"]
        /\ mixed' = (pc["watchdog"] \in Apply) /\ UNCHANGED <<relay, duty, fan>>
    BY <1>2, Where DEF GateStopped, GateOver, GateControl, PidCall
  <2> QED
    BY <2>1 DEF Cooled
<1>3. CASE WatchdogFeed \/ WatchdogStop
  <2>1. /\ pc["watchdog"] \in {"boot", "sleep"} /\ pc'["watchdog"] \in {"sleep", "mark"}
        /\ pc'["pid"] = pc["pid"] /\ UNCHANGED <<relay, duty, fan, mixed>>
    BY <1>3, Where DEF WatchdogFeed, WatchdogStop, WatchdogReady
  <2> QED
    BY <2>1 DEF Cooled
<1>4. CASE WatchdogMark
  <2>1. /\ pc["watchdog"] = "mark" /\ pc'["watchdog"] = "clock" /\ pc'["pid"] = pc["pid"]
        /\ mixed' = (pc["pid"] \in Apply) /\ UNCHANGED <<relay, duty, fan>>
    BY <1>4, Where DEF WatchdogMark
  <2> QED
    BY <2>1 DEF Cooled
<1>5. CASE SensorPost \/ Connected \/ Command \/ Tick \/ UNCHANGED vars
  BY <1>5 DEF SensorPost, Connected, Command, Tick, vars, Cooled
<1>6. CASE Restart
  <2>1. /\ pc'["pid"] = "receive" /\ pc'["watchdog"] = "boot" /\ relay' = FALSE /\ mixed' = FALSE
    BY <1>6 DEF Restart, Booted
  <2> QED
    BY <2>1 DEF Cooled
<1> QED
  BY <1>1, <1>2, <1>3, <1>4, <1>5, <1>6 DEF Next, PidStep, PidLoop, WatchdogStep

\* Between calls a compressor whose relay is closed is driven and has the commanded fan speed,
\* whatever the two tasks do, but for the last PID call if it overlapped the watchdog task's
\* shutdown; until that shutdown it is driven only with its relay closed (lines 278-301, 489-516).
THEOREM CompressorIsCooled == Spec => []CompressorHasFan
<1>1. TypeOK /\ Places /\ Agreeing /\ Cooled /\ [Next]_vars => Cooled'
  BY CooledApply, CooledOther DEF Task
<1>2. Agreeing /\ Cooled => CompressorHasFan
  BY DEF Agreeing, Modulated, Cooled, CompressorHasFan, Apply, Task
<1> QED
  BY <1>1, <1>2, InitCooled, AgreementInvariant, PTL DEF Spec

-------------------------------------------------------------------------------
(* The age of the reading *)

\* Since the last reset there has been no reading: the relay is open and a start is refused,
\* as the unit does not stay up for the off-time.
Dark ==
  readAge = BlindMax =>
    /\ ~relay /\ ~on /\ lastOn = 0
    /\ \A t \in Task : /\ pc[t] \notin {"gpioOn", "setOn", "drive", "gpioOff", "clearOn", "save"}
                       /\ nowL[t] <= now
    /\ IF stopReq THEN now <= RecvTimeout + wdAge
                  ELSE pc["pid"] = "receive" /\ now = pidAge

\* How old the reading is by the place of the PID task, as long as it gets readings in time,
InTime ==
  /\ pc["pid"] \in {"gate", "clock"} => readAge = 0
  /\ pc["pid"] \in Timed => readAge <= Diff(now, nowL["pid"])
  /\ pc["pid"] = "delay" => readAge <= MaxLag + pidAge
  /\ pc["pid"] = "receive" => readAge <= MaxLag + PidPeriod + pidAge

\* and once a stop is requested, by how long the hardware watchdog has not been fed.
Sighted ==
  readAge # BlindMax =>
    IF stopReq THEN readAge <= MaxLag + PidPeriod + RecvTimeout + wdAge ELSE InTime

\* The PID task never blocks longer than it asks for.
Prompt ==
  /\ pc["pid"] \in Apply \cup {"gate"} => pidAge = 0
  /\ pc["pid"] = "delay" => pidAge <= PidPeriod
  /\ pc["pid"] = "receive" => pidAge <= RecvTimeout

Seeing == Dark /\ Sighted /\ Prompt


LEMMA BlindMaxType == BlindMax \in Nat /\ BlindMax = PidPeriod + RecvTimeout + HwWdt + MaxLag + 1
BY TimingAssumption DEF BlindMax

LEMMA InitSeeing == Init => Seeing
<1> SUFFICES ASSUME Init PROVE Seeing
  OBVIOUS
<1>1. pc["pid"] = "receive" /\ pc["watchdog"] = "boot"
  BY DEF Init, Task
<1> QED
  BY <1>1, TimingAssumption DEF Init, Seeing, Dark, Sighted, Prompt, Apply, Timed, Task

\* In the dark the guard refuses every start.
LEMMA DarkRefuses ==
  ASSUME TypeOK, Places, Seeing, readAge = BlindMax, NEW t \in Task, pc[t] \in Apply,
         t = "pid" \/ stopReq
  PROVE  stopReq /\ OffTime(t) < MinOff
<1>1. stopReq
  BY DEF Seeing, Dark, Apply, Timed
<1>2. now <= RecvTimeout + wdAge /\ wdAge <= HwWdt /\ nowL[t] <= now /\ lastOn = 0
  BY <1>1 DEF Seeing, Dark, TypeOK
<1>3. nowL[t] \in Nat /\ now \in Nat /\ wdAge \in Nat
  BY TimingAssumption DEF TypeOK
<1>4. OffTime(t) = nowL[t]
  BY <1>2, <1>3 DEF OffTime, Diff
<1> QED
  BY <1>1, <1>2, <1>3, <1>4, TimingAssumption, OrderAssumption

\* A step of apply_control_output takes no time and requests no stop.
LEMMA SeeingApply ==
  ASSUME TypeOK, Places, Guarding, Seeing, NEW t \in Task, ApplyStep(t)
  PROVE  Seeing'
<1> USE DEF Seeing, Task
<1>1. UNCHANGED <<stopReq, now, pidAge, wdAge, readAge>>
  BY DEF ApplyStep, ReadClock, CheckOn, Refuse, Permit, GpioOn, SetOn, Drive, CheckOff, GpioOff,
         ClearOn, Save, Idle, Return, control, clocks
<1>2. pc[t] \in Apply
  BY DEF ApplyStep, ReadClock, CheckOn, Refuse, Permit, GpioOn, SetOn, Drive, CheckOff, GpioOff,
         ClearOn, Save, Idle, Apply, Timed
<1>0. now \in 0..(Wrap - 1) /\ lastOn \in 0..(Wrap - 1) /\ \A u \in Task : nowL[u] \in 0..(Wrap - 1)
  BY DEF TypeOK
<1>3. \/ pc[t] = "clock" /\ pc'[t] \in Timed /\ nowL'[t] = now
      \/ pc[t] \in Timed /\ pc'[t] \in Timed /\ nowL'[t] = nowL[t]
      \/ t = "pid" /\ pc[t] \in Timed /\ pc'[t] \in {"receive", "delay"} /\ nowL'[t] = 0
      \/ t = "watchdog" /\ pc'[t] = "stop" /\ nowL'[t] = 0
  <2>1. CASE Refuse(t) \/ Drive(t) \/ Idle(t)
    <3>1. Return(t) /\ pc[t] \in Timed /\ nowL'[t] = 0
      BY <2>1 DEF Refuse, Drive, Idle, Return, Timed, TypeOK
    <3> QED
      BY <1>2, <3>1, ReturnMoves
  <2>2. CASE ReadClock(t)
    BY <2>2 DEF ReadClock, Goto, Timed, TypeOK
  <2>3. CASE CheckOn(t) \/ Permit(t) \/ GpioOn(t) \/ SetOn(t)
    BY <2>3 DEF CheckOn, Permit, GpioOn, SetOn, Goto, Timed, TypeOK
  <2>4. CASE CheckOff(t) \/ GpioOff(t) \/ ClearOn(t) \/ Save(t)
    BY <2>4 DEF CheckOff, GpioOff, ClearOn, Save, Goto, Timed, TypeOK
  <2> QED
    BY <2>1, <2>2, <2>3, <2>4 DEF ApplyStep
<1>4. \A u \in Task : u # t => pc'[u] = pc[u] /\ nowL'[u] = nowL[u]
  BY DEF ApplyStep, ReadClock, CheckOn, Refuse, Permit, GpioOn, SetOn, Drive, CheckOff, GpioOff,
         ClearOn, Save, Idle, Return, Goto, TypeOK
<1>5. Prompt'
  BY <1>1, <1>2, <1>3, <1>4, TimingAssumption DEF Prompt, Apply, Timed
<1>6. Sighted'
  <2> SUFFICES ASSUME readAge # BlindMax, ~stopReq PROVE InTime'
    BY <1>1 DEF Sighted
  <2>1. InTime /\ readAge \in Nat /\ pidAge \in Nat
    BY TimingAssumption DEF Sighted, TypeOK
  <2>2. CASE t = "watchdog"
    BY <1>1, <1>4, <2>1, <2>2 DEF InTime
  <2>3. CASE t = "pid" /\ pc'[t] \in Timed
    <3>1. Diff(now, now) = 0
      BY DEF Diff, TypeOK
    <3>2. (nowL'[t] = now /\ readAge = 0) \/ (nowL'[t] = nowL[t] /\ pc[t] \in Timed)
      BY <1>3, <2>1, <2>3 DEF InTime, Timed
    <3>3. pc["pid"] \in Timed => readAge <= Diff(now, nowL["pid"])
      BY <2>1 DEF InTime
    <3>4. readAge <= Diff(now, nowL'["pid"])
      BY <2>1, <2>3, <3>1, <3>2, <3>3
    <3>5. UNCHANGED <<now, readAge, pidAge>> /\ pc'["pid"] \in Timed
      BY <1>1, <2>3
    <3> QED
      BY <3>4, <3>5 DEF InTime, Timed
  <2>4. CASE t = "pid" /\ pc'[t] \notin Timed
    <3>1. readAge <= Diff(now, nowL["pid"]) /\ Diff(now, nowL["pid"]) <= MaxLag
      BY <1>3, <2>1, <2>4 DEF InTime, Guarding, Fresh
    <3>2. Diff(now, nowL["pid"]) \in Nat /\ pc'["pid"] \in {"receive", "delay"}
      BY <1>0, <1>3, <2>4, DiffType, TimingAssumption
    <3> QED
      BY <1>1, <2>1, <2>4, <3>1, <3>2, TimingAssumption DEF InTime, Timed
  <2> QED
    BY <2>2, <2>3, <2>4
<1>7. Dark'
  <2> SUFFICES ASSUME readAge = BlindMax PROVE Dark'
    BY <1>1 DEF Dark
  <2>1. /\ ~relay /\ ~on /\ lastOn = 0
        /\ \A u \in Task : /\ pc[u] \notin {"gpioOn", "setOn", "drive", "gpioOff", "clearOn", "save"}
                           /\ nowL[u] <= now
    BY DEF Dark
  <2>2. ~Permit(t)
    <3>1. t = "watchdog" => ~Permit(t)
      BY DEF Permit, Places, Opening
    <3>2. t = "pid" => OffTime(t) < MinOff
      BY <1>2, DarkRefuses
    <3>3. OffTime(t) \in Int
      <4>1. nowL[t] \in 0..(Wrap - 1)
        BY <1>0
      <4>2. OffTime(t) \in 0..(Wrap - 1)
        BY <1>0, <4>1, DiffType DEF OffTime
      <4> QED
        BY <4>2, TimingAssumption
    <3> QED
      BY <3>1, <3>2, <3>3, TimingAssumption DEF Permit
  <2>3. ReadClock(t) \/ CheckOn(t) \/ Refuse(t) \/ CheckOff(t) \/ Idle(t)
    BY <2>1, <2>2 DEF ApplyStep, GpioOn, SetOn, Drive, GpioOff, ClearOn, Save
  <2>4. UNCHANGED <<relay, on, lastOn>>
    BY <2>3 DEF ReadClock, CheckOn, Refuse, CheckOff, Idle, actuators
  <2>5. pc'[t] \in {"checkOn", "checkOff", "guard", "idle", "receive", "delay", "stop"}
    <3>1. CASE Refuse(t) \/ Idle(t)
      BY <1>2, <3>1, ReturnMoves DEF Refuse, Idle
    <3>2. CASE ReadClock(t) \/ CheckOn(t) \/ CheckOff(t)
      BY <2>1, <3>2 DEF ReadClock, CheckOn, CheckOff, Goto, TypeOK
    <3> QED
      BY <2>3, <3>1, <3>2
  <2>6. \A u \in Task : nowL'[u] <= now
    BY <1>3, <1>4, <2>1, TimingAssumption DEF TypeOK
  <2>7. ~stopReq => t = "watchdog"
    BY <1>2 DEF Dark, Apply, Timed
  <2> QED
    BY <1>1, <1>4, <2>1, <2>4, <2>5, <2>6, <2>7 DEF Dark
<1> QED
  BY <1>5, <1>6, <1>7

\* A step outside a call that changes neither the clocks nor the PID task.
LEMMA SeeingAside ==
  ASSUME TypeOK, Seeing, UNCHANGED <<relay, on, lastOn, stopReq, now, nowL, pidAge, readAge>>,
         pc'["pid"] = pc["pid"], pc'["watchdog"] \in {pc["watchdog"], "sleep", "mark", "clock"},
         wdAge' = wdAge \/ ~stopReq
  PROVE  Seeing'
<1>1. Dark'
  BY DEF Seeing, Dark, Task
<1>2. Sighted' /\ Prompt'
  BY DEF Seeing, Sighted, InTime, Prompt
<1> QED
  BY <1>1, <1>2 DEF Seeing

\* The loop of the PID task: a missing reading requests the stop in time.
LEMMA SeeingLoop ==
  ASSUME TypeOK, Seeing, PidLoop
  PROVE  Seeing'
<1> USE DEF Seeing
<1>1. /\ UNCHANGED <<relay, on, lastOn, now, nowL, wdAge>>
      /\ pc'["watchdog"] = pc["watchdog"] /\ pc["pid"] \in {"receive", "gate", "delay"}
      /\ pc'["pid"] \in {"gate", "clock", "receive"}
      /\ stopReq => stopReq'
  BY DEF PidLoop, PidReceive, PidTimeout, GateStopped, GateOver, GateControl, PidCall, PidWake,
         Goto, actuators, control, clocks, TypeOK, Task
<1>2. /\ now \in Nat /\ wdAge \in Nat /\ pidAge \in Nat /\ readAge \in Nat
      /\ BlindMax = PidPeriod + RecvTimeout + HwWdt + MaxLag + 1
  BY TimingAssumption, BlindMaxType DEF TypeOK
<1>3. CASE PidReceive
  <2>1. pc'["pid"] = "gate" /\ readAge' = 0 /\ pidAge' = 0
    BY <1>3 DEF PidReceive, Goto, TypeOK, Task
  <2>2. readAge' # BlindMax
    BY <1>2, <2>1, TimingAssumption
  <2> QED
    BY <1>1, <1>2, <2>1, <2>2, TimingAssumption DEF Dark, Sighted, InTime, Prompt, Apply, Timed
<1>4. CASE PidTimeout
  <2>1. /\ pc["pid"] = "receive" /\ pc'["pid"] = "gate" /\ readAge' = readAge /\ pidAge' = 0
        /\ stopReq' = TRUE
    BY <1>4 DEF PidTimeout, Goto, TypeOK, Task
  <2>2. pidAge <= RecvTimeout
    BY <2>1 DEF Prompt
  <2>3. Dark'
    BY <1>1, <1>2, <2>1, <2>2, TimingAssumption DEF Dark, Task
  <2>4. Sighted'
    BY <1>1, <1>2, <2>1, <2>2, TimingAssumption DEF Sighted, InTime
  <2>5. Prompt'
    BY <2>1 DEF Prompt
  <2> QED
    BY <2>3, <2>4, <2>5
<1>5. CASE GateStopped \/ GateOver \/ GateControl
  <2>1. /\ pc["pid"] = "gate" /\ pc'["pid"] = "clock" /\ readAge' = readAge /\ pidAge' = pidAge
    BY <1>5 DEF GateStopped, GateOver, GateControl, PidCall, Goto, clocks, TypeOK, Task
  <2>2. Dark'
    BY <1>1, <2>1 DEF Dark, Task
  <2>3. Sighted'
    BY <1>1, <1>2, <2>1, TimingAssumption DEF Sighted, InTime, Timed
  <2>4. Prompt'
    BY <2>1 DEF Prompt, Apply
  <2> QED
    BY <2>2, <2>3, <2>4
<1>6. CASE PidWake
  <2>1. /\ pc["pid"] = "delay" /\ pc'["pid"] = "receive" /\ readAge' = readAge /\ pidAge' = 0
        /\ stopReq' = stopReq
    BY <1>6 DEF PidWake, Goto, control, TypeOK, Task
  <2>2. pidAge <= PidPeriod
    BY <2>1 DEF Prompt
  <2>3. Dark'
    BY <1>1, <2>1 DEF Dark, Task
  <2>4. Sighted'
    BY <1>1, <1>2, <2>1, <2>2, TimingAssumption DEF Sighted, InTime, Timed
  <2>5. Prompt'
    BY <2>1, TimingAssumption DEF Prompt, Apply, Timed
  <2> QED
    BY <2>3, <2>4, <2>5
<1> QED
  BY <1>3, <1>4, <1>5, <1>6 DEF PidLoop

\* Time passes: every bound on the age of the reading grows with it, up to the reset.
LEMMA SeeingTick ==
  ASSUME TypeOK, Places, Guarding, Seeing, Tick
  PROVE  Seeing'
<1> USE DEF Seeing
<1>1. /\ UNCHANGED <<relay, on, lastOn, stopReq, pc, nowL>>
      /\ now' = Advance(now) /\ wdAge' = wdAge + 1 /\ wdAge < HwWdt
      /\ pidAge' = (IF pc["pid"] \in {"receive", "delay"} THEN pidAge + 1 ELSE pidAge)
      /\ readAge' = (IF readAge < BlindMax THEN readAge + 1 ELSE readAge)
      /\ pc["pid"] \notin {"gate", "clock"}
      /\ pc["pid"] = "receive" => pidAge < RecvTimeout
      /\ pc["pid"] = "delay" => pidAge < PidPeriod
      /\ pc["pid"] \in Timed => Diff(now, nowL["pid"]) < MaxLag
  BY TimingAssumption DEF Tick, PidUrgent, Bump, actuators, control, TypeOK, Task
<1>2. /\ now \in 0..(Wrap - 1) /\ wdAge \in Nat /\ pidAge \in Nat /\ readAge \in 0..BlindMax
      /\ BlindMax = PidPeriod + RecvTimeout + HwWdt + MaxLag + 1
      /\ \A t \in Task : nowL[t] \in 0..(Wrap - 1)
  BY TimingAssumption, BlindMaxType DEF TypeOK
<1>3. Prompt'
  BY <1>1, <1>2, TimingAssumption DEF Prompt, Apply, Timed
<1>4. pc["pid"] \in Timed => Diff(now', nowL["pid"]) = Diff(now, nowL["pid"]) + 1
  <2>1. "pid" \in Task
    BY DEF Task
  <2>2. Diff(now, nowL["pid"]) \in 0..(Wrap - 1)
    BY <1>2, <2>1, DiffType
  <2> QED
    BY <1>1, <1>2, <2>1, <2>2, DiffAdvance, TimingAssumption
<1>5. CASE readAge = BlindMax
  <2>1. readAge' = BlindMax
    BY <1>1, <1>2, <1>5, BlindMaxType
  <2>2. now <= RecvTimeout + HwWdt
    BY <1>1, <1>2, <1>5, TimingAssumption DEF Dark
  <2>3. now' = now + 1
    BY <1>1, <1>2, <2>2, AdvanceIs, TimingAssumption, OrderAssumption
  <2>4. IF stopReq' THEN now' <= RecvTimeout + wdAge' ELSE pc'["pid"] = "receive" /\ now' = pidAge'
    BY <1>1, <1>2, <1>5, <2>3, TimingAssumption DEF Dark
  <2>5. \A t \in Task : nowL'[t] <= now'
    BY <1>1, <1>2, <1>5, <2>3 DEF Dark
  <2>6. Dark'
    BY <1>1, <1>5, <2>4, <2>5 DEF Dark
  <2> QED
    BY <1>3, <2>1, <2>6 DEF Sighted, BlindMax
<1>6. CASE readAge # BlindMax
  <2>1. readAge' = readAge + 1
    BY <1>1, <1>2, <1>6, TimingAssumption
  <2>2. CASE stopReq
    <3>1. readAge <= MaxLag + PidPeriod + RecvTimeout + wdAge
      BY <1>6, <2>2 DEF Sighted
    <3>2. readAge' <= MaxLag + PidPeriod + RecvTimeout + wdAge' /\ readAge' # BlindMax
      BY <1>1, <1>2, <2>1, <3>1, TimingAssumption
    <3> QED
      BY <1>1, <1>3, <2>2, <3>2 DEF Dark, Sighted, BlindMax
  <2>3. CASE ~stopReq
    <3>1. InTime
      BY <1>6, <2>3 DEF Sighted
    <3>2. ASSUME pc["pid"] \in Timed PROVE InTime' /\ readAge' # BlindMax
      <4>1. nowL["pid"] \in 0..(Wrap - 1)
        BY <1>2 DEF Task
      <4>2. Diff(now, nowL["pid"]) \in 0..(Wrap - 1)
        BY <1>2, <4>1, DiffType
      <4>3. readAge <= Diff(now, nowL["pid"]) /\ Diff(now, nowL["pid"]) < MaxLag
        BY <1>1, <3>1, <3>2 DEF InTime
      <4>4. readAge' <= Diff(now', nowL["pid"]) /\ readAge' # BlindMax
        BY <1>2, <1>4, <2>1, <3>2, <4>2, <4>3, TimingAssumption
      <4> QED
        BY <1>1, <3>2, <4>4 DEF InTime, Timed
    <3>3. ASSUME pc["pid"] \notin Timed PROVE InTime' /\ readAge' # BlindMax
      <4>1. pc["pid"] \in {"delay", "receive"}
        BY <1>1, <3>3 DEF Places, Apply
      <4>2. pidAge' = pidAge + 1
        BY <1>1, <4>1
      <4> QED
        BY <1>1, <1>2, <2>1, <3>1, <3>3, <4>1, <4>2, TimingAssumption DEF InTime
    <3>4. InTime' /\ readAge' # BlindMax
      BY <3>2, <3>3
    <3> QED
      BY <1>1, <1>3, <2>3, <3>4 DEF Dark, Sighted, BlindMax
  <2> QED
    BY <2>2, <2>3
<1> QED
  BY <1>5, <1>6

LEMMA SeeingRestart == ASSUME Restart PROVE Seeing'
<1>1. /\ pc'["pid"] = "receive" /\ pc'["watchdog"] = "boot" /\ readAge' = BlindMax
      /\ relay' = FALSE /\ on' = FALSE /\ lastOn' = 0 /\ now' = 0 /\ pidAge' = 0
      /\ stopReq' = FALSE /\ nowL' = [t \in Task |-> 0]
  BY DEF Restart, Booted, Task
<1>2. Dark'
  BY <1>1, TimingAssumption DEF Dark, Task
<1> QED
  BY <1>1, <1>2, TimingAssumption DEF Seeing, Sighted, Prompt, Apply, Timed, BlindMax

LEMMA SeeingStep ==
  ASSUME TypeOK, Places, Guarding, Seeing, [Next]_vars
  PROVE  Seeing'
<1>1. CASE ApplyStep("pid") \/ ApplyStep("watchdog")
  BY <1>1, SeeingApply DEF Task
<1>2. CASE PidLoop
  BY <1>2, SeeingLoop
<1>3. CASE WatchdogFeed \/ WatchdogStop \/ WatchdogMark
  <2>1. /\ UNCHANGED <<relay, on, lastOn, stopReq, now, nowL, pidAge, readAge>>
        /\ pc'["pid"] = pc["pid"] /\ pc'["watchdog"] \in {"sleep", "mark", "clock"}
        /\ wdAge' = wdAge \/ ~stopReq
    BY <1>3 DEF WatchdogFeed, WatchdogStop, WatchdogMark, StopSeen, Goto, actuators, control, clocks,
           TypeOK, Task
  <2> QED
    BY <2>1, SeeingAside
<1>4. CASE SensorPost \/ Connected \/ Command \/ UNCHANGED vars
  <2>1. UNCHANGED <<relay, on, lastOn, stopReq, now, nowL, pidAge, readAge, wdAge, pc>>
    BY <1>4 DEF SensorPost, Connected, Command, vars, actuators, control, clocks
  <2> QED
    BY <2>1, SeeingAside
<1> QED
  BY <1>1, <1>2, <1>3, <1>4, SeeingTick, SeeingRestart DEF Next, PidStep, WatchdogStep

\* The compressor never runs on a reading older than a PID cycle, a receive timeout and a
\* hardware watchdog period together, and never before the first reading after a reset: the
\* stop that a missing reading requests is never withdrawn, so that the unit is shut down or
\* reset before the off-time that a start would need (lines 475, 481-516, 588-603).
THEOREM NeverBlind == Spec => []NotBlind
<1>1. TypeOK /\ Places /\ Guarding /\ Seeing /\ [Next]_vars => Seeing'
  BY SeeingStep
<1>2. TypeOK /\ Seeing => NotBlind
  BY BlindMaxType DEF TypeOK, Seeing, Dark, NotBlind
<1>3. Spec => []Seeing
  BY <1>1, InitSeeing, GuardInvariant, PTL DEF Spec
<1> QED
  BY <1>2, <1>3, GuardInvariant, PTL

===============================================================================
