--------------------------- MODULE GatewayControl ---------------------------
(***************************************************************************)
(* Who drives a unit behind the edge gateway (gateway.py).  The event loop *)
(* polls the units in turn, applies the local rules (rules.json) to each   *)
(* reading and the load balancer to all of them, and sleeps; the MQTT      *)
(* client's thread applies commands at the same time, through the same     *)
(* adapters, field by field.                                               *)
(*                                                                         *)
(* A temperature is cool (23.5 or less), normal, high (30 or more) or      *)
(* critical (38 or more), a load is low (less than 25), medium or over (90 *)
(* or more): nothing else about them is compared, save the loads of the    *)
(* units, where the idlest is any of the lowest class.  A setpoint is      *)
(* known by who wrote it.  What a poll cycle takes is counted as part of   *)
(* the sleep that follows it.                                              *)
(***************************************************************************)
EXTENDS Integers, Sequences, FiniteSets

CONSTANTS
  NumUnits,         \* enabled units, all behind Modbus, in the order of the configuration
  Cooldown,         \* cooldown_s of each rule
  BalanceCooldown,  \* COOLDOWN_S
  Threshold,        \* THRESHOLD_COUNT
  Interval          \* poll_interval_s

Rule == {"emergency", "high", "save"}

ASSUME GatewayAssumption ==
  /\ NumUnits \in Nat \ {0}
  /\ Cooldown \in [Rule -> Nat]
  /\ BalanceCooldown \in Nat /\ Threshold \in Nat /\ Interval \in Nat \ {0}

VARIABLES
  at,         \* where the event loop is
  current,    \* the unit being polled
  todo,       \* what the rules that fired have still to write to it
  sleep,      \* what is left of the sleep
  cool,       \* LocalRuleEngine._cooldowns: what is left, by unit and rule
  balanced,   \* LocalLoadBalancer._last_action: what is left of the cooldown
  latest,     \* _latest: the load of the last reading of each unit
  connected,  \* ModbusAdapter._connected
  job,        \* the command the client's thread is applying
  jobAt,      \* where in _on_command it is
  link,       \* external: the unit answers
  power,      \* external: the unit is switched on
  setBy,      \* external: who wrote the unit's setpoint last, a rule or a command
  temp,       \* external: the unit's temperature
  exposed,    \* history: ticks for which the unit was critical, answered and stayed on
  alone       \* history: the command met no other writer and no failing link

loopVars  == <<at, current, todo, sleep>>
stateVars == <<cool, balanced, latest>>
jobVars   == <<job, jobAt>>
vars == <<at, current, todo, sleep, cool, balanced, latest, connected, job, jobAt, link, power,
          setBy, temp, exposed, alone>>

-------------------------------------------------------------------------------
Unit   == 1..NumUnits
Temp   == {"cool", "normal", "high", "critical"}
Load   == {"low", "medium", "over"}
Action == {"off", "setpoint"}

\* What a command says of each field: the control service leaves out what is not set.  (The
\* device service would send it as null, but it refuses every command: see Registry.)
Commands ==
  [unit : Unit, target : {"absent", "given"}, status : {"absent", "ON", "OFF"}, was : BOOLEAN]

NoJob == [unit |-> 1, target |-> "absent", status |-> "absent", was |-> FALSE]

TypeOK ==
  /\ at \in {"poll", "apply", "balance", "sleep", "down"}
  /\ current \in Unit
  /\ todo \in Seq(Action)
  /\ sleep \in 0..Interval
  /\ cool \in [Unit -> [Rule -> Nat]]
  /\ \A u \in Unit : \A r \in Rule : cool[u][r] <= Cooldown[r]
  /\ balanced \in 0..BalanceCooldown
  /\ latest \in [Unit -> Load \cup {"none"}]
  /\ connected \in [Unit -> BOOLEAN]
  /\ job \in Commands
  /\ jobAt \in {"idle", "target", "status", "ack"}
  /\ link \in [Unit -> BOOLEAN]
  /\ power \in [Unit -> BOOLEAN]
  /\ setBy \in [Unit -> {"rule", "command"}]
  /\ temp \in [Unit -> Temp]
  /\ exposed \in [Unit -> Nat]
  /\ alone \in BOOLEAN

Init ==
  /\ at = "poll" /\ current = 1 /\ todo = <<>> /\ sleep = 0
  /\ cool = [u \in Unit |-> [r \in Rule |-> 0]] /\ balanced = 0
  /\ latest = [u \in Unit |-> "none"]
  /\ connected = [u \in Unit |-> FALSE]
  /\ job = NoJob /\ jobAt = "idle"
  /\ link \in [Unit -> BOOLEAN] /\ power \in [Unit -> BOOLEAN] /\ temp \in [Unit -> Temp]
  /\ setBy = [u \in Unit |-> "rule"]
  /\ exposed = [u \in Unit |-> 0] /\ alone = TRUE

-------------------------------------------------------------------------------
(* Writing to a unit *)

\* The write arrives.
Written(u) == link[u] /\ connected' = [connected EXCEPT ![u] = TRUE]

SwitchTo(u, on) ==
  Written(u) /\ power' = [power EXCEPT ![u] = on] /\ UNCHANGED setBy

SetpointBy(u, who) ==
  Written(u) /\ setBy' = [setBy EXCEPT ![u] = who] /\ UNCHANGED power

\* It is skipped, as no connection can be made, or answered by an error that is not looked at.
Missed(u) == ~link[u] /\ UNCHANGED <<connected, power, setBy>>

\* It raises, on a connection that was lost.
Raises(u) == ~link[u] /\ connected[u] /\ UNCHANGED <<connected, power, setBy>>

\* How long a unit may be exposed; the history does not count beyond it.
Limit == Cooldown["emergency"] + Interval

\* A unit is exposed while it is critical, answers and is switched on, and the gateway runs.
Watch(ticks) ==
  exposed' =
    [u \in Unit |->
       IF ~(power'[u] /\ link'[u] /\ temp'[u] = "critical" /\ at' # "down") THEN 0
       ELSE IF exposed[u] > Limit THEN exposed[u] ELSE exposed[u] + ticks]

-------------------------------------------------------------------------------
(* The event loop *)

\* Whether a rule's conditions hold.
Holds(r, t, l) ==
  CASE r = "emergency" -> t = "critical"
    [] r = "high"      -> t \in {"high", "critical"}
    [] r = "save"      -> l = "low" /\ t = "cool"

\* Its actions.
Actions(r) == IF r = "emergency" THEN <<"off", "setpoint">> ELSE <<"setpoint">>

\* The cooldown is over and the conditions hold.
Fires(u, r, t, l) == cool[u][r] = 0 /\ Holds(r, t, l)

\* A variant: the cooldown starts again although the rule was not applied.
RestsAnew(u, r, t, l) == IF Holds(r, t, l) THEN Cooldown[r] ELSE cool[u][r]

Rests(u, r, t, l) == IF Fires(u, r, t, l) THEN Cooldown[r] ELSE cool[u][r]

\* evaluate: the rules that fire start their cooldown, then write.
Poll ==
  /\ at = "poll" /\ link[current]
  /\ connected' = [connected EXCEPT ![current] = TRUE]
  /\ \E l \in Load :
       LET t == temp[current]
           from(r) == IF Fires(current, r, t, l) THEN Actions(r) ELSE <<>>
       IN  /\ latest' = [latest EXCEPT ![current] = l]
           /\ cool' = [cool EXCEPT ![current] = [r \in Rule |-> Rests(current, r, t, l)]]
           /\ todo' = from("emergency") \o from("high") \o from("save")
  /\ at' = "apply"
  /\ UNCHANGED <<current, sleep, balanced, job, jobAt, link, power, setBy, temp, alone>>

\* The next unit, after the last the load balancer.
Advance ==
  IF current < NumUnits THEN current' = current + 1 /\ at' = "poll"
                        ELSE current' = 1 /\ at' = "balance"

\* poll returns None; an exception also marks the connection as lost.
PollFails ==
  /\ at = "poll" /\ ~link[current]
  /\ \E c \in {connected[current], FALSE} : connected' = [connected EXCEPT ![current] = c]
  /\ Advance
  /\ UNCHANGED <<todo, sleep, cool, balanced, latest, job, jobAt, link, power, setBy, temp, alone>>

\* _apply, one action of a rule.
Apply ==
  /\ at = "apply" /\ todo # <<>>
  /\ \/ Head(todo) = "off" /\ SwitchTo(current, FALSE)
     \/ Head(todo) = "setpoint" /\ SetpointBy(current, "rule")
     \/ Missed(current)
  /\ todo' = Tail(todo)
  /\ alone' = (alone /\ job.unit # current)
  /\ UNCHANGED <<at, current, sleep, cool, balanced, latest, job, jobAt, link, temp>>

\* The rules are done; the telemetry is published.
Applied ==
  /\ at = "apply" /\ todo = <<>>
  /\ Advance
  /\ UNCHANGED <<todo, sleep, cool, balanced, latest, connected, job, jobAt, link, power, setBy,
                 temp, alone>>

Asleep == at' = "sleep" /\ sleep' = Interval

Overloaded == {u \in Unit : latest[u] = "over"}

\* min(readings): the classes are ordered.
Idlest ==
  {u \in Unit : /\ latest[u] # "none"
                /\ latest[u] = "medium" => \A v \in Unit : latest[v] # "low"
                /\ latest[u] = "over" => \A v \in Unit : latest[v] \in {"none", "over"}}

\* LocalLoadBalancer.evaluate switches the idlest unit on.
Balance ==
  /\ at = "balance" /\ balanced = 0 /\ Cardinality(Overloaded) >= Threshold
  /\ \E u \in Idlest :
       /\ SwitchTo(u, TRUE) \/ Missed(u)
       /\ alone' = (alone /\ job.unit # u)
  /\ balanced' = BalanceCooldown
  /\ Asleep
  /\ UNCHANGED <<current, todo, cool, latest, job, jobAt, link, temp>>

NoBalance ==
  /\ at = "balance" /\ (balanced > 0 \/ Cardinality(Overloaded) < Threshold)
  /\ Asleep
  /\ UNCHANGED <<current, todo, cool, balanced, latest, connected, job, jobAt, link, power, setBy,
                 temp, alone>>

\* A write of a rule or of the balancer raises: nothing catches it, the gateway ends.
LoopDies ==
  /\ \/ at = "apply" /\ todo # <<>> /\ Raises(current)
     \/ /\ at = "balance" /\ balanced = 0 /\ Cardinality(Overloaded) >= Threshold
        /\ \E u \in Idlest : Raises(u)
  /\ at' = "down"
  /\ UNCHANGED <<current, todo, sleep, cool, balanced, latest, job, jobAt, link, temp, alone>>

Wake ==
  /\ at = "sleep" /\ sleep = 0
  /\ at' = "poll"
  /\ UNCHANGED <<current, todo, sleep, cool, balanced, latest, connected, job, jobAt, link, power,
                 setBy, temp, alone>>

Loop == Poll \/ PollFails \/ Apply \/ Applied \/ Balance \/ NoBalance \/ LoopDies \/ Wake

-------------------------------------------------------------------------------
(* The client's thread: _on_command *)

Receive ==
  /\ jobAt = "idle" /\ at # "down"
  /\ \E c \in Commands : c.was = power[c.unit] /\ job' = c /\ alone' = link[c.unit]
  /\ jobAt' = "target"
  /\ UNCHANGED <<at, current, todo, sleep, cool, balanced, latest, connected, link, power, setBy, temp>>

\* write_setpoint(float(cmd["target_temp"])) if the field is there.
ApplyTarget ==
  /\ jobAt = "target"
  /\ IF job.target = "given" THEN SetpointBy(job.unit, "command") \/ Missed(job.unit)
                             ELSE UNCHANGED <<connected, power, setBy>>
  /\ jobAt' = "status"
  /\ UNCHANGED <<at, current, todo, sleep, cool, balanced, latest, job, link, temp, alone>>

\* A variant: one field of a command is applied.
ApplyStatusElse ==
  /\ jobAt = "status"
  /\ IF job.status # "absent" /\ job.target = "absent"
     THEN SwitchTo(job.unit, job.status = "ON") \/ Missed(job.unit)
     ELSE UNCHANGED <<connected, power, setBy>>
  /\ jobAt' = "ack"
  /\ UNCHANGED <<at, current, todo, sleep, cool, balanced, latest, job, link, temp, alone>>

\* write_on_off(cmd["status"] == "ON") if the field is there.
ApplyStatus ==
  /\ jobAt = "status"
  /\ IF job.status # "absent"
     THEN SwitchTo(job.unit, job.status = "ON") \/ Missed(job.unit)
     ELSE UNCHANGED <<connected, power, setBy>>
  /\ jobAt' = "ack"
  /\ UNCHANGED <<at, current, todo, sleep, cool, balanced, latest, job, link, temp, alone>>

JobEnds == job' = NoJob /\ jobAt' = "idle" /\ alone' = TRUE

\* The response "APPLIED" is published.
Ack ==
  /\ jobAt = "ack"
  /\ JobEnds
  /\ UNCHANGED <<at, current, todo, sleep, cool, balanced, latest, connected, link, power, setBy, temp>>

\* A write raises; _on_message catches it and there is no response.
Abandon ==
  /\ \/ jobAt = "target" /\ job.target = "given" /\ Raises(job.unit)
     \/ jobAt = "status" /\ job.status # "absent" /\ Raises(job.unit)
  /\ JobEnds
  /\ UNCHANGED <<at, current, todo, sleep, cool, balanced, latest, link, temp>>

Thread == ApplyTarget \/ ApplyStatus \/ Ack \/ Abandon

-------------------------------------------------------------------------------
(* The rest of the system *)

\* A unit stops answering or answers again; its temperature changes.
Link(u) ==
  /\ link' = [link EXCEPT ![u] = ~@]
  /\ alone' = (alone /\ job.unit # u)
  /\ UNCHANGED <<at, current, todo, sleep, cool, balanced, latest, connected, job, jobAt, power, setBy, temp>>

Warm(u) ==
  /\ \E t \in Temp \ {temp[u]} : temp' = [temp EXCEPT ![u] = t]
  /\ UNCHANGED <<at, current, todo, sleep, cool, balanced, latest, connected, job, jobAt, link,
                 power, setBy, alone>>

Crash ==
  /\ at # "down"
  /\ at' = "down"
  /\ UNCHANGED <<current, todo, sleep, cool, balanced, latest, connected, job, jobAt, link, power,
                 setBy, temp, alone>>

\* The container is started again; cooldowns and readings are gone, the command too.
Restart ==
  /\ at = "down"
  /\ at' = "poll" /\ current' = 1 /\ todo' = <<>> /\ sleep' = 0
  /\ cool' = [u \in Unit |-> [r \in Rule |-> 0]] /\ balanced' = 0
  /\ latest' = [u \in Unit |-> "none"]
  /\ connected' = [u \in Unit |-> FALSE]
  /\ JobEnds
  /\ UNCHANGED <<link, power, setBy, temp>>

Less(n) == IF n > 0 THEN n - 1 ELSE 0

Tick ==
  /\ at = "sleep" /\ sleep > 0
  /\ sleep' = sleep - 1
  /\ cool' = [u \in Unit |-> [r \in Rule |-> Less(cool[u][r])]]
  /\ balanced' = Less(balanced)
  /\ UNCHANGED <<at, current, todo, latest, connected, job, jobAt, link, power, setBy, temp, alone>>

Others == Receive \/ Crash \/ Restart \/ (\E u \in Unit : Link(u) \/ Warm(u))

Next ==
  \/ (Loop \/ Thread \/ Others) /\ Watch(0)
  \/ Tick /\ Watch(1)

\* The loop runs what is ready, calls to a unit return, time passes, and the container is
\* started again; nothing is assumed of the units, the commands or the connections.
Fairness ==
  /\ WF_vars(Loop /\ Watch(0)) /\ WF_vars(Thread /\ Watch(0))
  /\ WF_vars(Tick /\ Watch(1)) /\ WF_vars(Restart /\ Watch(0))

Spec     == Init /\ [][Next]_vars
FairSpec == Spec /\ Fairness

-------------------------------------------------------------------------------
(* Properties *)

\* The gateway leaves a critical unit that answers switched on for no longer than the cooldown
\* of the emergency rule and a poll cycle, although the balancer and commands switch units on
\* at any time, also the one the rule has just shut down, and although a cooldown starts when
\* the write is missed (lines 308-335, 372-383, 578-583).
BoundedExposure == \A u \in Unit : exposed[u] <= Limit

\* A command that met neither another writer nor a failing link is acknowledged when all of it
\* was applied and nothing else: the setpoint is its own, the power what it says or what it
\* was (lines 570-592).
AppliedWhole ==
  [][Ack /\ alone =>
       /\ job.target = "given" => setBy[job.unit] = "command"
       /\ power[job.unit] = IF job.status = "absent" THEN job.was ELSE job.status = "ON"]_vars

\* A unit that stays critical and answers is found switched off again and again, whoever
\* switches it on, unless the gateway crashes again and again (lines 333-335, 519-554).
ShutdownRecurs ==
  \A u \in Unit :
    <>[](temp[u] = "critical" /\ link[u] /\ at # "down") => []<>(~power[u])

===============================================================================
