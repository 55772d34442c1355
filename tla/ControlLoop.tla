----------------------------- MODULE ControlLoop -----------------------------
(***************************************************************************)
(* The control service (main (2).py): every CONTROL_LOOP_INTERVAL_S        *)
(* seconds the control loop reads the twins from Redis, evaluates the      *)
(* rules for each unit, and dispatches their commands under a rate limit   *)
(* of one command per unit and CMD_RATE_LIMIT_S, kept as a Redis key.  The *)
(* service "can be horizontally scaled": several replicas share Redis, and *)
(* each keeps the cooldowns of its rules in memory.  Every await is a      *)
(* point where the others run, where time passes and where the call may    *)
(* fail; any exception ends the cycle, and the loop sleeps again.          *)
(*                                                                         *)
(* A twin is the class of its fields that the rules tell apart.  The last  *)
(* part of a cycle, LoadBalancer.evaluate_zone, sends nothing: the twins'  *)
(* load is the string that Redis returns, and comparing it with a number   *)
(* raises; so the model ends the cycle there.  Left out are manual         *)
(* commands, which set no key, the rule that only raises an alert, and     *)
(* energy-saving-auto-fan, which never fires together with the others.     *)
(***************************************************************************)
EXTENDS Integers, FiniteSets

CONSTANTS
  Replicas,          \* instances of the service
  Units,
  RateTtl,           \* CMD_RATE_LIMIT_S
  Interval,          \* CONTROL_LOOP_INTERVAL_S
  ShutdownCooldown,  \* cooldown_s of overheat-shutdown
  FanCooldown,       \* cooldown_s of high-temp-max-fan
  Classes,           \* the classes of twin that appear
  Edited,            \* rules that operators add and delete
  MaxFailures        \* bound: failing calls and restarts

None == "none"

ASSUME ControlAssumption ==
  /\ RateTtl \in Nat \ {0} /\ Interval \in Nat /\ RateTtl <= Interval
  /\ ShutdownCooldown \in Nat /\ FanCooldown \in Nat
  /\ Classes \subseteq {"offline", "normal", "high", "critical"}
  /\ Edited \subseteq 0..3
  /\ MaxFailures \in Nat
  /\ None \notin Replicas /\ None \notin Units

VARIABLES
  step,      \* where the control loop of each replica is
  timer,     \* what is left of its sleep
  listed,    \* keys it has listed and not read yet
  seen,      \* twins it has read and not evaluated yet
  unit,      \* the unit it is sending commands to
  todo,      \* the commands it has still to dispatch to that unit
  cool,      \* what is left of the cooldown of each rule for each unit
  rules,     \* the rules; all replicas are given the same
  twin,      \* Redis: the twins
  rate,      \* Redis: what is left of each rate key, 0 if there is none
  failures,  \* calls that failed and restarts, so far
  rateBy,    \* history: the replica that set the rate key last
  sentBy,    \* history: the replica that published to the unit last
  sentAge    \* history: ticks since then, up to RateTtl

loop    == <<step, timer, listed, seen, unit, todo>>
sending == <<sentBy, sentAge>>
vars    == <<loop, cool, rules, twin, rate, failures, rateBy, sending>>

-------------------------------------------------------------------------------
\* The rules, numbered by priority.  A text rule compares a field that is no number,
\* which raises; operators can add one before or after the shutdown.
TextFirst == 0
Shutdown  == 1
Text      == 2
MaxFan    == 3
Setpoint  == 4   \* not a rule: the optimizer's command, dispatched after the rules'

Rule == TextFirst..MaxFan

Raises   == {TextFirst, Text}
Cooldown == [k \in Rule |-> IF k = Shutdown THEN ShutdownCooldown
                            ELSE IF k = MaxFan THEN FanCooldown ELSE 0]
Holds(k, class) == \/ k = Shutdown /\ class = "critical"
                   \/ k = MaxFan /\ class \in {"high", "critical"}

Step == {"sleep", "fetch", "units", "exists", "publish", "rate", "ack"}

TypeOK ==
  /\ step \in [Replicas -> Step] /\ timer \in [Replicas -> 0..Interval]
  /\ listed \in [Replicas -> SUBSET Units]
  /\ seen \in [Replicas -> [Units -> Classes \cup {None}]]
  /\ unit \in [Replicas -> Units \cup {None}]
  /\ todo \in [Replicas -> SUBSET {Shutdown, MaxFan, Setpoint}]
  /\ \A r \in Replicas :
       step[r] \in {"exists", "publish", "rate", "ack"} => unit[r] \in Units /\ todo[r] # {}
  /\ cool \in [Replicas -> [Units -> [Rule -> Nat]]]
  /\ rules \subseteq Rule
  /\ twin \in [Units -> Classes \cup {None}]
  /\ rate \in [Units -> 0..RateTtl]
  /\ failures \in 0..MaxFailures
  /\ rateBy \in [Units -> Replicas \cup {None}]
  /\ sentBy \in [Units -> Replicas \cup {None}] /\ sentAge \in [Units -> 0..RateTtl]

Init ==
  /\ step = [r \in Replicas |-> "sleep"] /\ timer = [r \in Replicas |-> Interval]
  /\ listed = [r \in Replicas |-> {}]
  /\ seen = [r \in Replicas |-> [u \in Units |-> None]]
  /\ unit = [r \in Replicas |-> None] /\ todo = [r \in Replicas |-> {}]
  /\ cool = [r \in Replicas |-> [u \in Units |-> [k \in Rule |-> 0]]]
  /\ rules = Rule \ Raises
  /\ twin = [u \in Units |-> None] /\ rate = [u \in Units |-> 0]
  /\ failures = 0
  /\ rateBy = [u \in Units |-> None]
  /\ sentBy = [u \in Units |-> None] /\ sentAge = [u \in Units |-> RateTtl]

-------------------------------------------------------------------------------
(* One cycle of control_loop *)

Goto(r, place) == step' = [step EXCEPT ![r] = place]

\* A variant: the next cycle starts at once.
SleepNot(r) ==
  /\ Goto(r, "sleep") /\ UNCHANGED timer
  /\ listed' = [listed EXCEPT ![r] = {}]
  /\ seen' = [seen EXCEPT ![r] = [u \in Units |-> None]]
  /\ unit' = [unit EXCEPT ![r] = None] /\ todo' = [todo EXCEPT ![r] = {}]

\* The cycle is over, or an exception ends it: sleep.
Sleep(r) ==
  /\ Goto(r, "sleep") /\ timer' = [timer EXCEPT ![r] = Interval]
  /\ listed' = [listed EXCEPT ![r] = {}]
  /\ seen' = [seen EXCEPT ![r] = [u \in Units |-> None]]
  /\ unit' = [unit EXCEPT ![r] = None] /\ todo' = [todo EXCEPT ![r] = {}]

\* _get_all_twins: list the keys,
List(r) ==
  /\ step[r] = "sleep" /\ timer[r] = 0
  /\ listed' = [listed EXCEPT ![r] = {u \in Units : twin[u] # None}]
  /\ Goto(r, "fetch")
  /\ UNCHANGED <<timer, seen, unit, todo, cool, rules, twin, rate, failures, rateBy, sending>>

\* and read them one by one; a key may have expired meanwhile.
Fetch(r) ==
  /\ step[r] = "fetch"
  /\ \E u \in listed[r] :
       /\ listed' = [listed EXCEPT ![r] = @ \ {u}]
       /\ seen' = [seen EXCEPT ![r][u] = twin[u]]
  /\ UNCHANGED <<step, timer, unit, todo, cool, rules, twin, rate, failures, rateBy, sending>>

Fetched(r) ==
  /\ step[r] = "fetch" /\ listed[r] = {}
  /\ Goto(r, "units")
  /\ UNCHANGED <<timer, listed, seen, unit, todo, cool, rules, twin, rate, failures, rateBy,
                 sending>>

\* No unit is left; the balancer sends nothing.
EndCycle(r) ==
  /\ step[r] = "units" /\ seen[r] = [u \in Units |-> None]
  /\ Sleep(r)
  /\ UNCHANGED <<cool, rules, twin, rate, failures, rateBy, sending>>

\* RuleEngine.evaluate: the rules that fire before one that raises, if one does.
Fired(r, class, u) ==
  {k \in rules \ Raises : /\ Holds(k, class) /\ cool[r][u][k] = 0
                          /\ \A b \in rules \cap Raises : k < b}

\* A variant: the cooldown of every rule that is evaluated starts.
StartAllCooldowns(r, fired, u) ==
  cool' = [cool EXCEPT ![r][u] = Cooldown]

\* A rule's cooldown starts when it fires, whatever becomes of its command.
StartCooldowns(r, fired, u) ==
  cool' = [cool EXCEPT ![r][u] = [k \in Rule |-> IF k \in fired THEN Cooldown[k] ELSE @[k]]]

\* A unit that is OFFLINE is passed over.
Skip(r) ==
  /\ step[r] = "units"
  /\ \E u \in Units : seen[r][u] = "offline" /\ seen' = [seen EXCEPT ![r][u] = None]
  /\ UNCHANGED <<step, timer, listed, unit, todo, cool, rules, twin, rate, failures, rateBy,
                 sending>>

\* The rules, then the optimizer, which may have a setpoint to suggest.
Evaluate(r) ==
  /\ step[r] = "units" /\ rules \cap Raises = {}
  /\ \E u \in Units : \E suggestion \in SUBSET {Setpoint} :
       LET fired == Fired(r, seen[r][u], u)
       IN  /\ seen[r][u] \notin {None, "offline"}
           /\ seen' = [seen EXCEPT ![r][u] = None]
           /\ StartCooldowns(r, fired, u)
           /\ todo' = [todo EXCEPT ![r] = fired \cup suggestion]
           /\ IF fired \cup suggestion = {}
                THEN UNCHANGED <<step, unit>>
                ELSE Goto(r, "exists") /\ unit' = [unit EXCEPT ![r] = u]
  /\ UNCHANGED <<timer, listed, rules, twin, rate, failures, rateBy, sending>>

\* evaluate raises: its results are lost, the cooldowns are not.
EvaluateRaises(r) ==
  /\ step[r] = "units" /\ rules \cap Raises # {}
  /\ \E u \in Units :
       /\ seen[r][u] \notin {None, "offline"}
       /\ StartCooldowns(r, Fired(r, seen[r][u], u), u)
  /\ Sleep(r)
  /\ UNCHANGED <<rules, twin, rate, failures, rateBy, sending>>

-------------------------------------------------------------------------------
(* CommandDispatcher.dispatch, of the first of the commands *)

First(commands) == CHOOSE c \in commands : \A d \in commands : c <= d

\* dispatch returns.
Done(r) ==
  LET rest == todo[r] \ {First(todo[r])}
  IN  /\ todo' = [todo EXCEPT ![r] = rest]
      /\ Goto(r, IF rest = {} THEN "units" ELSE "exists")
      /\ unit' = [unit EXCEPT ![r] = IF rest = {} THEN None ELSE @]
      /\ UNCHANGED <<timer, listed, seen>>

\* The rate key exists: the command is dropped.
Drop(r) ==
  /\ step[r] = "exists" /\ rate[unit[r]] > 0
  /\ Done(r)
  /\ UNCHANGED <<cool, rules, twin, rate, failures, rateBy, sending>>

\* A variant: the key is not looked up.
AllowUnchecked(r) ==
  /\ step[r] = "exists"
  /\ Goto(r, "publish")
  /\ UNCHANGED <<timer, listed, seen, unit, todo, cool, rules, twin, rate, failures, rateBy,
                 sending>>

\* It does not; by the time the next call is made it may.
Allow(r) ==
  /\ step[r] = "exists" /\ rate[unit[r]] = 0
  /\ Goto(r, "publish")
  /\ UNCHANGED <<timer, listed, seen, unit, todo, cool, rules, twin, rate, failures, rateBy,
                 sending>>

Publish(r) ==
  /\ step[r] = "publish"
  /\ Goto(r, "rate")
  /\ sentBy' = [sentBy EXCEPT ![unit[r]] = r] /\ sentAge' = [sentAge EXCEPT ![unit[r]] = 0]
  /\ UNCHANGED <<timer, listed, seen, unit, todo, cool, rules, twin, rate, failures, rateBy>>

SetRate(r) ==
  /\ step[r] = "rate"
  /\ rate' = [rate EXCEPT ![unit[r]] = RateTtl] /\ rateBy' = [rateBy EXCEPT ![unit[r]] = r]
  /\ Goto(r, "ack")
  /\ UNCHANGED <<timer, listed, seen, unit, todo, cool, rules, twin, failures, sending>>

\* The record of the pending acknowledgement, which nothing reads.
SetAck(r) ==
  /\ step[r] = "ack"
  /\ Done(r)
  /\ UNCHANGED <<cool, rules, twin, rate, failures, rateBy, sending>>

-------------------------------------------------------------------------------
(* Failures and the environment *)

\* An awaited call raises: the exception ends the cycle.
Fail(r) ==
  /\ step[r] \notin {"sleep", "units"} /\ failures < MaxFailures
  /\ failures' = failures + 1
  /\ Sleep(r)
  /\ UNCHANGED <<cool, rules, twin, rate, rateBy, sending>>

\* A replica restarts: its cooldowns are gone, what is in Redis is not.
Restart(r) ==
  /\ failures < MaxFailures
  /\ failures' = failures + 1
  /\ Sleep(r)
  /\ cool' = [cool EXCEPT ![r] = [u \in Units |-> [k \in Rule |-> 0]]]
  /\ UNCHANGED <<rules, twin, rate, rateBy, sending>>

\* POST /rules and DELETE /rules/{rule_id}
Edit ==
  /\ \E k \in Edited : rules' \in {rules \cup {k}, rules \ {k}}
  /\ UNCHANGED <<loop, cool, twin, rate, failures, rateBy, sending>>

\* The digital twin service writes a twin, or a twin expires.
Telemetry ==
  /\ \E u \in Units, class \in Classes \cup {None} : twin' = [twin EXCEPT ![u] = class]
  /\ UNCHANGED <<loop, cool, rules, rate, failures, rateBy, sending>>

Less(n) == IF n > 0 THEN n - 1 ELSE 0

Tick ==
  /\ timer' = [r \in Replicas |-> Less(timer[r])]
  /\ cool' = [r \in Replicas |-> [u \in Units |-> [k \in Rule |-> Less(cool[r][u][k])]]]
  /\ rate' = [u \in Units |-> Less(rate[u])]
  /\ sentAge' = [u \in Units |-> IF sentAge[u] < RateTtl THEN sentAge[u] + 1 ELSE RateTtl]
  /\ UNCHANGED <<step, listed, seen, unit, todo, rules, twin, failures, rateBy, sentBy>>

Loop(r) ==
  \/ List(r) \/ Fetch(r) \/ Fetched(r) \/ Skip(r) \/ Evaluate(r) \/ EvaluateRaises(r)
  \/ EndCycle(r) \/ Drop(r) \/ Allow(r) \/ Publish(r) \/ SetRate(r) \/ SetAck(r)

Next ==
  \/ \E r \in Replicas : Loop(r) \/ Fail(r) \/ Restart(r)
  \/ Edit \/ Telemetry \/ Tick

\* Awaited calls return and time passes.
Fairness == (\A r \in Replicas : WF_vars(Loop(r))) /\ WF_vars(Tick)

Spec     == Init /\ [][Next]_vars
FairSpec == Spec /\ Fairness

-------------------------------------------------------------------------------
(* Properties *)

\* A replica never drops its own emergency shutdown because of a rate key it has set itself,
\* however slow or broken its cycles and whatever lower rules fired before (lines 251-272,
\* 352-381): the shutdown is first in its cycle, and cycles are longer apart than the key lives.
ShutdownNotLimited ==
  \A r \in Replicas :
    step[r] = "exists" /\ Shutdown \in todo[r] /\ rate[unit[r]] > 0 => rateBy[unit[r]] # r

\* A replica leaves CMD_RATE_LIMIT_S between two commands to a unit, although the key is set
\* only after the command is published, and perhaps never (lines 253-267).
Spaced ==
  [][\A r \in Replicas : Publish(r) =>
       sentBy[unit[r]] # r \/ sentAge[unit[r]] = RateTtl]_vars

\* A unit that stays critical is shut down again and again, through failures, restarts and
\* commands dropped while the cooldown ran, once no rule raises (lines 105-133, 352-391).
ShutdownRecurs ==
  \A u \in Units :
    <>[](twin[u] = "critical" /\ Shutdown \in rules /\ rules \cap Raises = {})
      => []<>(\E r \in Replicas :
               step[r] = "publish" /\ unit[r] = u /\ Shutdown \in todo[r])
===============================================================================
