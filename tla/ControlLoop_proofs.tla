-------------------------- MODULE ControlLoop_proofs --------------------------
(***************************************************************************)
(* For any number of replicas and units and any timing with the key's life *)
(* not longer than the sleep: types, the shutdown that is never dropped by *)
(* its own rate key, and the spacing of a replica's commands.              *)
(***************************************************************************)
EXTENDS ControlLoop, TLAPS

Dispatching == {"exists", "publish", "rate", "ack"}

\* Where a replica keeps the units of its cycle.
Bookkeeping ==
  \A r \in Replicas :
    /\ step[r] \in Dispatching => (listed[r] = {} /\ seen[r][unit[r]] = None)
    /\ step[r] = "units" => listed[r] = {}
    /\ step[r] \notin Dispatching => (unit[r] = None /\ todo[r] = {})

\* A rate key that a replica has set outlives neither its sleep nor, within the cycle, the
\* point where the shutdown of the unit was dispatched.
OwnKey ==
  \A r \in Replicas, u \in Units :
    rateBy[u] = r =>
      \/ rate[u] = 0
      \/ step[r] = "sleep" /\ rate[u] <= timer[r]
      \/ /\ step[r] # "sleep" /\ u \notin listed[r] /\ seen[r][u] = None
         /\ unit[r] = u => (step[r] = "ack" \/ Shutdown \notin todo[r])

\* What keeps a replica from a second command: its place, its sleep, or the key.
OwnCommand ==
  \A r \in Replicas, u \in Units :
    sentBy[u] = r =>
      \/ sentAge[u] = RateTtl
      \/ step[r] = "rate" /\ unit[r] = u
      \/ step[r] = "sleep" /\ timer[r] + sentAge[u] >= RateTtl
      \/ ~(step[r] = "publish" /\ unit[r] = u) /\ rate[u] + sentAge[u] >= RateTtl

-------------------------------------------------------------------------------
\* The first of some commands is one of them; the shutdown is before all others.
LEMMA FirstCommand ==
  ASSUME NEW S \in SUBSET {Shutdown, MaxFan, Setpoint}, S # {}
  PROVE  First(S) \in S /\ (Shutdown \in S => First(S) = Shutdown)
<1> USE DEF Shutdown, MaxFan, Setpoint
<1>1. \A d \in S : d = 1 \/ d = 3 \/ d = 4
  OBVIOUS
<1>2. \E c \in S : \A d \in S : c <= d
  <2>1. CASE 1 \in S
    <3>1. \A d \in S : 1 <= d
      BY <1>1
    <3> QED
      BY <2>1, <3>1
  <2>2. CASE 1 \notin S /\ 3 \in S
    <3>1. \A d \in S : 3 <= d
      BY <1>1, <2>2
    <3> QED
      BY <2>2, <3>1
  <2>3. CASE 1 \notin S /\ 3 \notin S
    <3>1. \A d \in S : d = 4
      BY <1>1, <2>3, Zenon
    <3>2. \A d \in S : 4 <= d
      BY <3>1
    <3>3. PICK d \in S : d \in S
      OBVIOUS
    <3> QED
      BY <3>1, <3>2, <3>3, Zenon
  <2> QED
    BY <2>1, <2>2, <2>3
<1>3. First(S) \in S /\ \A d \in S : First(S) <= d
  BY <1>2, Zenon DEF First
<1>4. First(S) = 1 \/ First(S) = 3 \/ First(S) = 4
  BY <1>1, <1>3, Zenon
<1>5. ASSUME 1 \in S PROVE First(S) = 1
  <2>1. First(S) <= 1
    BY <1>3, <1>5, Zenon
  <2> QED
    BY <1>4, <2>1
<1> QED
  BY <1>3, <1>5

\* What Sleep and Done do to the variables of a replica.
LEMMA SleepTypes ==
  ASSUME TypeOK, NEW r \in Replicas, Sleep(r)
  PROVE  /\ step' \in [Replicas -> Step] /\ timer' \in [Replicas -> 0..Interval]
         /\ listed' \in [Replicas -> SUBSET Units]
         /\ seen' \in [Replicas -> [Units -> Classes \cup {None}]]
         /\ unit' \in [Replicas -> Units \cup {None}]
         /\ todo' \in [Replicas -> SUBSET {Shutdown, MaxFan, Setpoint}]
         /\ \A q \in Replicas :
              step'[q] \in Dispatching => unit'[q] \in Units /\ todo'[q] # {}
<1> USE ControlAssumption DEF TypeOK, Sleep, Goto
<1>1. [u \in Units |-> None] \in [Units -> Classes \cup {None}]
  OBVIOUS
<1>2. seen' \in [Replicas -> [Units -> Classes \cup {None}]]
  BY <1>1
<1>3. /\ step' \in [Replicas -> Step] /\ timer' \in [Replicas -> 0..Interval]
      /\ listed' \in [Replicas -> SUBSET Units]
  BY DEF Step
<1>4. /\ unit' \in [Replicas -> Units \cup {None}]
      /\ todo' \in [Replicas -> SUBSET {Shutdown, MaxFan, Setpoint}]
  OBVIOUS
<1>5. \A q \in Replicas : step'[q] \in Dispatching => unit'[q] \in Units /\ todo'[q] # {}
  BY DEF Dispatching
<1> QED
  BY <1>2, <1>3, <1>4, <1>5

LEMMA DoneTypes ==
  ASSUME TypeOK, NEW r \in Replicas, step[r] \in Dispatching, Done(r)
  PROVE  /\ step' \in [Replicas -> Step] /\ unit' \in [Replicas -> Units \cup {None}]
         /\ todo' \in [Replicas -> SUBSET {Shutdown, MaxFan, Setpoint}]
         /\ \A q \in Replicas :
              step'[q] \in Dispatching => unit'[q] \in Units /\ todo'[q] # {}
<1> DEFINE rest == todo[r] \ {First(todo[r])}
<1>1. /\ todo' = [todo EXCEPT ![r] = rest]
      /\ step' = [step EXCEPT ![r] = IF rest = {} THEN "units" ELSE "exists"]
      /\ unit' = [unit EXCEPT ![r] = IF rest = {} THEN None ELSE @]
  BY DEF Done, Goto
<1>2. rest \in SUBSET {Shutdown, MaxFan, Setpoint}
  BY DEF TypeOK
<1> HIDE DEF rest
<1>3. todo' \in [Replicas -> SUBSET {Shutdown, MaxFan, Setpoint}]
  BY <1>1, <1>2 DEF TypeOK
<1>4. step' \in [Replicas -> Step] /\ unit' \in [Replicas -> Units \cup {None}]
  BY <1>1 DEF TypeOK, Step
<1>5. \A q \in Replicas : step'[q] \in Dispatching => unit'[q] \in Units /\ todo'[q] # {}
  BY <1>1 DEF TypeOK, Dispatching
<1> QED
  BY <1>3, <1>4, <1>5

\* What StartCooldowns does to the cooldowns.
LEMMA CooldownTypes ==
  ASSUME TypeOK, NEW r \in Replicas, NEW u \in Units, NEW fired, StartCooldowns(r, fired, u)
  PROVE  cool' \in [Replicas -> [Units -> [Rule -> Nat]]]
<1> DEFINE new == [k \in Rule |-> IF k \in fired THEN Cooldown[k] ELSE cool[r][u][k]]
<1>1. cool' = [cool EXCEPT ![r][u] = new]
  BY DEF StartCooldowns
<1>2. \A k \in Rule : Cooldown[k] \in Nat
  BY ControlAssumption DEF Cooldown
<1>3. new \in [Rule -> Nat]
  BY <1>2 DEF TypeOK
<1> HIDE DEF new
<1> QED
  BY <1>1, <1>3 DEF TypeOK
-------------------------------------------------------------------------------
(* Types *)

LEMMA InitTypes == Init => TypeOK
<1> SUFFICES ASSUME Init PROVE TypeOK
  OBVIOUS
<1>1. /\ step \in [Replicas -> Step] /\ timer \in [Replicas -> 0..Interval]
      /\ listed \in [Replicas -> SUBSET Units]
  BY ControlAssumption DEF Init, Step
<1>2. seen \in [Replicas -> [Units -> Classes \cup {None}]]
  BY DEF Init
<1>3. /\ unit \in [Replicas -> Units \cup {None}]
      /\ todo \in [Replicas -> SUBSET {Shutdown, MaxFan, Setpoint}]
      /\ \A r \in Replicas : step[r] \notin Dispatching
  BY DEF Init, Dispatching
<1>4. cool \in [Replicas -> [Units -> [Rule -> Nat]]]
  BY DEF Init
<1>5. /\ rules \subseteq Rule /\ twin \in [Units -> Classes \cup {None}]
      /\ rate \in [Units -> 0..RateTtl] /\ failures \in 0..MaxFailures
  BY ControlAssumption DEF Init
<1>6. /\ rateBy \in [Units -> Replicas \cup {None}]
      /\ sentBy \in [Units -> Replicas \cup {None}] /\ sentAge \in [Units -> 0..RateTtl]
  BY ControlAssumption DEF Init
<1> QED
  BY <1>1, <1>2, <1>3, <1>4, <1>5, <1>6 DEF TypeOK, Dispatching

\* The steps of a cycle.
LEMMA LoopTypes ==
  ASSUME TypeOK, NEW r \in Replicas, Loop(r)
  PROVE  TypeOK'
<1> USE DEF loop, sending
<1>1. CASE List(r)
  BY <1>1 DEF List, Goto, TypeOK, Step
<1>2. CASE Fetch(r)
  BY <1>2 DEF Fetch, TypeOK
<1>3. CASE Fetched(r)
  BY <1>3 DEF Fetched, Goto, TypeOK, Step
<1>4. CASE Skip(r)
  BY <1>4 DEF Skip, TypeOK
<1>5. CASE Evaluate(r)
  <2>1. PICK u \in Units, suggestion \in SUBSET {Setpoint} :
          /\ seen' = [seen EXCEPT ![r][u] = None]
          /\ StartCooldowns(r, Fired(r, seen[r][u], u), u)
          /\ todo' = [todo EXCEPT ![r] = Fired(r, seen[r][u], u) \cup suggestion]
          /\ \/ Fired(r, seen[r][u], u) \cup suggestion = {} /\ UNCHANGED <<step, unit>>
             \/ /\ Fired(r, seen[r][u], u) \cup suggestion # {}
                /\ Goto(r, "exists") /\ unit' = [unit EXCEPT ![r] = u]
    BY <1>5 DEF Evaluate
  <2> DEFINE commands == Fired(r, seen[r][u], u) \cup suggestion
  <2>2. commands \in SUBSET {Shutdown, MaxFan, Setpoint}
    <3>1. \A k \in Fired(r, seen[r][u], u) : k \in {Shutdown, MaxFan}
      BY DEF Fired, Holds
    <3> QED
      BY <3>1
  <2>3. cool' \in [Replicas -> [Units -> [Rule -> Nat]]]
    BY <2>1, CooldownTypes
  <2> HIDE DEF commands
  <2>4. todo' \in [Replicas -> SUBSET {Shutdown, MaxFan, Setpoint}]
    BY <2>1, <2>2 DEF TypeOK, commands
  <2>5. seen' \in [Replicas -> [Units -> Classes \cup {None}]]
    BY <2>1 DEF TypeOK
  <2>6. step' \in [Replicas -> Step] /\ unit' \in [Replicas -> Units \cup {None}]
    <3>1. \/ step' = step /\ unit' = unit
          \/ step' = [step EXCEPT ![r] = "exists"] /\ unit' = [unit EXCEPT ![r] = u]
      BY <2>1, Zenon DEF Goto
    <3>2. step \in [Replicas -> Step] /\ unit \in [Replicas -> Units \cup {None}]
      BY DEF TypeOK
    <3>3. "exists" \in Step
      BY DEF Step
    <3> QED
      BY <3>1, <3>2, <3>3
  <2>7. \A q \in Replicas : step'[q] \in Dispatching => unit'[q] \in Units /\ todo'[q] # {}
    <3>1. step[r] = "units"
      BY <1>5 DEF Evaluate
    <3> QED
      BY <2>1, <3>1 DEF TypeOK, Goto, Dispatching, commands
  <2> QED
    BY <1>5, <2>3, <2>4, <2>5, <2>6, <2>7 DEF Evaluate, TypeOK, Dispatching
<1>6. CASE EvaluateRaises(r)
  <2>1. cool' \in [Replicas -> [Units -> [Rule -> Nat]]]
    BY <1>6, CooldownTypes DEF EvaluateRaises
  <2> QED
    BY <1>6, <2>1, SleepTypes DEF EvaluateRaises, TypeOK, Dispatching
<1>7. CASE EndCycle(r)
  BY <1>7, SleepTypes DEF EndCycle, TypeOK, Dispatching
<1>8. CASE Drop(r)
  BY <1>8, DoneTypes DEF Drop, Done, TypeOK, Dispatching
<1>9. CASE Allow(r)
  BY <1>9 DEF Allow, Goto, TypeOK, Step
<1>10. CASE Publish(r)
  BY <1>10, ControlAssumption DEF Publish, Goto, TypeOK, Step
<1>11. CASE SetRate(r)
  BY <1>11, ControlAssumption DEF SetRate, Goto, TypeOK, Step
<1>12. CASE SetAck(r)
  BY <1>12, DoneTypes DEF SetAck, Done, TypeOK, Dispatching
<1> QED
  BY <1>1, <1>2, <1>3, <1>4, <1>5, <1>6, <1>7, <1>8, <1>9, <1>10, <1>11, <1>12 DEF Loop

\* The other steps.
LEMMA OtherTypes ==
  ASSUME TypeOK,
         \/ \E r \in Replicas : Fail(r) \/ Restart(r)
         \/ Edit \/ Telemetry \/ Tick \/ UNCHANGED vars
  PROVE  TypeOK'
<1> USE DEF loop, sending
<1>1. ASSUME NEW r \in Replicas, Fail(r) PROVE TypeOK'
  BY <1>1, SleepTypes, ControlAssumption DEF Fail, TypeOK, Dispatching
<1>2. ASSUME NEW r \in Replicas, Restart(r) PROVE TypeOK'
  <2>1. cool' \in [Replicas -> [Units -> [Rule -> Nat]]]
    BY <1>2 DEF Restart, TypeOK
  <2> QED
    BY <1>2, <2>1, SleepTypes, ControlAssumption DEF Restart, TypeOK, Dispatching
<1>3. CASE Edit
  <2>1. rules' \subseteq Rule
    BY <1>3, ControlAssumption DEF Edit, TypeOK, Rule, TextFirst, MaxFan
  <2> QED
    BY <1>3, <2>1 DEF Edit, TypeOK
<1>4. CASE Telemetry
  BY <1>4 DEF Telemetry, TypeOK
<1>5. CASE Tick
  <2>1. /\ timer' \in [Replicas -> 0..Interval] /\ rate' \in [Units -> 0..RateTtl]
        /\ sentAge' \in [Units -> 0..RateTtl]
    BY <1>5, ControlAssumption DEF Tick, Less, TypeOK
  <2>2. cool' \in [Replicas -> [Units -> [Rule -> Nat]]]
    <3>1. \A n \in Nat : Less(n) \in Nat
      BY DEF Less
    <3> QED
      BY <1>5, <3>1 DEF Tick, TypeOK
  <2> QED
    BY <1>5, <2>1, <2>2 DEF Tick, TypeOK
<1>6. CASE UNCHANGED vars
  BY <1>6 DEF vars, TypeOK
<1> QED
  BY <1>1, <1>2, <1>3, <1>4, <1>5, <1>6

\* Every variable keeps its type.
THEOREM TypeCorrect == Spec => []TypeOK
<1>1. TypeOK /\ [Next]_vars => TypeOK'
  BY LoopTypes, OtherTypes DEF Next
<1> QED
  BY InitTypes, <1>1, PTL DEF Spec
-------------------------------------------------------------------------------
(* The place of the units in a cycle *)

\* What a step of one replica leaves alone.
LEMMA OthersUnchanged ==
  ASSUME TypeOK, NEW r \in Replicas, Loop(r) \/ Fail(r) \/ Restart(r),
         NEW q \in Replicas, q # r
  PROVE  /\ step'[q] = step[q] /\ timer'[q] = timer[q] /\ listed'[q] = listed[q]
         /\ seen'[q] = seen[q] /\ unit'[q] = unit[q] /\ todo'[q] = todo[q]
<1> USE DEF TypeOK, loop, sending, Goto
<1>1. CASE Sleep(r)
  BY <1>1 DEF Sleep
<1>2. CASE Done(r)
  BY <1>2 DEF Done
<1>3. CASE List(r) \/ Fetch(r) \/ Fetched(r) \/ Skip(r)
  BY <1>3 DEF List, Fetch, Fetched, Skip
<1>4. CASE Allow(r) \/ Publish(r) \/ SetRate(r)
  BY <1>4 DEF Allow, Publish, SetRate
<1>5. CASE Drop(r) \/ SetAck(r)
  <2>1. Done(r) /\ UNCHANGED <<timer, listed, seen>>
    BY <1>5, Zenon DEF Drop, SetAck, Done
  <2> QED
    BY <1>2, <2>1
<1>6. CASE EvaluateRaises(r) \/ EndCycle(r) \/ Fail(r) \/ Restart(r)
  <2>1. Sleep(r)
    BY <1>6, Zenon DEF EvaluateRaises, EndCycle, Fail, Restart
  <2> QED
    BY <1>1, <2>1
<1>7. CASE Evaluate(r)
  <2>1. /\ \E u \in Units : seen' = [seen EXCEPT ![r][u] = None]
        /\ \E new : todo' = [todo EXCEPT ![r] = new]
        /\ step' = step \/ step' = [step EXCEPT ![r] = "exists"]
        /\ unit' = unit \/ \E u \in Units : unit' = [unit EXCEPT ![r] = u]
        /\ timer' = timer /\ listed' = listed
    BY <1>7, Zenon DEF Evaluate
  <2> QED
    BY <2>1
<1> QED
  BY <1>3, <1>4, <1>5, <1>6, <1>7, Zenon DEF Loop

\* How a cycle ends, and how a dispatch does.
LEMMA SleepEffect ==
  ASSUME TypeOK, NEW r \in Replicas, Sleep(r)
  PROVE  /\ step'[r] = "sleep" /\ timer'[r] = Interval /\ listed'[r] = {}
         /\ unit'[r] = None /\ todo'[r] = {}
BY DEF TypeOK, Sleep, Goto

LEMMA DoneEffect ==
  ASSUME TypeOK, NEW r \in Replicas, Done(r)
  PROVE  LET rest == todo[r] \ {First(todo[r])}
         IN  /\ todo'[r] = rest
             /\ \/ rest = {} /\ step'[r] = "units" /\ unit'[r] = None
                \/ rest # {} /\ step'[r] = "exists" /\ unit'[r] = unit[r]
             /\ timer'[r] = timer[r] /\ listed'[r] = listed[r] /\ seen'[r] = seen[r]
BY DEF TypeOK, Done, Goto

\* What evaluating a unit does.
LEMMA EvaluateEffect ==
  ASSUME TypeOK, NEW r \in Replicas, Evaluate(r)
  PROVE  \E u \in Units :
           /\ step[r] = "units" /\ seen[r][u] # None
           /\ seen'[r] = [seen[r] EXCEPT ![u] = None]
           /\ timer'[r] = timer[r] /\ listed'[r] = listed[r]
           /\ \/ step'[r] = "units" /\ unit'[r] = unit[r] /\ todo'[r] = {}
              \/ step'[r] = "exists" /\ unit'[r] = u
<1>1. PICK u \in Units, suggestion \in SUBSET {Setpoint} :
        /\ step[r] = "units" /\ seen[r][u] # None
        /\ seen' = [seen EXCEPT ![r][u] = None]
        /\ todo' = [todo EXCEPT ![r] = Fired(r, seen[r][u], u) \cup suggestion]
        /\ \/ Fired(r, seen[r][u], u) \cup suggestion = {} /\ UNCHANGED <<step, unit>>
           \/ Goto(r, "exists") /\ unit' = [unit EXCEPT ![r] = u]
        /\ timer' = timer /\ listed' = listed
  BY DEF Evaluate
<1> DEFINE commands == Fired(r, seen[r][u], u) \cup suggestion
<1>2. /\ todo' = [todo EXCEPT ![r] = commands]
      /\ \/ commands = {} /\ UNCHANGED <<step, unit>>
         \/ step' = [step EXCEPT ![r] = "exists"] /\ unit' = [unit EXCEPT ![r] = u]
  BY <1>1, Zenon DEF Goto
<1> HIDE DEF commands
<1>3. seen'[r] = [seen[r] EXCEPT ![u] = None]
  BY <1>1 DEF TypeOK
<1>4. \/ step'[r] = "units" /\ unit'[r] = unit[r] /\ todo'[r] = {}
      \/ step'[r] = "exists" /\ unit'[r] = u
  BY <1>1, <1>2 DEF TypeOK
<1> QED
  BY <1>1, <1>3, <1>4

\* The bookkeeping of a replica is kept by its own steps.
LEMMA BookkeepingStep ==
  ASSUME TypeOK, Bookkeeping, [Next]_vars
  PROVE  Bookkeeping'
<1> DEFINE Kept(r) ==
      /\ step[r] \in Dispatching => (listed[r] = {} /\ seen[r][unit[r]] = None)
      /\ step[r] = "units" => listed[r] = {}
      /\ step[r] \notin Dispatching => (unit[r] = None /\ todo[r] = {})
<1>0. \A r \in Replicas : Kept(r)
  BY DEF Bookkeeping
<1>1. ASSUME NEW r \in Replicas, Loop(r) \/ Fail(r) \/ Restart(r)
      PROVE  Kept(r)'
  <2> USE DEF Dispatching
  <2>1. CASE Sleep(r)
    BY <2>1, SleepEffect
  <2>2. CASE Done(r) /\ step[r] \in Dispatching
    BY <1>0, <2>2, DoneEffect
  <2>3. CASE List(r) \/ Fetch(r) \/ Fetched(r) \/ Skip(r)
    BY <1>0, <2>3 DEF List, Fetch, Fetched, Skip, Goto, TypeOK
  <2>4. CASE Evaluate(r)
    <3>1. PICK u \in Units :
           /\ step[r] = "units" /\ seen[r][u] # None
           /\ seen'[r] = [seen[r] EXCEPT ![u] = None]
           /\ timer'[r] = timer[r] /\ listed'[r] = listed[r]
           /\ \/ step'[r] = "units" /\ unit'[r] = unit[r] /\ todo'[r] = {}
              \/ step'[r] = "exists" /\ unit'[r] = u
      BY <2>4, EvaluateEffect, Zenon
    <3>2. seen'[r][u] = None
      BY <3>1 DEF TypeOK
    <3> QED
      BY <1>0, <3>1, <3>2
  <2>5. CASE Allow(r) \/ Publish(r) \/ SetRate(r)
    BY <1>0, <2>5 DEF Allow, Publish, SetRate, Goto, TypeOK
  <2>6. \/ Sleep(r)
        \/ Done(r) /\ step[r] \in Dispatching
        \/ List(r) \/ Fetch(r) \/ Fetched(r) \/ Skip(r) \/ Evaluate(r)
        \/ Allow(r) \/ Publish(r) \/ SetRate(r)
    BY <1>1 DEF Loop, EvaluateRaises, EndCycle, Fail, Restart, Drop, SetAck
  <2> QED
    BY <2>1, <2>2, <2>3, <2>4, <2>5, <2>6
<1>2. ASSUME NEW r \in Replicas, Loop(r) \/ Fail(r) \/ Restart(r), NEW q \in Replicas, q # r
      PROVE  Kept(q)'
  BY <1>0, <1>2, OthersUnchanged
<1>3. ASSUME Edit \/ Telemetry \/ Tick \/ UNCHANGED vars, NEW q \in Replicas
      PROVE  Kept(q)'
  BY <1>0, <1>3 DEF Edit, Telemetry, Tick, vars, loop
<1>4. \A q \in Replicas : Kept(q)'
  BY <1>1, <1>2, <1>3 DEF Next
<1> QED
  BY <1>4 DEF Bookkeeping
-------------------------------------------------------------------------------
(* The rate key *)

\* OwnKey, for a replica and a unit.
Key(r, u) ==
  rateBy[u] = r =>
    \/ rate[u] = 0
    \/ step[r] = "sleep" /\ rate[u] <= timer[r]
    \/ /\ step[r] # "sleep" /\ u \notin listed[r] /\ seen[r][u] = None
       /\ unit[r] = u => (step[r] = "ack" \/ Shutdown \notin todo[r])

LEMMA KeyStep ==
  ASSUME TypeOK, TypeOK', Bookkeeping, OwnKey, [Next]_vars
  PROVE  OwnKey'
<1>0. \A r \in Replicas, u \in Units : Key(r, u)
  BY DEF OwnKey, Key
<1>a. \A u \in Units : rate[u] \in 0..RateTtl /\ rate'[u] \in 0..RateTtl
  BY DEF TypeOK
<1>b. \A r \in Replicas : timer[r] \in 0..Interval
  BY DEF TypeOK
<1>1. ASSUME NEW r \in Replicas, Loop(r) \/ Fail(r) \/ Restart(r), NEW u \in Units
      PROVE  Key(r, u)'
  <2>1. CASE Sleep(r)
    <3>1. step'[r] = "sleep" /\ rate'[u] <= timer'[r]
      BY <1>a, <2>1, SleepEffect, ControlAssumption
    <3> QED
      BY <3>1 DEF Key
  <2>2. CASE Done(r) /\ UNCHANGED <<rate, rateBy>> /\ step[r] \in {"exists", "ack"}
    <3> DEFINE rest == todo[r] \ {First(todo[r])}
    <3>1. todo[r] # {} /\ todo[r] \in SUBSET {Shutdown, MaxFan, Setpoint} /\ unit[r] \in Units
      BY <2>2 DEF TypeOK
    <3>2. Shutdown \notin rest
      BY <3>1, FirstCommand
    <3>3. /\ todo'[r] = rest /\ step'[r] \in {"units", "exists"} /\ unit'[r] \in {None, unit[r]}
          /\ listed'[r] = listed[r] /\ seen'[r] = seen[r]
      BY <2>2, DoneEffect
    <3> HIDE DEF rest
    <3>4. Key(r, u)
      BY <1>0
    <3> QED
      BY <2>2, <3>2, <3>3, <3>4 DEF Key
  <2>3. CASE List(r)
    <3>1. step[r] = "sleep" /\ timer[r] = 0 /\ rate' = rate /\ rateBy' = rateBy
      BY <2>3 DEF List
    <3>2. rateBy[u] = r => rate[u] = 0
      BY <1>0, <1>a, <3>1 DEF Key
    <3> QED
      BY <3>1, <3>2 DEF Key
  <2>4. CASE Fetch(r)
    <3>1. PICK v \in listed[r] :
            /\ listed'[r] = listed[r] \ {v} /\ v \in Units
            /\ \A w \in Units : w # v => seen'[r][w] = seen[r][w]
      BY <2>4 DEF Fetch, TypeOK
    <3>2. /\ step[r] = "fetch" /\ step'[r] = step[r] /\ unit'[r] = unit[r] /\ todo'[r] = todo[r]
          /\ rate' = rate /\ rateBy' = rateBy
      BY <2>4 DEF Fetch
    <3>3. Key(r, u)
      BY <1>0
    <3> QED
      BY <3>1, <3>2, <3>3 DEF Key
  <2>5. CASE Fetched(r) \/ Skip(r)
    <3>1. /\ step[r] # "sleep" /\ step'[r] \notin {"sleep", "ack"} /\ step[r] # "ack"
          /\ listed' = listed /\ unit' = unit /\ todo' = todo
          /\ rate' = rate /\ rateBy' = rateBy
          /\ seen[r][u] = None => seen'[r][u] = None
      BY <2>5 DEF Fetched, Skip, Goto, TypeOK
    <3>2. Key(r, u)
      BY <1>0
    <3> QED
      BY <3>1, <3>2 DEF Key
  <2>6. CASE Evaluate(r)
    <3>1. PICK v \in Units :
           /\ step[r] = "units" /\ seen[r][v] # None
           /\ seen'[r] = [seen[r] EXCEPT ![v] = None]
           /\ timer'[r] = timer[r] /\ listed'[r] = listed[r]
           /\ \/ step'[r] = "units" /\ unit'[r] = unit[r] /\ todo'[r] = {}
              \/ step'[r] = "exists" /\ unit'[r] = v
      BY <2>6, EvaluateEffect, Zenon
    <3>2. seen[r][u] = None => seen'[r][u] = None
      BY <3>1 DEF TypeOK
    <3>3. rate' = rate /\ rateBy' = rateBy
      BY <2>6 DEF Evaluate
    <3>4. Key(r, u)
      BY <1>0
    <3> QED
      BY <3>1, <3>2, <3>3, <3>4 DEF Key
  <2>7. CASE Allow(r) \/ Publish(r)
    <3>1. /\ \/ step[r] = "exists" /\ step'[r] = "publish" /\ rate[unit[r]] = 0
             \/ step[r] = "publish" /\ step'[r] = "rate"
          /\ listed' = listed /\ seen' = seen /\ unit' = unit /\ todo' = todo
          /\ rate' = rate /\ rateBy' = rateBy
      BY <2>7 DEF Allow, Publish, Goto, TypeOK
    <3>2. Key(r, u)
      BY <1>0
    <3> QED
      BY <3>1, <3>2 DEF Key
  <2>8. CASE SetRate(r)
    <3>1. /\ step[r] = "rate" /\ step'[r] = "ack"
          /\ listed' = listed /\ seen' = seen /\ unit' = unit /\ todo' = todo
          /\ u # unit[r] => (rate'[u] = rate[u] /\ rateBy'[u] = rateBy[u])
      BY <2>8 DEF SetRate, Goto, TypeOK
    <3>2. listed[r] = {} /\ seen[r][unit[r]] = None
      BY <3>1 DEF Bookkeeping, Dispatching
    <3>3. Key(r, u)
      BY <1>0
    <3> QED
      BY <3>1, <3>2, <3>3 DEF Key
  <2>9. \/ Sleep(r)
        \/ (Done(r) /\ UNCHANGED <<rate, rateBy>> /\ step[r] \in {"exists", "ack"})
        \/ List(r) \/ Fetch(r) \/ Fetched(r) \/ Skip(r) \/ Evaluate(r)
        \/ Allow(r) \/ Publish(r) \/ SetRate(r)
    BY <1>1 DEF Loop, EvaluateRaises, EndCycle, Fail, Restart, Drop, SetAck
  <2> QED
    BY <2>1, <2>2, <2>3, <2>4, <2>5, <2>6, <2>7, <2>8, <2>9
<1>2. ASSUME NEW r \in Replicas, Loop(r) \/ Fail(r) \/ Restart(r), NEW q \in Replicas, q # r,
             NEW u \in Units
      PROVE  Key(q, u)'
  <2>1. rateBy'[u] = q => (rate'[u] = rate[u] /\ rateBy'[u] = rateBy[u])
    <3>1. CASE SetRate(r)
      BY <1>2, <3>1 DEF SetRate, TypeOK
    <3>2. CASE UNCHANGED <<rate, rateBy>>
      BY <3>2
    <3> QED
      BY <1>2, <3>1, <3>2 DEF Loop, List, Fetch, Fetched, Skip, Evaluate, EvaluateRaises,
           EndCycle, Drop, Allow, Publish, SetAck, Fail, Restart
  <2>2. Key(q, u)
    BY <1>0
  <2> QED
    BY <1>2, <2>1, <2>2, OthersUnchanged DEF Key
<1>3. ASSUME Edit \/ Telemetry \/ UNCHANGED vars, NEW q \in Replicas, NEW u \in Units
      PROVE  Key(q, u)'
  BY <1>0, <1>3 DEF Edit, Telemetry, vars, loop, Key
<1>4. ASSUME Tick, NEW q \in Replicas, NEW u \in Units
      PROVE  Key(q, u)'
  <2>1. /\ rate'[u] = Less(rate[u]) /\ timer'[q] = Less(timer[q])
        /\ rateBy' = rateBy /\ step' = step /\ listed' = listed /\ seen' = seen
        /\ unit' = unit /\ todo' = todo
    BY <1>4 DEF Tick
  <2>2. rate[u] = 0 => rate'[u] = 0
    BY <2>1 DEF Less
  <2>3. rate[u] <= timer[q] => rate'[u] <= timer'[q]
    BY <1>a, <1>b, <2>1 DEF Less
  <2>4. Key(q, u)
    BY <1>0
  <2> QED
    BY <2>1, <2>2, <2>3, <2>4 DEF Key
<1>5. \A q \in Replicas, u \in Units : Key(q, u)'
  BY <1>1, <1>2, <1>3, <1>4 DEF Next
<1> QED
  BY <1>5 DEF OwnKey, Key
-------------------------------------------------------------------------------
(* The spacing of commands *)

\* OwnCommand, for a replica and a unit.
Command(r, u) ==
  sentBy[u] = r =>
    \/ sentAge[u] = RateTtl
    \/ step[r] = "rate" /\ unit[r] = u
    \/ step[r] = "sleep" /\ timer[r] + sentAge[u] >= RateTtl
    \/ ~(step[r] = "publish" /\ unit[r] = u) /\ rate[u] + sentAge[u] >= RateTtl

LEMMA CommandStep ==
  ASSUME TypeOK, TypeOK', OwnCommand, [Next]_vars
  PROVE  OwnCommand'
<1>0. \A r \in Replicas, u \in Units : Command(r, u)
  BY DEF OwnCommand, Command
<1>a. \A u \in Units : /\ rate[u] \in 0..RateTtl /\ rate'[u] \in 0..RateTtl
                       /\ sentAge[u] \in 0..RateTtl /\ sentAge'[u] \in 0..RateTtl
  BY DEF TypeOK
<1>b. \A r \in Replicas : timer[r] \in 0..Interval /\ timer'[r] \in 0..Interval
  BY DEF TypeOK
<1>c. RateTtl \in Nat /\ Interval \in Nat /\ RateTtl <= Interval
  BY ControlAssumption
<1>1. ASSUME NEW r \in Replicas, Loop(r) \/ Fail(r) \/ Restart(r), NEW u \in Units
      PROVE  Command(r, u)'
  <2>0. Command(r, u)
    BY <1>0
  <2>1. CASE Sleep(r)
    <3>1. step'[r] = "sleep" /\ timer'[r] + sentAge'[u] >= RateTtl
      BY <1>a, <1>c, <2>1, SleepEffect
    <3> QED
      BY <3>1 DEF Command
  <2>2. CASE List(r)
    <3>1. step[r] = "sleep" /\ timer[r] = 0 /\ step'[r] = "fetch" /\ rate' = rate
          /\ sentBy' = sentBy /\ sentAge' = sentAge
      BY <2>2 DEF List, Goto, TypeOK, sending
    <3>2. timer[r] + sentAge[u] >= RateTtl => sentAge[u] = RateTtl
      BY <1>a, <1>c, <3>1
    <3>3. step[r] # "rate" /\ step'[r] # "publish"
      BY <3>1
    <3> QED
      BY <2>0, <3>1, <3>2, <3>3, Zenon DEF Command
  <2>3. CASE /\ UNCHANGED <<rate, sentBy, sentAge>>
             /\ step[r] \notin {"rate", "sleep"} /\ step'[r] # "publish"
    BY <2>0, <2>3 DEF Command
  <2>4. CASE Allow(r)
    <3>1. /\ step[r] = "exists" /\ step'[r] = "publish" /\ rate[unit[r]] = 0
          /\ unit' = unit /\ rate' = rate /\ sentBy' = sentBy /\ sentAge' = sentAge
      BY <2>4 DEF Allow, Goto, TypeOK, sending
    <3>2. (sentBy[u] = r /\ unit[r] = u) => sentAge[u] = RateTtl
      BY <1>a, <1>c, <2>0, <3>1 DEF Command
    <3> QED
      BY <2>0, <3>1, <3>2 DEF Command
  <2>5. CASE Publish(r)
    <3>1. /\ step[r] = "publish" /\ step'[r] = "rate" /\ unit' = unit /\ rate' = rate
          /\ u # unit[r] => (sentBy'[u] = sentBy[u] /\ sentAge'[u] = sentAge[u])
      BY <2>5 DEF Publish, Goto, TypeOK
    <3> QED
      BY <2>0, <3>1 DEF Command
  <2>6. CASE SetRate(r)
    <3>1. /\ step[r] = "rate" /\ step'[r] = "ack" /\ unit' = unit
          /\ sentBy' = sentBy /\ sentAge' = sentAge
          /\ u = unit[r] => rate'[u] = RateTtl
          /\ u # unit[r] => rate'[u] = rate[u]
      BY <2>6 DEF SetRate, Goto, TypeOK, sending
    <3>2. CASE u = unit[r]
      <4>1. rate'[u] + sentAge'[u] >= RateTtl
        BY <1>a, <1>c, <3>1, <3>2
      <4> QED
        BY <3>1, <4>1 DEF Command
    <3>3. CASE u # unit[r]
      <4>1. step[r] # "sleep" /\ step'[r] # "publish" /\ unit[r] # u
        BY <3>1, <3>3
      <4>2. sentBy[u] = r => (sentAge[u] = RateTtl \/ rate[u] + sentAge[u] >= RateTtl)
        BY <2>0, <4>1, Zenon DEF Command
      <4>3. rate'[u] = rate[u] /\ sentBy'[u] = sentBy[u] /\ sentAge'[u] = sentAge[u]
        BY <3>1, <3>3
      <4> QED
        BY <4>1, <4>2, <4>3, Zenon DEF Command
    <3> QED
      BY <3>2, <3>3
  <2>7. \/ Sleep(r)
        \/ List(r) \/ Allow(r) \/ Publish(r) \/ SetRate(r)
        \/ (/\ UNCHANGED <<rate, sentBy, sentAge>>
            /\ step[r] \notin {"rate", "sleep"} /\ step'[r] # "publish")
    <3>1. CASE Fetch(r) \/ Fetched(r) \/ Skip(r)
      BY <3>1 DEF Fetch, Fetched, Skip, Goto, TypeOK, sending
    <3>2. CASE Drop(r) \/ SetAck(r)
      <4>1. Done(r) /\ UNCHANGED <<rate, sentBy, sentAge>> /\ step[r] \in {"exists", "ack"}
        BY <3>2 DEF Drop, SetAck, sending
      <4> QED
        BY <4>1, DoneEffect
    <3>3. CASE Evaluate(r)
      <4>1. UNCHANGED <<rate, sentBy, sentAge>>
        BY <3>3 DEF Evaluate, sending
      <4>2. step[r] = "units" /\ step'[r] \in {"units", "exists"}
        BY <3>3, EvaluateEffect
      <4> QED
        BY <4>1, <4>2
    <3> QED
      BY <1>1, <3>1, <3>2, <3>3 DEF Loop, EvaluateRaises, EndCycle, Fail, Restart
  <2> QED
    BY <2>1, <2>2, <2>3, <2>4, <2>5, <2>6, <2>7
<1>2. ASSUME NEW r \in Replicas, Loop(r) \/ Fail(r) \/ Restart(r), NEW q \in Replicas, q # r,
             NEW u \in Units
      PROVE  Command(q, u)'
  <2>1. sentBy'[u] = q => (sentBy'[u] = sentBy[u] /\ sentAge'[u] = sentAge[u])
    <3>1. CASE Publish(r)
      BY <1>2, <3>1 DEF Publish, TypeOK
    <3>2. CASE UNCHANGED sending
      BY <3>2 DEF sending
    <3> QED
      BY <1>2, <3>1, <3>2, Zenon DEF Loop, List, Fetch, Fetched, Skip, Evaluate, EvaluateRaises,
           EndCycle, Drop, Allow, SetRate, SetAck, Fail, Restart
  <2>2. rate'[u] = rate[u] \/ rate'[u] = RateTtl
    <3>1. CASE SetRate(r)
      BY <3>1 DEF SetRate, TypeOK
    <3>2. CASE UNCHANGED rate
      BY <3>2
    <3> QED
      BY <1>2, <3>1, <3>2, Zenon DEF Loop, List, Fetch, Fetched, Skip, Evaluate, EvaluateRaises,
           EndCycle, Drop, Allow, Publish, SetAck, Fail, Restart
  <2>3. Command(q, u)
    BY <1>0
  <2>4. step'[q] = step[q] /\ unit'[q] = unit[q] /\ timer'[q] = timer[q]
    BY <1>2, OthersUnchanged
  <2>5. rate[u] + sentAge[u] >= RateTtl => rate'[u] + sentAge[u] >= RateTtl
    BY <1>a, <1>c, <2>2
  <2> QED
    BY <2>1, <2>3, <2>4, <2>5 DEF Command
<1>3. ASSUME Edit \/ Telemetry \/ UNCHANGED vars, NEW q \in Replicas, NEW u \in Units
      PROVE  Command(q, u)'
  BY <1>0, <1>3 DEF Edit, Telemetry, vars, loop, sending, Command
<1>4. ASSUME Tick, NEW q \in Replicas, NEW u \in Units
      PROVE  Command(q, u)'
  <2>1. /\ rate'[u] = Less(rate[u]) /\ timer'[q] = Less(timer[q])
        /\ sentAge'[u] = IF sentAge[u] < RateTtl THEN sentAge[u] + 1 ELSE RateTtl
        /\ sentBy' = sentBy /\ step' = step /\ unit' = unit
    BY <1>4 DEF Tick
  <2>2. sentAge[u] = RateTtl => sentAge'[u] = RateTtl
    BY <1>a, <1>c, <2>1
  <2>3. timer[q] + sentAge[u] >= RateTtl =>
          (sentAge'[u] = RateTtl \/ timer'[q] + sentAge'[u] >= RateTtl)
    BY <1>a, <1>b, <1>c, <2>1 DEF Less
  <2>4. rate[u] + sentAge[u] >= RateTtl =>
          (sentAge'[u] = RateTtl \/ rate'[u] + sentAge'[u] >= RateTtl)
    BY <1>a, <1>c, <2>1 DEF Less
  <2>5. Command(q, u)
    BY <1>0
  <2> QED
    BY <2>1, <2>2, <2>3, <2>4, <2>5 DEF Command
<1>5. \A q \in Replicas, u \in Units : Command(q, u)'
  BY <1>1, <1>2, <1>3, <1>4 DEF Next
<1> QED
  BY <1>5 DEF OwnCommand, Command

-------------------------------------------------------------------------------
\* The inductive invariant.
THEOREM Invariant == Spec => [](TypeOK /\ Bookkeeping /\ OwnKey /\ OwnCommand)
<1>1. Init => Bookkeeping /\ OwnKey /\ OwnCommand
  BY ControlAssumption DEF Init, Bookkeeping, Dispatching, OwnKey, OwnCommand
<1>2. /\ TypeOK /\ Bookkeeping /\ OwnKey /\ OwnCommand /\ [Next]_vars
      => TypeOK' /\ Bookkeeping' /\ OwnKey' /\ OwnCommand'
  <2> SUFFICES ASSUME TypeOK, Bookkeeping, OwnKey, OwnCommand, [Next]_vars
               PROVE  TypeOK' /\ Bookkeeping' /\ OwnKey' /\ OwnCommand'
    OBVIOUS
  <2>1. TypeOK'
    BY LoopTypes, OtherTypes DEF Next
  <2> QED
    BY <2>1, BookkeepingStep, KeyStep, CommandStep
<1> QED
  BY <1>1, <1>2, InitTypes, PTL DEF Spec

\* For any number of replicas, a replica never drops the shutdown of a unit because of a
\* rate key of its own (lines 251-272, 352-381).
THEOREM ShutdownPasses == Spec => []ShutdownNotLimited
<1>1. TypeOK /\ OwnKey => ShutdownNotLimited
  <2> SUFFICES ASSUME TypeOK, OwnKey, NEW r \in Replicas, step[r] = "exists",
                      Shutdown \in todo[r], rate[unit[r]] > 0, rateBy[unit[r]] = r
               PROVE  FALSE
    BY DEF ShutdownNotLimited
  <2>1. unit[r] \in Units
    BY DEF TypeOK
  <2>2. rate[unit[r]] # 0
    BY <2>1 DEF TypeOK
  <2> QED
    BY <2>1, <2>2 DEF OwnKey
<1> QED
  BY <1>1, Invariant, PTL

\* A replica leaves CMD_RATE_LIMIT_S between its commands to a unit (lines 253-267).
THEOREM CommandsAreSpaced == Spec => Spaced
<1>1. /\ TypeOK /\ OwnCommand
      => \A r \in Replicas : Publish(r) => (sentBy[unit[r]] # r \/ sentAge[unit[r]] = RateTtl)
  <2> SUFFICES ASSUME TypeOK, OwnCommand, NEW r \in Replicas, Publish(r), sentBy[unit[r]] = r
               PROVE  sentAge[unit[r]] = RateTtl
    OBVIOUS
  <2>1. step[r] = "publish" /\ unit[r] \in Units
    BY DEF Publish, TypeOK
  <2> QED
    BY <2>1 DEF OwnCommand
<1> QED
  BY <1>1, Invariant, PTL DEF Spaced
===============================================================================
