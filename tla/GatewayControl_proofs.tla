------------------------ MODULE GatewayControl_proofs ------------------------
(***************************************************************************)
(* Proofs about GatewayControl for any number of units, any cooldowns, any *)
(* threshold of the balancer and any poll interval.                        *)
(***************************************************************************)
EXTENDS GatewayControl, SequenceTheorems, TLAPS

Rest(u) == cool[u]["emergency"]

\* The emergency rule has fired for u and its shutdown is the next write.
Pending(u) == at = "apply" /\ current = u /\ todo # <<>> /\ Head(todo) = "off"

\* The loop comes to u before it sleeps.
Ahead(u) == (at = "poll" /\ u >= current) \/ (at = "apply" /\ u > current) \/ Pending(u)

\* How long u can have been exposed, by what is left of its cooldown and of the sleep.
Bounded(u) ==
  /\ exposed[u] # 0 => power[u] /\ link[u] /\ temp[u] = "critical" /\ at # "down"
  /\ exposed[u] <= Limit
  /\ Rest(u) > 0 /\ ~Pending(u) => exposed[u] + Rest(u) <= Cooldown["emergency"]
  /\ Rest(u) = 0 /\ at = "sleep" => exposed[u] + sleep <= Limit
  /\ Rest(u) = 0 /\ at # "sleep" /\ ~Ahead(u) => exposed[u] <= Cooldown["emergency"]

Inv ==
  /\ TypeOK
  /\ at \notin {"sleep", "down"} => sleep = 0
  /\ at \in {"balance", "sleep"} => current = 1
  /\ \A u \in Unit : Bounded(u)

LEMMA Constants ==
  /\ 1 \in Unit /\ \A u \in Unit : u \in Nat /\ u >= 1 /\ u <= NumUnits
  /\ NumUnits \in Nat /\ Interval \in Nat /\ BalanceCooldown \in Nat /\ Threshold \in Nat
  /\ \A r \in Rule : Cooldown[r] \in Nat
  /\ "emergency" \in Rule /\ Cooldown["emergency"] \in Nat /\ Limit \in Nat
  /\ Limit = Cooldown["emergency"] + Interval
BY GatewayAssumption DEF Unit, Rule, Limit

LEMMA InitInv == Init => Inv
<1> SUFFICES ASSUME Init PROVE Inv
  OBVIOUS
<1> USE Constants
<1>1. TypeOK
  BY DEF Init, TypeOK, NoJob, Commands, Action
<1>2. \A u \in Unit : Bounded(u)
  BY DEF Init, Bounded, Rest, Pending, Ahead
<1> QED
  BY <1>1, <1>2 DEF Init, Inv

\* The history of a step that takes no time: it is kept or forgotten.
LEMMA Watched ==
  ASSUME TypeOK, NEW n \in {0, 1}, Watch(n)
  PROVE  /\ exposed' \in [Unit -> Nat]
         /\ \A u \in Unit : exposed'[u] # 0 =>
              power'[u] /\ link'[u] /\ temp'[u] = "critical" /\ at' # "down"
         /\ \A u \in Unit : exposed'[u] <= exposed[u] + n
BY Constants DEF TypeOK, Watch

\* A step of the client's thread or of the units leaves the bounds of every unit as they are.
LEMMA Aside ==
  ASSUME Inv, Watch(0), UNCHANGED <<loopVars, cool>>
  PROVE  /\ at' \notin {"sleep", "down"} => sleep' = 0
         /\ at' \in {"balance", "sleep"} => current' = 1
         /\ \A u \in Unit : Bounded(u)'
<1> TypeOK
  BY DEF Inv
<1>1. /\ exposed \in [Unit -> Nat] /\ exposed' \in [Unit -> Nat] /\ sleep \in Nat
      /\ \A u \in Unit : Rest(u) \in Nat /\ Rest(u)' = Rest(u)
      /\ at' = at /\ sleep' = sleep
  <2>1. exposed' \in [Unit -> Nat]
    BY Watched
  <2>2. exposed \in [Unit -> Nat] /\ sleep \in Nat /\ cool \in [Unit -> [Rule -> Nat]]
    BY Constants DEF TypeOK
  <2>3. \A u \in Unit : Rest(u) \in Nat /\ Rest(u)' = Rest(u)
    <3> "emergency" \in Rule
      BY DEF Rule
    <3> QED
      BY <2>2 DEF Rest
  <2>4. at' = at /\ sleep' = sleep
    BY DEF loopVars
  <2> QED
    BY <2>1, <2>2, <2>3, <2>4
<1>2. \A u \in Unit : (Pending(u) <=> Pending(u)') /\ (Ahead(u) <=> Ahead(u)')
  BY DEF Pending, Ahead, loopVars
<1>3. ASSUME NEW u \in Unit PROVE Bounded(u)'
  <2>1. /\ exposed'[u] # 0 => power'[u] /\ link'[u] /\ temp'[u] = "critical" /\ at' # "down"
        /\ exposed'[u] <= exposed[u]
        /\ exposed[u] \in Nat /\ exposed'[u] \in Nat
    BY <1>1, Watched
  <2>2. Bounded(u)
    BY DEF Inv
  <2> QED
    BY <1>1, <1>2, <2>1, <2>2, Constants DEF Bounded
<1> QED
  BY <1>3 DEF Inv, loopVars

\* Writing keeps the types of what it writes.
LEMMA WriteType ==
  ASSUME TypeOK, NEW u \in Unit,
         \/ \E on \in BOOLEAN : SwitchTo(u, on)
         \/ \E who \in {"rule", "command"} : SetpointBy(u, who)
         \/ Missed(u) \/ Raises(u) \/ UNCHANGED <<connected, power, setBy>>
  PROVE  connected' \in [Unit -> BOOLEAN] /\ power' \in [Unit -> BOOLEAN]
         /\ setBy' \in [Unit -> {"rule", "command"}]
BY DEF TypeOK, SwitchTo, SetpointBy, Written, Missed, Raises

-------------------------------------------------------------------------------
(* Types *)

LEMMA ActionsType == \A r \in Rule : Actions(r) \in Seq(Action)
<1>1. <<"off", "setpoint">> \in Seq(Action)
  BY DEF Action
<1>2. <<"setpoint">> \in Seq(Action)
  BY DEF Action
<1> QED
  BY <1>1, <1>2, Zenon DEF Actions

LEMMA LoopType == ASSUME TypeOK, Loop PROVE TypeOK' \/ ~(exposed' \in [Unit -> Nat])
<1> SUFFICES ASSUME exposed' \in [Unit -> Nat] PROVE TypeOK'
  OBVIOUS
<1> USE Constants
<1> DEFINE Rewritten == connected' \in [Unit -> BOOLEAN] /\ power' \in [Unit -> BOOLEAN]
                        /\ setBy' \in [Unit -> {"rule", "command"}]
<1>1. CASE Poll
  <2>1. PICK l \in Load :
          /\ latest' = [latest EXCEPT ![current] = l]
          /\ cool' = [cool EXCEPT ![current] = [r \in Rule |-> Rests(current, r, temp[current], l)]]
          /\ todo' = (IF Fires(current, "emergency", temp[current], l) THEN Actions("emergency") ELSE <<>>)
                     \o (IF Fires(current, "high", temp[current], l) THEN Actions("high") ELSE <<>>)
                     \o (IF Fires(current, "save", temp[current], l) THEN Actions("save") ELSE <<>>)
    BY <1>1 DEF Poll
  <2>2. \A r \in Rule : Rests(current, r, temp[current], l) \in Nat
                        /\ Rests(current, r, temp[current], l) <= Cooldown[r]
    BY DEF TypeOK, Rests
  <2>3. /\ cool' \in [Unit -> [Rule -> Nat]]
        /\ \A u \in Unit : \A r \in Rule : cool'[u][r] <= Cooldown[r]
    BY <2>1, <2>2 DEF TypeOK
  <2>4. \A r \in Rule : Actions(r) \in Seq(Action)
    BY ActionsType
  <2>5. <<>> \in Seq(Action) /\ \A s, t \in Seq(Action) : s \o t \in Seq(Action)
    BY ConcatProperties, EmptySeq
  <2>6. todo' \in Seq(Action)
    BY <2>1, <2>4, <2>5 DEF Rule
  <2>7. latest' \in [Unit -> Load \cup {"none"}] /\ connected' \in [Unit -> BOOLEAN]
    BY <1>1, <2>1 DEF TypeOK, Poll
  <2> QED
    BY <1>1, <2>3, <2>6, <2>7 DEF TypeOK, Poll
<1>2. CASE PollFails
  <2>1. current' \in Unit /\ at' \in {"poll", "balance"}
    BY <1>2 DEF PollFails, Advance, TypeOK, Unit
  <2>2. connected' \in [Unit -> BOOLEAN]
    BY <1>2 DEF PollFails, TypeOK
  <2> QED
    BY <1>2, <2>1, <2>2 DEF TypeOK, PollFails
<1>3. CASE Apply
  <2>1. Rewritten
    BY <1>3, WriteType DEF TypeOK, Apply
  <2>2. todo' \in Seq(Action)
    BY <1>3, HeadTailProperties DEF TypeOK, Apply
  <2> QED
    BY <1>3, <2>1, <2>2 DEF TypeOK, Apply
<1>4. CASE Applied
  <2>1. current' \in Unit /\ at' \in {"poll", "balance"}
    BY <1>4 DEF Applied, Advance, TypeOK, Unit
  <2> QED
    BY <1>4, <2>1 DEF TypeOK, Applied
<1>5. CASE Balance
  <2>1. PICK u \in Unit : (SwitchTo(u, TRUE) \/ Missed(u)) /\ alone' = (alone /\ job.unit # u)
    BY <1>5 DEF Balance, Idlest
  <2>2. Rewritten
    BY <2>1, WriteType
  <2>3. alone' \in BOOLEAN
    BY <2>1, Zenon
  <2>4. /\ at' = "sleep" /\ sleep' = Interval /\ balanced' = BalanceCooldown
        /\ UNCHANGED <<current, todo, cool, latest, job, jobAt, link, temp>>
    BY <1>5, Zenon DEF Balance, Asleep
  <2>5. sleep' \in 0..Interval /\ balanced' \in 0..BalanceCooldown
    BY <2>4
  <2>6. at' \in {"poll", "apply", "balance", "sleep", "down"}
    BY <2>4
  <2>7. TypeOK' <=> /\ at' \in {"poll", "apply", "balance", "sleep", "down"}
                    /\ sleep' \in 0..Interval /\ balanced' \in 0..BalanceCooldown
                    /\ Rewritten /\ exposed' \in [Unit -> Nat] /\ alone' \in BOOLEAN
    BY <2>4, Zenon DEF TypeOK
  <2> QED
    BY <2>2, <2>3, <2>5, <2>6, <2>7
<1>6. CASE NoBalance
  BY <1>6 DEF TypeOK, NoBalance, Asleep
<1>7. CASE LoopDies
  <2>1. UNCHANGED <<connected, power, setBy>>
    BY <1>7 DEF LoopDies, Raises
  <2> QED
    BY <1>7, <2>1 DEF TypeOK, LoopDies
<1>8. CASE Wake
  BY <1>8 DEF TypeOK, Wake
<1> QED
  BY <1>1, <1>2, <1>3, <1>4, <1>5, <1>6, <1>7, <1>8 DEF Loop

LEMMA AsideType ==
  ASSUME TypeOK, exposed' \in [Unit -> Nat],
         Thread \/ Receive \/ \E u \in Unit : Link(u) \/ Warm(u)
  PROVE  TypeOK'
<1> USE Constants
<1>1. job.unit \in Unit /\ job.status \in {"absent", "ON", "OFF"}
  BY DEF TypeOK, Commands
<1>2. NoJob \in Commands
  BY DEF NoJob, Commands
<1>3. CASE ApplyTarget
  <2>1. connected' \in [Unit -> BOOLEAN] /\ power' \in [Unit -> BOOLEAN]
        /\ setBy' \in [Unit -> {"rule", "command"}]
    BY <1>1, <1>3, WriteType DEF ApplyTarget
  <2> QED
    BY <1>3, <2>1 DEF TypeOK, ApplyTarget
<1>4. CASE ApplyStatus
  <2>1. connected' \in [Unit -> BOOLEAN] /\ power' \in [Unit -> BOOLEAN]
        /\ setBy' \in [Unit -> {"rule", "command"}]
    <3>1. (job.status = "ON") \in BOOLEAN
      OBVIOUS
    <3> QED
      BY <1>1, <1>4, <3>1, WriteType DEF ApplyStatus
  <2> QED
    BY <1>4, <2>1 DEF TypeOK, ApplyStatus
<1>5. CASE Ack
  BY <1>2, <1>5 DEF TypeOK, Ack, JobEnds
<1>6. CASE Abandon
  <2>1. UNCHANGED <<connected, power, setBy>>
    BY <1>6 DEF Abandon, Raises
  <2> QED
    BY <1>2, <1>6, <2>1 DEF TypeOK, Abandon, JobEnds
<1>7. CASE Receive
  <2>1. PICK c \in Commands : job' = c /\ alone' = link[c.unit]
    BY <1>7 DEF Receive
  <2>2. link[c.unit] \in BOOLEAN
    BY DEF TypeOK, Commands
  <2> QED
    BY <1>7, <2>1, <2>2 DEF TypeOK, Receive
<1>8. ASSUME NEW u \in Unit, Link(u) PROVE TypeOK'
  BY <1>8 DEF TypeOK, Link
<1>9. ASSUME NEW u \in Unit, Warm(u) PROVE TypeOK'
  <2>1. temp' \in [Unit -> Temp]
    BY <1>9 DEF TypeOK, Warm
  <2> QED
    BY <1>9, <2>1 DEF TypeOK, Warm
<1> QED
  BY <1>3, <1>4, <1>5, <1>6, <1>7, <1>8, <1>9 DEF Thread

LEMMA RestType == ASSUME TypeOK PROVE Restart /\ exposed' \in [Unit -> Nat] => TypeOK'
<1> SUFFICES ASSUME Restart, exposed' \in [Unit -> Nat] PROVE TypeOK'
  OBVIOUS
<1>1. NoJob \in Commands
  BY Constants DEF NoJob, Commands
<1>2. cool' \in [Unit -> [Rule -> Nat]] /\ \A u \in Unit : \A r \in Rule : cool'[u][r] <= Cooldown[r]
  BY Constants DEF Restart
<1>3. todo' \in Seq(Action) /\ sleep' \in 0..Interval /\ balanced' \in 0..BalanceCooldown
  BY Constants, EmptySeq DEF Restart
<1> QED
  BY <1>1, <1>2, <1>3, Constants DEF TypeOK, Restart, JobEnds

LEMMA TickType == ASSUME TypeOK PROVE Tick /\ exposed' \in [Unit -> Nat] => TypeOK'
<1> SUFFICES ASSUME Tick, exposed' \in [Unit -> Nat] PROVE TypeOK'
  OBVIOUS
<1>1. sleep' \in 0..Interval /\ balanced' \in 0..BalanceCooldown
  BY Constants DEF TypeOK, Tick, Less
<1>2. \A u \in Unit : \A r \in Rule : Less(cool[u][r]) \in Nat /\ Less(cool[u][r]) <= Cooldown[r]
  <2> SUFFICES ASSUME NEW u \in Unit, NEW r \in Rule
               PROVE  Less(cool[u][r]) \in Nat /\ Less(cool[u][r]) <= Cooldown[r]
    OBVIOUS
  <2>1. cool[u][r] \in Nat /\ cool[u][r] <= Cooldown[r] /\ Cooldown[r] \in Nat
    BY Constants DEF TypeOK
  <2> QED
    BY <2>1 DEF Less
<1>3. cool' \in [Unit -> [Rule -> Nat]] /\ \A u \in Unit : \A r \in Rule : cool'[u][r] <= Cooldown[r]
  BY <1>2 DEF Tick
<1> QED
  BY <1>1, <1>3 DEF TypeOK, Tick

-------------------------------------------------------------------------------
(* Exposure *)

LEMMA Facts ==
  ASSUME Inv, NEW u \in Unit
  PROVE  /\ TypeOK /\ Bounded(u)
         /\ exposed[u] \in Nat /\ sleep \in Nat /\ sleep <= Interval
         /\ Rest(u) \in Nat /\ Rest(u) <= Cooldown["emergency"]
         /\ current \in Nat /\ current >= 1 /\ u \in Nat /\ u >= 1
<1>1. TypeOK /\ Bounded(u)
  BY DEF Inv
<1>2. exposed[u] \in Nat /\ sleep \in Nat /\ sleep <= Interval /\ current \in Unit
  BY <1>1, Constants DEF TypeOK
<1>3. cool[u]["emergency"] \in Nat /\ cool[u]["emergency"] <= Cooldown["emergency"]
  BY <1>1, Constants DEF TypeOK
<1> QED
  BY <1>1, <1>2, <1>3, Constants DEF Rest

\* What the loop does to a unit it is not dealing with: it may have come closer.
LEMMA Untouched ==
  ASSUME Inv, Watch(0), NEW u \in Unit, Rest(u)' = Rest(u),
         at # "sleep", at' # "sleep", sleep' = sleep,
         Ahead(u) => Ahead(u)', ~Pending(u)
  PROVE  Bounded(u)'
<1>1. /\ exposed'[u] # 0 => power'[u] /\ link'[u] /\ temp'[u] = "critical" /\ at' # "down"
      /\ exposed'[u] <= exposed[u] /\ exposed'[u] \in Nat
  BY Watched, Facts
<1> QED
  BY <1>1, Facts, Constants DEF Bounded

\* A unit that is switched off, or does not answer, is not exposed.
LEMMA Unexposed ==
  ASSUME Inv, Watch(0), NEW u \in Unit, Rest(u)' \in Nat, Rest(u)' <= Cooldown["emergency"],
         sleep' \in 0..Interval,
         ~power'[u] \/ ~link'[u] \/ temp'[u] # "critical" \/ at' = "down"
  PROVE  Bounded(u)'
<1>1. exposed'[u] = 0
  BY DEF Watch
<1> QED
  BY <1>1, Constants DEF Bounded

LEMMA PollBounded ==
  ASSUME Inv, Watch(0), Poll, NEW u \in Unit
  PROVE  Bounded(u)'
<1>0. TypeOK
  BY Facts
<1>1. PICK l \in Load :
        /\ cool' = [cool EXCEPT ![current] = [r \in Rule |-> Rests(current, r, temp[current], l)]]
        /\ todo' = (IF Fires(current, "emergency", temp[current], l) THEN Actions("emergency") ELSE <<>>)
                   \o (IF Fires(current, "high", temp[current], l) THEN Actions("high") ELSE <<>>)
                   \o (IF Fires(current, "save", temp[current], l) THEN Actions("save") ELSE <<>>)
  BY DEF Poll
<1>2. /\ at = "poll" /\ at' = "apply" /\ current' = current /\ sleep' = sleep
      /\ link' = link /\ power' = power /\ temp' = temp
      /\ sleep \in 0..Interval /\ current \in Unit
  BY <1>0 DEF Poll, TypeOK
<1>3. CASE u # current
  <2>1. Rest(u)' = Rest(u)
    BY <1>0, <1>1, <1>3 DEF Rest, TypeOK
  <2>2. ~Pending(u) /\ (Ahead(u) => Ahead(u)')
    BY <1>2, <1>3, Constants DEF Pending, Ahead
  <2> QED
    BY <1>2, <2>1, <2>2, Untouched
<1>4. CASE u = current
  <2>1. Rest(u)' = Rests(u, "emergency", temp[u], l)
    BY <1>0, <1>1, <1>4, Constants DEF Rest, TypeOK
  <2>2. Rest(u)' \in Nat /\ Rest(u)' <= Cooldown["emergency"]
    BY <1>4, <2>1, Facts, Constants DEF Rests, Rest
  <2>3. CASE temp[u] # "critical"
    BY <1>2, <2>2, <2>3, Unexposed
  <2>4. CASE temp[u] = "critical" /\ Rest(u) # 0
    <3>1. Rest(u)' = Rest(u)
      BY <2>1, <2>4 DEF Rests, Fires, Rest
    <3>2. Rest(u) > 0 /\ ~Pending(u)
      BY <1>2, <2>4, Facts DEF Pending
    <3>3. exposed[u] + Rest(u) <= Cooldown["emergency"] /\ exposed[u] <= Limit
      BY <3>2, Facts DEF Bounded
    <3>4. /\ exposed'[u] # 0 => power'[u] /\ link'[u] /\ temp'[u] = "critical" /\ at' # "down"
          /\ exposed'[u] <= exposed[u] /\ exposed'[u] \in Nat
      BY Watched, Facts
    <3> QED
      BY <1>2, <3>1, <3>2, <3>3, <3>4, Facts, Constants DEF Bounded
  <2>5. CASE temp[u] = "critical" /\ Rest(u) = 0
    <3>1. Fires(current, "emergency", temp[current], l)
      BY <1>4, <2>5 DEF Fires, Holds, Rest
    <3>2. Rest(u)' = Cooldown["emergency"]
      BY <1>4, <2>1, <3>1 DEF Rests
    <3>3. todo' # <<>> /\ Head(todo') = "off"
      <4>1. \A s, t \in Seq(Action) :
              LET q == (<<"off", "setpoint">> \o s) \o t IN q # <<>> /\ Head(q) = "off"
        <5> SUFFICES ASSUME NEW s \in Seq(Action), NEW t \in Seq(Action)
                     PROVE  LET q == (<<"off", "setpoint">> \o s) \o t IN q # <<>> /\ Head(q) = "off"
          OBVIOUS
        <5> DEFINE p == <<"off", "setpoint">> \o s
        <5>1. /\ p \in Seq(Action) /\ Len(p) = 2 + Len(s) /\ p[1] = "off"
          BY ConcatProperties, LenProperties DEF Action
        <5>2. /\ p \o t \in Seq(Action) /\ Len(p \o t) = Len(p) + Len(t) /\ (p \o t)[1] = p[1]
          <6> HIDE DEF p
          <6>1. Len(s) \in Nat /\ Len(t) \in Nat /\ Len(p) >= 1
            BY <5>1, LenProperties
          <6>2. p \o t \in Seq(Action) /\ Len(p \o t) = Len(p) + Len(t)
            BY <5>1, ConcatProperties
          <6>3. 1 \in 1..(Len(p) + Len(t)) /\ 1 <= Len(p) /\ Len(p) \in Nat
            BY <5>1, <6>1, LenProperties
          <6>4. (p \o t)[1] = p[1]
            BY <5>1, <6>3, ConcatProperties
          <6> QED
            BY <6>2, <6>4
        <5>3. Len(s) \in Nat /\ Len(t) \in Nat
          BY LenProperties
        <5> HIDE DEF p
        <5>4. Len(p \o t) > 0
          BY <5>1, <5>2, <5>3
        <5>5. Head(p \o t) = (p \o t)[1] /\ p \o t # <<>>
          BY <5>2, <5>4, EmptySeq, HeadTailProperties
        <5> QED
          BY <5>1, <5>2, <5>5 DEF p
      <4>2. Actions("emergency") = <<"off", "setpoint">>
        BY DEF Actions
      <4>3. <<>> \in Seq(Action) /\ Actions("high") \in Seq(Action) /\ Actions("save") \in Seq(Action)
        BY EmptySeq, ActionsType DEF Rule
      <4> QED
        BY <1>1, <3>1, <4>1, <4>2, <4>3
    <3>4. Pending(u)'
      BY <1>2, <1>4, <3>3 DEF Pending
    <3>5. exposed'[u] <= exposed[u] /\ exposed[u] <= Limit /\ exposed'[u] \in Nat
          /\ (exposed'[u] # 0 => power'[u] /\ link'[u] /\ temp'[u] = "critical" /\ at' # "down")
      BY Watched, Facts DEF Bounded
    <3> QED
      BY <1>2, <3>2, <3>4, <3>5, Facts, Constants DEF Bounded, Ahead
  <2> QED
    BY <2>3, <2>4, <2>5
<1> QED
  BY <1>3, <1>4

\* The loop goes on to the next unit: u was dealt with, or it is still ahead.
LEMMA AdvanceBounded ==
  ASSUME Inv, Watch(0), at \in {"poll", "apply"}, Advance, UNCHANGED <<cool, sleep, link>>,
         NEW u \in Unit,
         at = "poll" => ~link[current],
         at = "apply" => todo = <<>>
  PROVE  Bounded(u)'
<1>1. TypeOK /\ sleep = 0 /\ current \in Unit /\ Rest(u)' = Rest(u) /\ at' \in {"poll", "balance"}
  BY Facts DEF Inv, Rest, TypeOK, Advance
<1>2. CASE at = "poll" /\ u = current
  <2>1. ~link'[u] /\ Rest(u)' \in Nat /\ Rest(u)' <= Cooldown["emergency"] /\ sleep' \in 0..Interval
    BY <1>1, <1>2, Facts, Constants
  <2> QED
    BY <2>1, Unexposed
<1>3. CASE ~(at = "poll" /\ u = current)
  <2>1. ~Pending(u)
    BY DEF Pending
  <2>2. Ahead(u) => u > current
    BY <1>3, <2>1, Facts DEF Ahead
  <2>3. u > current => current < NumUnits
    BY <1>1, Constants
  <2>4. Ahead(u) => Ahead(u)'
    BY <1>1, <2>2, <2>3, Facts DEF Ahead, Advance
  <2> QED
    BY <1>1, <2>1, <2>4, Untouched
<1> QED
  BY <1>2, <1>3

LEMMA ApplyBounded ==
  ASSUME Inv, Watch(0), Apply, NEW u \in Unit
  PROVE  Bounded(u)'
<1>1. /\ TypeOK /\ sleep = 0 /\ current \in Unit /\ Rest(u)' = Rest(u)
      /\ at = "apply" /\ at' = "apply" /\ current' = current /\ sleep' = sleep
      /\ link' = link /\ todo # <<>>
  BY Facts DEF Inv, Rest, TypeOK, Apply
<1>2. CASE Pending(u)
  <2>1. ~power'[u] \/ ~link'[u]
    BY <1>1, <1>2 DEF Pending, Apply, SwitchTo, SetpointBy, Missed, TypeOK
  <2>2. Rest(u)' \in Nat /\ Rest(u)' <= Cooldown["emergency"] /\ sleep' \in 0..Interval
    BY <1>1, Facts, Constants
  <2> QED
    BY <2>1, <2>2, Unexposed
<1>3. CASE ~Pending(u)
  <2>1. Ahead(u) => Ahead(u)'
    BY <1>1, <1>3, Facts DEF Ahead
  <2> QED
    BY <1>1, <1>3, <2>1, Untouched
<1> QED
  BY <1>2, <1>3

\* The loop goes to sleep when every unit was dealt with, and wakes when all are ahead.
LEMMA SleepBounded ==
  ASSUME Inv, Watch(0), Balance \/ NoBalance \/ Wake, NEW u \in Unit
  PROVE  Bounded(u)'
<1>1. /\ TypeOK /\ Rest(u)' = Rest(u) /\ Rest(u) \in Nat /\ exposed[u] \in Nat /\ current' = current
      /\ at \in {"balance", "sleep"} /\ current = 1
  BY Facts DEF Inv, Rest, Balance, NoBalance, Wake
<1>2. /\ exposed'[u] # 0 => power'[u] /\ link'[u] /\ temp'[u] = "critical" /\ at' # "down"
      /\ exposed'[u] <= exposed[u] /\ exposed'[u] \in Nat
  BY <1>1, Watched
<1>3. CASE Balance \/ NoBalance
  <2>1. at = "balance" /\ at' = "sleep" /\ sleep' = Interval
    BY <1>3 DEF Balance, NoBalance, Asleep
  <2>2. ~Pending(u) /\ ~Ahead(u)
    BY <2>1 DEF Pending, Ahead
  <2> QED
    BY <1>1, <1>2, <2>1, <2>2, Facts, Constants DEF Bounded
<1>4. CASE Wake
  <2>1. at = "sleep" /\ at' = "poll" /\ sleep = 0 /\ sleep' = 0
    BY <1>4 DEF Wake
  <2>2. ~Pending(u) /\ Ahead(u)'
    BY <1>1, <2>1, Facts DEF Pending, Ahead
  <2> QED
    BY <1>1, <1>2, <2>1, <2>2, Facts, Constants DEF Bounded
<1> QED
  BY <1>3, <1>4

LEMMA LoopInv == Inv /\ Loop /\ Watch(0) => Inv'
<1> SUFFICES ASSUME Inv, Loop, Watch(0) PROVE Inv'
  OBVIOUS
<1>1. TypeOK
  BY DEF Inv
<1>2. TypeOK'
  BY <1>1, Watched, LoopType
<1>3. ASSUME NEW u \in Unit PROVE Bounded(u)'
  <2>1. CASE Poll
    BY <2>1, PollBounded
  <2>2. CASE PollFails
    <3>1. /\ at = "poll" /\ ~link[current] /\ Advance
          /\ UNCHANGED <<cool, sleep, link>>
      BY <2>2 DEF PollFails
    <3> QED
      BY <3>1, AdvanceBounded
  <2>3. CASE Apply
    BY <2>3, ApplyBounded
  <2>4. CASE Applied
    <3>1. /\ at = "apply" /\ todo = <<>> /\ Advance
          /\ UNCHANGED <<cool, sleep, link>>
      BY <2>4 DEF Applied
    <3> QED
      BY <3>1, AdvanceBounded
  <2>5. CASE Balance \/ NoBalance \/ Wake
    BY <2>5, SleepBounded
  <2>6. CASE LoopDies
    <3>1. /\ at' = "down" /\ Rest(u)' = Rest(u) /\ sleep' = sleep
      BY <2>6 DEF LoopDies, Rest
    <3>2. Rest(u)' \in Nat /\ Rest(u)' <= Cooldown["emergency"] /\ sleep' \in 0..Interval
      BY <3>1, Facts, Constants
    <3> QED
      BY <3>1, <3>2, Unexposed
  <2> QED
    BY <2>1, <2>2, <2>3, <2>4, <2>5, <2>6 DEF Loop
<1>4. (at' \notin {"sleep", "down"} => sleep' = 0) /\ (at' \in {"balance", "sleep"} => current' = 1)
  <2>1. \/ at' \notin {"sleep", "down"} /\ sleep' = sleep /\ at \notin {"sleep", "down"}
        \/ at = "sleep" /\ sleep' = 0
        \/ at' \in {"sleep", "down"}
    BY DEF Loop, Poll, PollFails, Apply, Applied, Balance, NoBalance, LoopDies, Wake, Advance, Asleep
  <2>2. at' \in {"balance", "sleep"} => current' = 1 \/ (at = "balance" /\ current' = current)
    <3>1. CASE PollFails \/ Applied
      BY <3>1 DEF PollFails, Applied, Advance
    <3>2. CASE Balance \/ NoBalance
      BY <3>2 DEF Balance, NoBalance, Asleep
    <3>3. CASE Poll \/ Apply \/ LoopDies \/ Wake
      <4>1. at' \in {"apply", "down", "poll"}
        BY <3>3 DEF Poll, Apply, LoopDies, Wake
      <4> QED
        BY <4>1
    <3> QED
      BY <3>1, <3>2, <3>3 DEF Loop
  <2> QED
    BY <2>1, <2>2 DEF Inv
<1> QED
  BY <1>2, <1>3, <1>4 DEF Inv

LEMMA OthersInv == Inv /\ (Thread \/ Others) /\ Watch(0) => Inv'
<1> SUFFICES ASSUME Inv, Thread \/ Others, Watch(0) PROVE Inv'
  OBVIOUS
<1>1. TypeOK /\ exposed' \in [Unit -> Nat]
  BY Watched DEF Inv
<1>2. CASE Thread \/ Receive \/ \E u \in Unit : Link(u) \/ Warm(u)
  <2>1. UNCHANGED <<loopVars, cool>>
    BY <1>2 DEF Thread, ApplyTarget, ApplyStatus, Ack, Abandon, Receive, Link, Warm, loopVars
  <2>2. TypeOK'
    BY <1>1, <1>2, AsideType
  <2> QED
    BY <2>1, <2>2, Aside DEF Inv
<1>3. CASE Crash
  <2>1. TypeOK'
    BY <1>1, <1>3 DEF TypeOK, Crash
  <2>2. at' = "down" /\ UNCHANGED <<cool, sleep>>
    BY <1>3 DEF Crash
  <2>3. ASSUME NEW u \in Unit PROVE Bounded(u)'
    <3>1. Rest(u)' \in Nat /\ Rest(u)' <= Cooldown["emergency"] /\ sleep' \in 0..Interval
      BY <2>2, Facts, Constants DEF Rest
    <3> QED
      BY <2>2, <3>1, Unexposed
  <2> QED
    BY <2>1, <2>2, <2>3 DEF Inv
<1>4. CASE Restart
  <2>1. TypeOK'
    BY <1>1, <1>4, RestType
  <2>2. /\ at' = "poll" /\ sleep' = 0 /\ \A u \in Unit : cool'[u]["emergency"] = 0
    BY <1>4, Constants DEF Restart
  <2>3. at = "down" /\ UNCHANGED <<link, power, temp>>
    BY <1>4 DEF Restart
  <2>4. ASSUME NEW u \in Unit PROVE Bounded(u)'
    <3>1. exposed'[u] <= exposed[u] /\ exposed[u] = 0 /\ exposed'[u] \in Nat
      BY <1>1, <2>3, Watched, Facts DEF Bounded
    <3>2. exposed'[u] = 0 /\ Rest(u)' = 0 /\ at' = "poll"
      BY <2>2, <3>1 DEF Rest
    <3> QED
      BY <3>2, Constants DEF Bounded
  <2> QED
    BY <2>1, <2>2, <2>4 DEF Inv
<1> QED
  BY <1>2, <1>3, <1>4 DEF Others

\* Time passes while the loop sleeps: what an exposed unit gains, its cooldown or the sleep loses.
LEMMA TickInv == Inv /\ Tick /\ Watch(1) => Inv'
<1> SUFFICES ASSUME Inv, Tick, Watch(1) PROVE Inv'
  OBVIOUS
<1>1. TypeOK /\ exposed' \in [Unit -> Nat]
  BY Watched DEF Inv
<1>2. TypeOK'
  BY <1>1, TickType
<1>3. at = "sleep" /\ at' = "sleep" /\ sleep > 0 /\ sleep' = sleep - 1 /\ current' = current
  BY DEF Tick
<1>4. ASSUME NEW u \in Unit PROVE Bounded(u)'
  <2>1. Rest(u)' = Less(Rest(u))
    BY <1>1, Constants DEF Tick, TypeOK, Rest
  <2>2. /\ exposed'[u] # 0 => power'[u] /\ link'[u] /\ temp'[u] = "critical" /\ at' # "down"
        /\ exposed'[u] <= exposed[u] + 1 /\ exposed'[u] \in Nat
    BY <1>1, Watched
  <2>3. ~Pending(u) /\ ~Pending(u)'
    BY <1>3 DEF Pending
  <2>4. CASE Rest(u) = 0
    <3>1. Rest(u)' = 0 /\ exposed[u] + sleep <= Limit
      BY <1>3, <2>1, <2>4, Facts DEF Less, Bounded
    <3> QED
      BY <1>3, <2>2, <2>3, <3>1, Facts, Constants DEF Bounded
  <2>5. CASE Rest(u) > 0
    <3>1. Rest(u)' = Rest(u) - 1 /\ exposed[u] + Rest(u) <= Cooldown["emergency"]
      BY <2>1, <2>3, <2>5, Facts DEF Less, Bounded
    <3>2. sleep' + 1 <= Interval
      BY <1>3, Facts, Constants
    <3> QED
      BY <1>3, <2>2, <2>3, <3>1, <3>2, Facts, Constants DEF Bounded
  <2> QED
    BY <2>4, <2>5, Facts
<1> QED
  BY <1>2, <1>3, <1>4 DEF Inv

LEMMA StutterInv == Inv /\ UNCHANGED vars => Inv'
<1> SUFFICES ASSUME Inv, UNCHANGED vars PROVE Inv'
  OBVIOUS
<1>1. TypeOK'
  BY DEF Inv, TypeOK, vars
<1>2. \A u \in Unit : Bounded(u)'
  BY DEF Inv, Bounded, Rest, Pending, Ahead, vars
<1> QED
  BY <1>1, <1>2 DEF Inv, vars

LEMMA NextInv == Inv /\ [Next]_vars => Inv'
BY LoopInv, OthersInv, TickInv, StutterInv DEF Next

\* Every variable keeps its type.
THEOREM TypeCorrect == Spec => []TypeOK
<1>1. Inv => TypeOK
  BY DEF Inv
<1> QED
  BY <1>1, InitInv, NextInv, PTL DEF Spec

\* Whatever commands and the balancer do, a critical unit that answers is on for no longer than
\* the emergency rule's cooldown and a poll cycle: each of any number of units behind a gateway.
THEOREM ExposureIsBounded == Spec => []BoundedExposure
<1>1. Inv => BoundedExposure
  BY DEF Inv, Bounded, BoundedExposure
<1> QED
  BY <1>1, InitInv, NextInv, PTL DEF Spec

-------------------------------------------------------------------------------
(* Commands *)

\* What a command has done to its unit so far, as long as it met no other writer and no failing
\* link.
Whole ==
  alone /\ jobAt # "idle" =>
    /\ link[job.unit]
    /\ jobAt \in {"status", "ack"} /\ job.target = "given" => setBy[job.unit] = "command"
    /\ power[job.unit] = IF jobAt = "ack" /\ job.status # "absent" THEN job.status = "ON" ELSE job.was

\* A step that is not the command's, and does not touch its unit while the command is alone.
LEMMA WholeAside ==
  ASSUME TypeOK, Whole, UNCHANGED <<job, jobAt>>, alone' => alone,
         alone' => /\ link'[job.unit] = link[job.unit] /\ power'[job.unit] = power[job.unit]
                   /\ setBy'[job.unit] = setBy[job.unit]
  PROVE  Whole'
BY DEF Whole

\* A write to another unit.
LEMMA WriteElsewhere ==
  ASSUME TypeOK, NEW u \in Unit, job.unit # u,
         \/ \E on \in BOOLEAN : SwitchTo(u, on)
         \/ \E who \in {"rule", "command"} : SetpointBy(u, who)
         \/ Missed(u)
  PROVE  power'[job.unit] = power[job.unit] /\ setBy'[job.unit] = setBy[job.unit]
<1>1. job.unit \in Unit
  BY DEF TypeOK, Commands
<1> QED
  BY <1>1 DEF TypeOK, SwitchTo, SetpointBy, Missed

LEMMA WholeLoop == ASSUME TypeOK, Whole, Loop PROVE Whole'
<1>1. CASE Apply
  <2>1. /\ UNCHANGED <<job, jobAt, link>> /\ alone' = (alone /\ job.unit # current) /\ current \in Unit
        /\ (\E on \in BOOLEAN : SwitchTo(current, on))
           \/ (\E who \in {"rule", "command"} : SetpointBy(current, who)) \/ Missed(current)
    BY <1>1 DEF Apply, TypeOK
  <2>2. job.unit # current => power'[job.unit] = power[job.unit] /\ setBy'[job.unit] = setBy[job.unit]
    BY <2>1, WriteElsewhere
  <2> QED
    BY <2>1, <2>2, WholeAside
<1>2. CASE Balance
  <2>1. PICK u \in Unit : (SwitchTo(u, TRUE) \/ Missed(u)) /\ alone' = (alone /\ job.unit # u)
    BY <1>2 DEF Balance, Idlest
  <2>2. UNCHANGED <<job, jobAt, link>>
    BY <1>2 DEF Balance
  <2>3. job.unit # u => power'[job.unit] = power[job.unit] /\ setBy'[job.unit] = setBy[job.unit]
    BY <2>1, WriteElsewhere
  <2> QED
    BY <2>1, <2>2, <2>3, WholeAside
<1>3. CASE Poll \/ PollFails \/ Applied \/ NoBalance \/ LoopDies \/ Wake
  <2>1. UNCHANGED <<job, jobAt, link, alone, power, setBy>>
    BY <1>3 DEF Poll, PollFails, Applied, NoBalance, LoopDies, Raises, Wake
  <2> QED
    BY <2>1, WholeAside
<1> QED
  BY <1>1, <1>2, <1>3 DEF Loop

LEMMA WholeThread == ASSUME TypeOK, Whole, Thread PROVE Whole'
<1>0. job.unit \in Unit
  BY DEF TypeOK, Commands
<1>1. CASE ApplyTarget
  <2>1. /\ jobAt = "target" /\ jobAt' = "status" /\ UNCHANGED <<job, link, alone>>
        /\ job.target = "given" => SetpointBy(job.unit, "command") \/ Missed(job.unit)
        /\ job.target # "given" => UNCHANGED <<power, setBy>>
    BY <1>1 DEF ApplyTarget
  <2>2. UNCHANGED power /\ (job.target = "given" /\ link[job.unit] => setBy'[job.unit] = "command")
    BY <1>0, <2>1 DEF SetpointBy, Missed, TypeOK
  <2> QED
    BY <2>1, <2>2 DEF Whole
<1>2. CASE ApplyStatus
  <2>1. /\ jobAt = "status" /\ jobAt' = "ack" /\ UNCHANGED <<job, link, alone>>
        /\ job.status # "absent" => SwitchTo(job.unit, job.status = "ON") \/ Missed(job.unit)
        /\ job.status = "absent" => UNCHANGED <<power, setBy>>
    BY <1>2 DEF ApplyStatus
  <2>2. /\ UNCHANGED setBy
        /\ job.status # "absent" /\ link[job.unit] => power'[job.unit] = (job.status = "ON")
        /\ job.status = "absent" => UNCHANGED power
    BY <1>0, <2>1 DEF SwitchTo, Missed, TypeOK
  <2> QED
    BY <2>1, <2>2 DEF Whole
<1>3. CASE Ack \/ Abandon
  BY <1>3 DEF Ack, Abandon, JobEnds, Whole
<1> QED
  BY <1>1, <1>2, <1>3 DEF Thread

LEMMA WholeOthers == ASSUME TypeOK, Whole, Others \/ Tick \/ UNCHANGED vars PROVE Whole'
<1>0. job.unit \in Unit
  BY DEF TypeOK, Commands
<1>1. CASE Receive
  <2>1. PICK c \in Commands : c.was = power[c.unit] /\ job' = c /\ alone' = link[c.unit]
    BY <1>1 DEF Receive
  <2>2. jobAt' = "target" /\ UNCHANGED <<link, power, setBy>>
    BY <1>1 DEF Receive
  <2> QED
    BY <2>1, <2>2 DEF Whole
<1>2. ASSUME NEW u \in Unit, Link(u) PROVE Whole'
  <2>1. /\ alone' = (alone /\ job.unit # u) /\ UNCHANGED <<job, jobAt, power, setBy>>
        /\ job.unit # u => link'[job.unit] = link[job.unit]
    BY <1>0, <1>2 DEF Link, TypeOK
  <2> QED
    BY <2>1, WholeAside
<1>3. CASE Restart
  BY <1>3 DEF Restart, JobEnds, Whole
<1>4. CASE (\E u \in Unit : Warm(u)) \/ Crash \/ Tick \/ UNCHANGED vars
  <2>1. UNCHANGED <<job, jobAt, link, alone, power, setBy>>
    BY <1>4 DEF Warm, Crash, Tick, vars
  <2> QED
    BY <2>1, WholeAside
<1> QED
  BY <1>1, <1>2, <1>3, <1>4 DEF Others

\* A command that met no other writer and no failing link is acknowledged when all of it was
\* applied and nothing else, whatever the loop does to the other units meanwhile (lines 570-592).
THEOREM CommandIsWhole == Spec => AppliedWhole
<1>1. Init => Whole
  BY DEF Init, Whole
<1>2. TypeOK /\ Whole /\ [Next]_vars => Whole'
  BY WholeLoop, WholeThread, WholeOthers DEF Next
<1>3. Spec => []Whole
  BY <1>1, <1>2, TypeCorrect, PTL DEF Spec
<1>4. Whole /\ [Next]_vars =>
        [Ack /\ alone =>
           /\ job.target = "given" => setBy[job.unit] = "command"
           /\ power[job.unit] = IF job.status = "absent" THEN job.was ELSE job.status = "ON"]_vars
  BY DEF Whole, Ack
<1> QED
  BY <1>3, <1>4, PTL DEF Spec, AppliedWhole
===============================================================================
