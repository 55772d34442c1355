---------------------------- MODULE UnitLink_proofs ----------------------------
(***************************************************************************)
(* For every buffer, burst, timeout and lag: the ring buffer implements a  *)
(* bounded queue, the burst that outlives the ONLINE mode is bounded, and  *)
(* the watchdog has a cause.                                               *)
(*                                                                         *)
(* The refinement needs no more than TypeOK, which says that head is count *)
(* slots after tail: all indices stay below 2 * Slots, so that % is one    *)
(* subtraction.  The cause needs the time: while the mode is ONLINE the    *)
(* age of the ping stays below Wrap (Fresh), so that the difference the    *)
(* watchdog computes is the true one unless a ping came in between.        *)
(***************************************************************************)
EXTENDS UnitLink, SequenceTheorems, TLAPS

Value == Messages \cup {NoMsg}

\* What is left of a burst bounds what is late.
Handed ==
  /\ late <= Burst
  /\ mode = "ONLINE" => late = 0
  /\ mqttAt = "send" => replayed < Burst /\ late <= replayed
  /\ mqttAt = "replay" /\ replayed > 0 => late <= replayed
  /\ mqttAt = "beat" => replayed = 0

\* The ping is not older than what the MQTT task and the handler may be late.
Fresh ==
  /\ eventAt = "online" => pingAge <= TaskLag
  /\ mode = "ONLINE" =>
       pingAge <= TaskLag + hbAge + (IF mqttAt = "beat" THEN Heartbeat + MqttLag ELSE 0)

\* What the watchdog has read is true as long as nothing was written.
Caused ==
  /\ wdAt \in {"start", "stop"} => wdAge = 0
  /\ wdAt \in {"elapsed", "test", "set"} /\ ~overtaken /\ (mode = "ONLINE" \/ eventAt = "online") =>
       /\ wdAge <= pingAge
       /\ wdAt = "test" /\ expired => pingAge > Timeout
       /\ wdAt = "set" => pingAge > Timeout

IInv == TypeOK /\ Handed /\ Fresh /\ Caused

-------------------------------------------------------------------------------
(* The ring *)

LEMMA Around ==
  ASSUME NEW S \in Nat \ {0}, NEW a \in 0..(S - 1), NEW k \in 0..S
  PROVE  (a + k) % S = IF a + k < S THEN a + k ELSE a + k - S
OBVIOUS

\* The items are a sequence of what the slots hold.
AreSeq ==
  /\ Items \in Seq(Value) /\ Len(Items) = count /\ count \in Nat
  /\ \A i \in 1..count : Items[i] = slots[(tail + i - 1) % Slots]

LEMMA ItemsAreSeq == TypeOK => AreSeq
<1> SUFFICES ASSUME TypeOK PROVE AreSeq
  OBVIOUS
<1> USE LinkAssumption
<1>1. \A i \in 1..count : (tail + i - 1) % Slots \in 0..(Slots - 1)
  BY DEF TypeOK
<1>2. \A i \in 1..count : slots[(tail + i - 1) % Slots] \in Value
  BY <1>1 DEF TypeOK, Value
<1>3. count \in Nat
  BY DEF TypeOK
<1>4. Items \in [1..count -> Value]
  BY <1>2 DEF Items
<1>5. Items \in Seq(Value)
  BY <1>3, <1>4, SeqDef
<1>6. Len(Items) = count
  BY <1>3, <1>4, <1>5, LenProperties
<1> QED
  BY <1>3, <1>5, <1>6 DEF Items, AreSeq

LEMMA NextItemsAreSeq == TypeOK' => AreSeq'
BY ItemsAreSeq, PTL

\* A push into a buffer that is not full puts the message behind the others.
LEMMA PushPuts ==
  ASSUME TypeOK, NEW m \in Messages, Push(m), count < Slots, TypeOK'
  PROVE  Items' = Append(Items, m)
<1> USE LinkAssumption
<1> DEFINE new == Append(Items, m)
<1>1. m \in Value
  BY DEF Value
<1>2. /\ new \in Seq(Value) /\ Len(new) = count + 1 /\ new[count + 1] = m
      /\ \A i \in 1..count : new[i] = Items[i]
  BY <1>1, ItemsAreSeq, AppendProperties DEF AreSeq
<1>3. count' = count + 1 /\ tail' = tail /\ slots' = [slots EXCEPT ![head] = m]
  BY DEF Push
<1>4. /\ Items' \in Seq(Value) /\ Len(Items') = count + 1
      /\ \A i \in 1..(count + 1) : Items'[i] = slots'[(tail + i - 1) % Slots]
  BY NextItemsAreSeq, <1>3 DEF AreSeq, Value
<1>5. ASSUME NEW i \in 1..count
      PROVE  Items'[i] = new[i]
  <2>1. (tail + i - 1) % Slots # head /\ (tail + i - 1) % Slots \in 0..(Slots - 1)
    <3>1. i - 1 \in 0..Slots /\ count \in 0..Slots /\ Slots \in Nat \ {0} /\ tail \in 0..(Slots - 1)
      BY DEF TypeOK
    <3>2. (tail + (i - 1)) % Slots = IF tail + (i - 1) < Slots THEN tail + (i - 1) ELSE tail + (i - 1) - Slots
      BY <3>1, Around
    <3>3. head = IF tail + count < Slots THEN tail + count ELSE tail + count - Slots
      BY <3>1, Around DEF TypeOK
    <3>4. tail + i - 1 = tail + (i - 1)
      BY <3>1
    <3> QED
      BY <3>1, <3>2, <3>3, <3>4
  <2>2. Items'[i] = slots'[(tail + i - 1) % Slots]
    BY <1>4, ItemsAreSeq DEF AreSeq
  <2>3. slots'[(tail + i - 1) % Slots] = slots[(tail + i - 1) % Slots]
    BY <2>1, <1>3 DEF TypeOK
  <2> QED
    BY <2>2, <2>3, <1>2, ItemsAreSeq DEF AreSeq
<1>6. Items'[count + 1] = m
  <2>1. (tail + (count + 1) - 1) % Slots = head /\ head \in 0..(Slots - 1)
    BY DEF TypeOK
  <2> QED
    BY <2>1, <1>3, <1>4, ItemsAreSeq DEF TypeOK, AreSeq
<1>7. \A i \in 1..Len(Items') : Items'[i] = new[i]
  BY <1>2, <1>4, <1>5, <1>6, ItemsAreSeq DEF AreSeq
<1> QED
  BY <1>2, <1>4, <1>7, SeqEqual

\* A pop takes the oldest out.
LEMMA PopTakes ==
  ASSUME TypeOK, Pop, TypeOK'
  PROVE  Items # <<>> /\ msg' = Head(Items) /\ Items' = Tail(Items)
<1> USE LinkAssumption
<1>1. count > 0 /\ count' = count - 1 /\ slots' = slots /\ tail' = (tail + 1) % Slots /\ msg' = slots[tail]
  BY DEF Pop, Following
<1>2. Items # <<>>
  <2>1. Len(<<>>) = 0
    BY EmptySeq
  <2>2. Len(Items) # 0
    BY <1>1, ItemsAreSeq DEF AreSeq
  <2> QED
    BY <2>1, <2>2
<1>3. Items[1] = slots[tail]
  <2>1. (tail + 1 - 1) % Slots = tail
    <3>1. tail \in 0..(Slots - 1) /\ 0 \in 0..Slots /\ tail + 1 - 1 = tail + 0
      BY DEF TypeOK
    <3>2. (tail + 0) % Slots = IF tail + 0 < Slots THEN tail + 0 ELSE tail + 0 - Slots
      BY <3>1, Around
    <3> QED
      BY <3>1, <3>2
  <2> QED
    BY <2>1, <1>1, ItemsAreSeq DEF AreSeq
<1>4. Head(Items) = Items[1]
  BY <1>2, ItemsAreSeq DEF AreSeq
<1>5. /\ Tail(Items) \in Seq(Value) /\ Len(Tail(Items)) = count - 1
      /\ \A i \in 1..(count - 1) : Tail(Items)[i] = Items[i + 1]
  BY <1>2, ItemsAreSeq, HeadTailProperties DEF AreSeq
<1>6. /\ Items' \in Seq(Value) /\ Len(Items') = count - 1
      /\ \A i \in 1..(count - 1) : Items'[i] = slots[(tail' + i - 1) % Slots]
  BY NextItemsAreSeq, <1>1 DEF AreSeq, Value
<1>7. ASSUME NEW i \in 1..(count - 1)
      PROVE  Items'[i] = Tail(Items)[i]
  <2>1. (tail' + i - 1) % Slots = (tail + (i + 1) - 1) % Slots
    <3>1. i \in 1..(Slots - 1) /\ i \in 0..Slots /\ 1 \in 0..Slots /\ tail \in 0..(Slots - 1) /\ Slots \in Nat \ {0}
      BY DEF TypeOK
    <3>2. tail' = IF tail + 1 < Slots THEN tail + 1 ELSE tail + 1 - Slots
      BY <3>1, <1>1, Around
    <3>3. (tail + i) % Slots = IF tail + i < Slots THEN tail + i ELSE tail + i - Slots
      BY <3>1, Around
    <3>4. tail' \in 0..(Slots - 1) /\ i - 1 \in 0..Slots
      BY <3>1, <3>2
    <3>5. (tail' + (i - 1)) % Slots = IF tail' + (i - 1) < Slots THEN tail' + (i - 1) ELSE tail' + (i - 1) - Slots
      BY <3>1, <3>4, Around
    <3>6. tail' + i - 1 = tail' + (i - 1) /\ tail + (i + 1) - 1 = tail + i
      BY <3>1, <3>4
    <3> QED
      BY <3>1, <3>2, <3>3, <3>5, <3>6
  <2>2. i + 1 \in 1..count
    BY ItemsAreSeq DEF AreSeq
  <2> QED
    BY <2>1, <2>2, <1>5, <1>6, ItemsAreSeq DEF AreSeq
<1> QED
  BY <1>1, <1>2, <1>3, <1>4, <1>5, <1>6, <1>7, SeqEqual

-------------------------------------------------------------------------------
(* The invariant *)

LEMMA InitInv == Init => IInv
<1> SUFFICES ASSUME Init PROVE IInv
  OBVIOUS
<1> USE LinkAssumption DEF Init
<1>1. (0 + 0) % Slots = 0
  BY Around
<1>2. TypeOK
  <2>1. expired \in BOOLEAN /\ connected \in BOOLEAN /\ overtaken \in BOOLEAN
    BY Zenon
  <2>2. /\ slots \in [0..(Slots - 1) -> Messages \cup {NoMsg}]
        /\ head \in 0..(Slots - 1) /\ tail \in 0..(Slots - 1) /\ count \in 0..Slots
        /\ head = (tail + count) % Slots /\ msg \in Messages \cup {NoMsg}
    BY <1>1
  <2>3. /\ replayed \in 0..Burst /\ wdAge \in 0..TaskLag /\ pingAge \in 0..(Wrap - 1)
        /\ hbAge \in 0..(Heartbeat + MqttLag) /\ late \in Nat
    OBVIOUS
  <2> QED
    BY <2>1, <2>2, <2>3 DEF TypeOK
<1>3. Handed /\ Fresh /\ Caused
  BY DEF Handed, Fresh, Caused
<1> QED
  BY <1>2, <1>3 DEF IInv

LEMMA RingTyped ==
  ASSUME TypeOK, NEW m \in Messages, Push(m)
  PROVE  /\ slots' \in [0..(Slots - 1) -> Messages \cup {NoMsg}]
         /\ head' \in 0..(Slots - 1) /\ tail' \in 0..(Slots - 1) /\ count' \in 0..Slots
         /\ head' = (tail' + count') % Slots
<1> USE LinkAssumption DEF TypeOK
<1>1. CASE count < Slots
  <2>1. /\ slots' = [slots EXCEPT ![head] = m] /\ head' = (head + 1) % Slots
        /\ count' = count + 1 /\ tail' = tail
    BY <1>1 DEF Push, Following
  <2>2. head = IF tail + count < Slots THEN tail + count ELSE tail + count - Slots
    BY Around
  <2>3. /\ head' = IF head + 1 < Slots THEN head + 1 ELSE head + 1 - Slots
        /\ (tail + (count + 1)) % Slots =
             IF tail + (count + 1) < Slots THEN tail + (count + 1) ELSE tail + (count + 1) - Slots
    <3>1. 1 \in 0..Slots /\ count + 1 \in 0..Slots
      BY <1>1
    <3> QED
      BY <2>1, <3>1, Around
  <2> QED
    BY <1>1, <2>1, <2>2, <2>3
<1>2. CASE ~(count < Slots)
  BY <1>2 DEF Push, ring
<1> QED
  BY <1>1, <1>2

LEMMA PopTyped ==
  ASSUME TypeOK, Pop
  PROVE  /\ slots' \in [0..(Slots - 1) -> Messages \cup {NoMsg}]
         /\ head' \in 0..(Slots - 1) /\ tail' \in 0..(Slots - 1) /\ count' \in 0..Slots
         /\ head' = (tail' + count') % Slots
         /\ msg' \in Messages \cup {NoMsg}
<1> USE LinkAssumption DEF TypeOK
<1>1. /\ count > 0 /\ tail' = (tail + 1) % Slots /\ count' = count - 1
      /\ slots' = slots /\ head' = head /\ msg' = slots[tail]
  BY DEF Pop, Following
<1>2. head = IF tail + count < Slots THEN tail + count ELSE tail + count - Slots
  BY Around
<1>3. tail' = IF tail + 1 < Slots THEN tail + 1 ELSE tail + 1 - Slots
  <2>1. 1 \in 0..Slots
    OBVIOUS
  <2> QED
    BY <1>1, <2>1, Around
<1>4. tail' \in 0..(Slots - 1) /\ count' \in 0..Slots
  BY <1>1, <1>3
<1>5. (tail' + count') % Slots =
        IF tail' + count' < Slots THEN tail' + count' ELSE tail' + count' - Slots
  BY <1>4, Around
<1>6. head' = (tail' + count') % Slots
  BY <1>1, <1>2, <1>3, <1>4, <1>5
<1> QED
  BY <1>1, <1>4, <1>6

LEMMA StepTyped == IInv /\ [Next]_vars => TypeOK'
<1> SUFFICES ASSUME TypeOK, Handed, Fresh, [Next]_vars PROVE TypeOK'
  BY DEF IInv
<1> USE LinkAssumption
<1>1. CASE Telemetry
  BY <1>1 DEF Telemetry, Handed, TypeOK, ring, mqttT, wdT, pings, vars, Pinged, NoPid
<1>2. CASE PushTelemetry
  <2>1. pidAt.m \in Messages
    BY <1>2 DEF PushTelemetry, TypeOK, NoPid
  <2> QED
    BY <1>2, <2>1, RingTyped DEF PushTelemetry, TypeOK, ring, mqttT, wdT, pings, vars, Pinged, NoPid
<1>3. CASE PushGivesUp
  BY <1>3 DEF PushGivesUp, Handed, TypeOK, ring, mqttT, wdT, pings, vars, Pinged, NoPid
<1>4. CASE Loop
  BY <1>4 DEF Loop, Handed, TypeOK, ring, mqttT, wdT, pings, vars, Pinged, NoPid
<1>5. CASE Beat
  BY <1>5 DEF Beat, Handed, TypeOK, ring, mqttT, wdT, pings, vars, Pinged, NoPid
<1>6. CASE Replay
  BY <1>6, PopTyped DEF Replay, More, TypeOK, ring, mqttT, wdT, pings, vars, Pinged, NoPid
<1>7. CASE Send
  BY <1>7 DEF Send, Handed, TypeOK, ring, mqttT, wdT, pings, vars, Pinged, NoPid
<1>8. CASE Rest
  BY <1>8 DEF Rest, Handed, TypeOK, ring, mqttT, wdT, pings, vars, Pinged, NoPid
<1>9. CASE Connected
  BY <1>9 DEF Connected, Handed, TypeOK, ring, mqttT, wdT, pings, vars, Pinged, NoPid
<1>10. CASE GoOnline
  BY <1>10 DEF GoOnline, Handed, TypeOK, ring, mqttT, wdT, pings, vars, Pinged, NoPid
<1>11. CASE Disconnected
  BY <1>11 DEF Disconnected, Handed, TypeOK, ring, mqttT, wdT, pings, vars, Pinged, NoPid
<1>12. CASE ReadNow
  BY <1>12 DEF ReadNow, Handed, TypeOK, ring, mqttT, wdT, pings, vars, Pinged, NoPid
<1>13. CASE ReadPing
  BY <1>13 DEF ReadPing, Handed, TypeOK, ring, mqttT, wdT, pings, vars, Pinged, NoPid, Elapsed
<1>14. CASE Test
  <2>1. UNCHANGED <<slots, head, tail, count, msg, replayed, mqttAt, hbAge, pidAt, eventAt, pingAge,
                    overtaken, connected, late>>
    BY <1>14 DEF Test, ring, mqttT, pings
  <2>2. /\ wdAt' \in {"start", "elapsed", "test", "set", "stop"}
        /\ mode' \in {"ONLINE", "LOCAL_AUTONOMY", "EMERGENCY_STOP"}
    BY <1>14 DEF Test, TypeOK
  <2>3. wdAge' \in 0..TaskLag
    BY <1>14 DEF Test
  <2>4. expired' \in BOOLEAN
    BY <1>14, Zenon DEF Test
  <2> QED
    BY <2>1, <2>2, <2>3, <2>4 DEF TypeOK, NoPid
<1>15. CASE GoLocal
  BY <1>15 DEF GoLocal, Handed, TypeOK, ring, mqttT, wdT, pings, vars, Pinged, NoPid
<1>16. CASE Emergency
  <2>1. UNCHANGED <<slots, head, tail, count, msg, replayed, mqttAt, hbAge, pidAt, eventAt, pingAge,
                    overtaken, connected, late>>
    BY <1>16 DEF Emergency, ring, mqttT, pings
  <2>2. /\ wdAt' \in {"start", "elapsed", "test", "set", "stop"}
        /\ mode' \in {"ONLINE", "LOCAL_AUTONOMY", "EMERGENCY_STOP"}
    BY <1>16 DEF Emergency, TypeOK
  <2>3. wdAge' \in 0..TaskLag
    BY <1>16 DEF Emergency
  <2>4. expired' \in BOOLEAN
    BY <1>16, Zenon DEF Emergency
  <2> QED
    BY <2>1, <2>2, <2>3, <2>4 DEF TypeOK, NoPid
<1>17. CASE Restart
  <2>1. (0 + 0) % Slots = 0
    BY Around
  <2>2. head' = (tail' + count') % Slots
    BY <1>17, <2>1 DEF Restart
  <2>3. expired' \in BOOLEAN /\ connected' \in BOOLEAN /\ overtaken' \in BOOLEAN
    BY <1>17, Zenon DEF Restart
  <2>4. /\ slots' \in [0..(Slots - 1) -> Messages \cup {NoMsg}]
        /\ head' \in 0..(Slots - 1) /\ tail' \in 0..(Slots - 1) /\ count' \in 0..Slots
        /\ msg' \in Messages \cup {NoMsg}
    BY <1>17 DEF Restart
  <2>5. /\ replayed' \in 0..Burst /\ wdAge' \in 0..TaskLag /\ pingAge' \in 0..(Wrap - 1)
        /\ hbAge' \in 0..(Heartbeat + MqttLag) /\ late' \in Nat
    BY <1>17 DEF Restart
  <2>6. /\ mqttAt' = "loop" /\ pidAt' = NoPid /\ wdAt' = "start" /\ eventAt' = "idle"
        /\ mode' = "LOCAL_AUTONOMY"
    BY <1>17 DEF Restart
  <2> QED
    BY <2>2, <2>3, <2>4, <2>5, <2>6 DEF TypeOK
<1>18. CASE Tick
  BY <1>18 DEF Tick, Handed, TypeOK, ring, mqttT, wdT, pings, vars, Pinged, NoPid
<1>19. CASE UNCHANGED vars
  BY <1>19 DEF TypeOK, ring, mqttT, wdT, pings, vars, Pinged, NoPid
<1> QED
  BY <1>1, <1>2, <1>3, <1>4, <1>5, <1>6, <1>7, <1>8, <1>9, <1>10, <1>11, <1>12, <1>13, <1>14, <1>15, <1>16, <1>17, <1>18, <1>19 DEF Next, Mqtt, Watchdog

LEMMA StepHanded == IInv /\ [Next]_vars => Handed'
<1> SUFFICES ASSUME TypeOK, Handed, Fresh, Caused, [Next]_vars PROVE Handed'
  BY DEF IInv
<1> USE LinkAssumption DEF TypeOK
<1>1. CASE Telemetry
  BY <1>1 DEF Telemetry, Handed, ring, mqttT, wdT, pings, vars, Pinged, NoPid
<1>2. CASE PushTelemetry
  BY <1>2 DEF PushTelemetry, Handed, ring, mqttT, wdT, pings, vars, Pinged, NoPid
<1>3. CASE PushGivesUp
  BY <1>3 DEF PushGivesUp, Handed, ring, mqttT, wdT, pings, vars, Pinged, NoPid
<1>4. CASE Loop
  BY <1>4 DEF Loop, Handed, ring, mqttT, wdT, pings, vars, Pinged, NoPid
<1>5. CASE Beat
  BY <1>5 DEF Beat, Handed, ring, mqttT, wdT, pings, vars, Pinged, NoPid
<1>6. CASE Replay
  BY <1>6 DEF Replay, Handed, ring, mqttT, wdT, pings, vars, Pinged, NoPid, More
<1>7. CASE Send
  BY <1>7 DEF Send, Handed, ring, mqttT, wdT, pings, vars, Pinged, NoPid
<1>8. CASE Rest
  BY <1>8 DEF Rest, Handed, ring, mqttT, wdT, pings, vars, Pinged, NoPid
<1>9. CASE Connected
  BY <1>9 DEF Connected, Handed, ring, mqttT, wdT, pings, vars, Pinged, NoPid
<1>10. CASE GoOnline
  BY <1>10 DEF GoOnline, Handed, ring, mqttT, wdT, pings, vars, Pinged, NoPid
<1>11. CASE Disconnected
  BY <1>11 DEF Disconnected, Handed, ring, mqttT, wdT, pings, vars, Pinged, NoPid
<1>12. CASE ReadNow
  BY <1>12 DEF ReadNow, Handed, ring, mqttT, wdT, pings, vars, Pinged, NoPid
<1>13. CASE ReadPing
  BY <1>13 DEF ReadPing, Handed, ring, mqttT, wdT, pings, vars, Pinged, NoPid, Elapsed, Fresh
<1>14. CASE Test
  BY <1>14 DEF Test, Handed, ring, mqttT, wdT, pings, vars, Pinged, NoPid
<1>15. CASE GoLocal
  BY <1>15 DEF GoLocal, Handed, ring, mqttT, wdT, pings, vars, Pinged, NoPid
<1>16. CASE Emergency
  BY <1>16 DEF Emergency, Handed, ring, mqttT, wdT, pings, vars, Pinged, NoPid
<1>17. CASE Restart
  BY <1>17 DEF Restart, Handed, ring, mqttT, wdT, pings, vars, Pinged, NoPid
<1>18. CASE Tick
  BY <1>18 DEF Tick, Handed, ring, mqttT, wdT, pings, vars, Pinged, NoPid, Fresh
<1>19. CASE UNCHANGED vars
  BY <1>19 DEF Handed, ring, mqttT, wdT, pings, vars, Pinged, NoPid
<1> QED
  BY <1>1, <1>2, <1>3, <1>4, <1>5, <1>6, <1>7, <1>8, <1>9, <1>10, <1>11, <1>12, <1>13, <1>14, <1>15, <1>16, <1>17, <1>18, <1>19 DEF Next, Mqtt, Watchdog

LEMMA StepFresh == IInv /\ [Next]_vars => Fresh'
<1> SUFFICES ASSUME TypeOK, Handed, Fresh, Caused, [Next]_vars PROVE Fresh'
  BY DEF IInv
<1> USE LinkAssumption DEF TypeOK
<1>1. CASE Telemetry
  BY <1>1 DEF Telemetry, Fresh, ring, mqttT, wdT, pings, vars, Pinged, NoPid
<1>2. CASE PushTelemetry
  BY <1>2 DEF PushTelemetry, Fresh, ring, mqttT, wdT, pings, vars, Pinged, NoPid
<1>3. CASE PushGivesUp
  BY <1>3 DEF PushGivesUp, Fresh, ring, mqttT, wdT, pings, vars, Pinged, NoPid
<1>4. CASE Loop
  BY <1>4 DEF Loop, Fresh, ring, mqttT, wdT, pings, vars, Pinged, NoPid
<1>5. CASE Beat
  BY <1>5 DEF Beat, Fresh, ring, mqttT, wdT, pings, vars, Pinged, NoPid
<1>6. CASE Replay
  BY <1>6 DEF Replay, Fresh, ring, mqttT, wdT, pings, vars, Pinged, NoPid, More
<1>7. CASE Send
  BY <1>7 DEF Send, Fresh, ring, mqttT, wdT, pings, vars, Pinged, NoPid
<1>8. CASE Rest
  BY <1>8 DEF Rest, Fresh, ring, mqttT, wdT, pings, vars, Pinged, NoPid
<1>9. CASE Connected
  BY <1>9 DEF Connected, Fresh, ring, mqttT, wdT, pings, vars, Pinged, NoPid
<1>10. CASE GoOnline
  BY <1>10 DEF GoOnline, Fresh, ring, mqttT, wdT, pings, vars, Pinged, NoPid
<1>11. CASE Disconnected
  BY <1>11 DEF Disconnected, Fresh, ring, mqttT, wdT, pings, vars, Pinged, NoPid
<1>12. CASE ReadNow
  BY <1>12 DEF ReadNow, Fresh, ring, mqttT, wdT, pings, vars, Pinged, NoPid
<1>13. CASE ReadPing
  BY <1>13 DEF ReadPing, Fresh, ring, mqttT, wdT, pings, vars, Pinged, NoPid, Elapsed
<1>14. CASE Test
  BY <1>14 DEF Test, Fresh, ring, mqttT, wdT, pings, vars, Pinged, NoPid
<1>15. CASE GoLocal
  BY <1>15 DEF GoLocal, Fresh, ring, mqttT, wdT, pings, vars, Pinged, NoPid
<1>16. CASE Emergency
  BY <1>16 DEF Emergency, Fresh, ring, mqttT, wdT, pings, vars, Pinged, NoPid
<1>17. CASE Restart
  BY <1>17 DEF Restart, Fresh, ring, mqttT, wdT, pings, vars, Pinged, NoPid
<1>18. CASE Tick
  BY <1>18 DEF Tick, Fresh, ring, mqttT, wdT, pings, vars, Pinged, NoPid
<1>19. CASE UNCHANGED vars
  BY <1>19 DEF Fresh, ring, mqttT, wdT, pings, vars, Pinged, NoPid
<1> QED
  BY <1>1, <1>2, <1>3, <1>4, <1>5, <1>6, <1>7, <1>8, <1>9, <1>10, <1>11, <1>12, <1>13, <1>14, <1>15, <1>16, <1>17, <1>18, <1>19 DEF Next, Mqtt, Watchdog

LEMMA StepCaused == IInv /\ [Next]_vars => Caused'
<1> SUFFICES ASSUME TypeOK, Handed, Fresh, Caused, [Next]_vars PROVE Caused'
  BY DEF IInv
<1> USE LinkAssumption DEF TypeOK
<1>1. CASE Telemetry
  BY <1>1 DEF Telemetry, Caused, ring, mqttT, wdT, pings, vars, Pinged, NoPid
<1>2. CASE PushTelemetry
  BY <1>2 DEF PushTelemetry, Caused, ring, mqttT, wdT, pings, vars, Pinged, NoPid
<1>3. CASE PushGivesUp
  BY <1>3 DEF PushGivesUp, Caused, ring, mqttT, wdT, pings, vars, Pinged, NoPid
<1>4. CASE Loop
  BY <1>4 DEF Loop, Caused, ring, mqttT, wdT, pings, vars, Pinged, NoPid
<1>5. CASE Beat
  BY <1>5 DEF Beat, Caused, ring, mqttT, wdT, pings, vars, Pinged, NoPid
<1>6. CASE Replay
  BY <1>6 DEF Replay, Caused, ring, mqttT, wdT, pings, vars, Pinged, NoPid, More
<1>7. CASE Send
  BY <1>7 DEF Send, Caused, ring, mqttT, wdT, pings, vars, Pinged, NoPid
<1>8. CASE Rest
  BY <1>8 DEF Rest, Caused, ring, mqttT, wdT, pings, vars, Pinged, NoPid
<1>9. CASE Connected
  BY <1>9 DEF Connected, Caused, ring, mqttT, wdT, pings, vars, Pinged, NoPid
<1>10. CASE GoOnline
  BY <1>10 DEF GoOnline, Caused, ring, mqttT, wdT, pings, vars, Pinged, NoPid
<1>11. CASE Disconnected
  BY <1>11 DEF Disconnected, Caused, ring, mqttT, wdT, pings, vars, Pinged, NoPid
<1>12. CASE ReadNow
  BY <1>12 DEF ReadNow, Caused, ring, mqttT, wdT, pings, vars, Pinged, NoPid
<1>13. CASE ReadPing
  BY <1>13 DEF ReadPing, Caused, ring, mqttT, wdT, pings, vars, Pinged, NoPid, Elapsed, Fresh
<1>14. CASE Test
  BY <1>14 DEF Test, Caused, ring, mqttT, wdT, pings, vars, Pinged, NoPid
<1>15. CASE GoLocal
  BY <1>15 DEF GoLocal, Caused, ring, mqttT, wdT, pings, vars, Pinged, NoPid
<1>16. CASE Emergency
  BY <1>16 DEF Emergency, Caused, ring, mqttT, wdT, pings, vars, Pinged, NoPid
<1>17. CASE Restart
  BY <1>17 DEF Restart, Caused, ring, mqttT, wdT, pings, vars, Pinged, NoPid
<1>18. CASE Tick
  BY <1>18 DEF Tick, Caused, ring, mqttT, wdT, pings, vars, Pinged, NoPid, Fresh
<1>19. CASE UNCHANGED vars
  BY <1>19 DEF Caused, ring, mqttT, wdT, pings, vars, Pinged, NoPid
<1> QED
  BY <1>1, <1>2, <1>3, <1>4, <1>5, <1>6, <1>7, <1>8, <1>9, <1>10, <1>11, <1>12, <1>13, <1>14, <1>15, <1>16, <1>17, <1>18, <1>19 DEF Next, Mqtt, Watchdog

LEMMA Invariance == Spec => []IInv
<1>1. IInv /\ [Next]_vars => IInv'
  BY StepTyped, StepHanded, StepFresh, StepCaused DEF IInv
<1> QED
  BY <1>1, InitInv, PTL DEF Spec

-------------------------------------------------------------------------------
(* The theorems *)

\* The types, and that head is count slots after tail (lines 309-336).
THEOREM TypeCorrect == Spec => []TypeOK
<1>1. IInv => TypeOK
  BY DEF IInv
<1> QED
  BY <1>1, Invariance, PTL

\* What is handed over after the unit left the ONLINE mode is no more than a burst
\* (lines 563-573).
THEOREM LateBounded == Spec => []LateIsBounded
<1>1. IInv => LateIsBounded
  BY DEF IInv, Handed, LateIsBounded
<1> QED
  BY <1>1, Invariance, PTL

\* The watchdog has a cause to leave the ONLINE mode (lines 584-602).
THEOREM WatchdogHasCause == Spec => OfflineForCause
<1>1. IInv /\ [Next]_vars => [GoLocal /\ mode = "ONLINE" => pingAge > Timeout \/ overtaken]_vars
  BY DEF IInv, Caused, GoLocal
<1> QED
  BY <1>1, Invariance, PTL DEF Spec, OfflineForCause

\* The buffer starts as an empty queue.
LEMMA InitQueue == Init => Queue!QueueInit
<1> SUFFICES ASSUME Init PROVE Items = <<>> /\ msg = NoMsg
  BY DEF Queue!QueueInit
<1>1. TypeOK
  BY InitInv DEF IInv
<1>2. Items \in Seq(Value) /\ Len(Items) = 0
  BY <1>1, ItemsAreSeq DEF AreSeq, Init
<1> QED
  BY <1>2, EmptySeq DEF Init

\* The ring unchanged, the items are.
LEMMA SameItems ==
  ASSUME UNCHANGED ring
  PROVE  Items' = Items
BY DEF ring, Items

\* Every step puts, takes, clears or does nothing to the queue.
LEMMA StepQueue ==
  ASSUME TypeOK, TypeOK', [Next]_vars
  PROVE  [Queue!QueueNext]_<<Items, msg>>
<1> USE LinkAssumption
<1>1. CASE Telemetry
  BY <1>1, SameItems DEF Telemetry, mqttT
<1>2. CASE PushTelemetry
  <2>1. pidAt.m \in Messages /\ Push(pidAt.m) /\ msg' = msg
    BY <1>2 DEF PushTelemetry, TypeOK, mqttT, NoPid
  <2>2. CASE count < Slots
    <3>1. Items' = Append(Items, pidAt.m) /\ Len(Items) < Slots
      BY <2>1, <2>2, PushPuts, ItemsAreSeq DEF AreSeq
    <3> QED
      BY <2>1, <3>1 DEF Queue!QueueNext, Queue!Put
  <2>3. CASE ~(count < Slots)
    <3>1. UNCHANGED ring
      BY <2>1, <2>3 DEF Push
    <3> QED
      BY <2>1, <3>1, SameItems
  <2> QED
    BY <2>2, <2>3
<1>3. CASE PushGivesUp
  BY <1>3, SameItems DEF PushGivesUp, mqttT
<1>4. CASE Loop
  BY <1>4, SameItems DEF Loop, mqttT
<1>5. CASE Beat
  BY <1>5, SameItems DEF Beat, mqttT
<1>6. CASE Replay
  <2>1. Pop
    BY <1>6 DEF Replay
  <2> QED
    BY <2>1, PopTakes DEF Queue!QueueNext, Queue!TakeOut
<1>7. CASE Send
  BY <1>7, SameItems DEF Send, mqttT
<1>8. CASE Rest
  BY <1>8, SameItems DEF Rest, mqttT
<1>9. CASE Connected
  BY <1>9, SameItems DEF Connected, mqttT
<1>10. CASE GoOnline
  BY <1>10, SameItems DEF GoOnline, mqttT
<1>11. CASE Disconnected
  BY <1>11, SameItems DEF Disconnected, mqttT
<1>12. CASE ReadNow
  BY <1>12, SameItems DEF ReadNow, mqttT
<1>13. CASE ReadPing
  BY <1>13, SameItems DEF ReadPing, mqttT
<1>14. CASE Test
  BY <1>14, SameItems DEF Test, mqttT
<1>15. CASE GoLocal
  BY <1>15, SameItems DEF GoLocal, mqttT
<1>16. CASE Emergency
  BY <1>16, SameItems DEF Emergency, mqttT
<1>17. CASE Restart
  <2>1. Items' \in Seq(Value) /\ Len(Items') = 0 /\ msg' = NoMsg
    BY <1>17, NextItemsAreSeq DEF AreSeq, Value, Restart
  <2> QED
    BY <2>1, EmptySeq DEF Queue!QueueNext, Queue!Clear
<1>18. CASE Tick
  BY <1>18, SameItems DEF Tick, mqttT
<1>19. CASE UNCHANGED vars
  BY <1>19, SameItems DEF vars, mqttT
<1> QED
  BY <1>1, <1>2, <1>3, <1>4, <1>5, <1>6, <1>7, <1>8, <1>9, <1>10, <1>11, <1>12, <1>13, <1>14, <1>15, <1>16, <1>17, <1>18, <1>19 DEF Next, Mqtt, Watchdog

\* The ring buffer is a bounded queue (lines 309-336).
THEOREM RingIsQueue == Spec => IsQueue
<1>1. TypeOK /\ TypeOK' /\ [Next]_vars => [Queue!QueueNext]_<<Items, msg>>
  BY StepQueue
<1> QED
  BY <1>1, InitQueue, TypeCorrect, PTL DEF Spec, IsQueue, Queue!QueueSpec
================================================================================
