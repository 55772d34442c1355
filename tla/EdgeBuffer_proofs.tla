-------------------------- MODULE EdgeBuffer_proofs --------------------------
(***************************************************************************)
(* Proofs about EdgeBuffer for every table size, batch size and bound.     *)
(***************************************************************************)
EXTENDS EdgeBuffer, SequenceTheorems, TLAPS

\* The bound leaves room for the replay of a connection being accepted.
RoomForReplay == net \in {"connack", "schedule"} => replays < MaxReplays

\* A prefix or a suffix of a sequence of messages.
LEMMA Slices ==
  ASSUME NEW s \in Seq(Message), NEW n \in 0..Len(s)
  PROVE  /\ SubSeq(s, 1, n) \in Seq(Message) /\ Len(SubSeq(s, 1, n)) = n
         /\ SubSeq(s, n + 1, Len(s)) \in Seq(Message)
         /\ Len(SubSeq(s, n + 1, Len(s))) = Len(s) - n
         /\ {s[i] : i \in 1..n} \subseteq Message
<1>1. Len(s) \in Nat /\ \A i \in 1..Len(s) : s[i] \in Message
  BY LenProperties
<1>2. /\ SubSeq(s, 1, n) \in Seq(Message)
      /\ Len(SubSeq(s, 1, n)) = IF 1 <= n THEN n - 1 + 1 ELSE 0
  BY <1>1, SubSeqProperties
<1>3. /\ SubSeq(s, n + 1, Len(s)) \in Seq(Message)
      /\ Len(SubSeq(s, n + 1, Len(s))) =
           IF n + 1 <= Len(s) THEN Len(s) - (n + 1) + 1 ELSE 0
  <2>1. \A i \in (n + 1)..Len(s) : s[i] \in Message
    BY <1>1
  <2> QED
    BY <1>1, <2>1, SubSeqProperties
<1> QED
  BY <1>1, <1>2, <1>3

\* Emptiness by length.
LEMMA Emptiness ==
  /\ <<>> \in Seq(Message) /\ Len(<<>>) = 0
  /\ \A s \in Seq(Message) : Len(s) \in Nat /\ (s = <<>> <=> Len(s) = 0)
BY EmptySeq, LenProperties

\* Making room: at most MaxRows - 1 rows are left.
LEMMA MakeRoom ==
  ASSUME NEW s \in Seq(Message), Len(s) <= MaxRows,
         NEW excess, excess = IF Len(s) >= MaxRows THEN Evicted ELSE 0
  PROVE  /\ excess \in 0..Len(s)
         /\ Len(SubSeq(s, excess + 1, Len(s))) < MaxRows
<1>1. Len(s) \in Nat
  BY LenProperties
<1>2. excess \in 0..Len(s)
  BY <1>1, BufferAssumption
<1> QED
  BY <1>1, <1>2, Slices, BufferAssumption

LEMMA InitInvariant == Init => TypeOK /\ RoomForReplay /\ Capacity
<1> SUFFICES ASSUME Init PROVE TypeOK /\ RoomForReplay /\ Capacity
  OBVIOUS
<1>1. rows \in Seq(Message) /\ batch \in Seq(Message) /\ outbox \in Seq(Message)
      /\ delivered \in Seq(Message)
  BY Emptiness DEF Init
<1>2. /\ connected \in BOOLEAN /\ net \in NetPlace /\ loop \in LoopPlace
      /\ loop \notin {"send", "push"} /\ (loop = "replay" <=> batch # <<>>)
      /\ dropped \subseteq Message /\ lost \subseteq Message
  BY DEF Init, NetPlace, LoopPlace
<1>3. /\ msg \in 0..MaxMessages /\ lastReplayed \in 0..MaxMessages
      /\ replays \in 0..MaxReplays /\ next \in 1..(MaxMessages + 1)
  BY BufferAssumption DEF Init
<1>4. TypeOK
  BY <1>1, <1>2, <1>3 DEF TypeOK
<1>5. Capacity
  BY Emptiness, BufferAssumption DEF Init, Capacity
<1>6. RoomForReplay
  BY DEF Init, RoomForReplay
<1> QED
  BY <1>4, <1>5, <1>6

\* The steps of the event loop.
LEMMA LoopStep ==
  ASSUME TypeOK, RoomForReplay, Capacity,
         Publish \/ Send \/ Push \/ ReplayPop \/ ReplayPublish \/ ReplayEnd
  PROVE  TypeOK' /\ RoomForReplay' /\ Capacity'
<1> USE DEF TypeOK, RoomForReplay, Capacity, LoopPlace, client, history
<1>a. /\ rows \in Seq(Message) /\ batch \in Seq(Message) /\ outbox \in Seq(Message)
      /\ Len(rows) \in Nat /\ Len(batch) \in Nat
  BY Emptiness
<1>1. CASE Publish
  BY <1>1, BufferAssumption DEF Publish, Message
<1>2. CASE Send
  <2>1. outbox' \in Seq(Message)
    BY <1>2, AppendProperties DEF Send
  <2> QED
    BY <1>2, <2>1 DEF Send
<1>3. CASE Push
  <2> DEFINE excess == IF NoRoom THEN Evicted ELSE 0
  <2>1. /\ excess \in 0..Len(rows)
        /\ Len(SubSeq(rows, excess + 1, Len(rows))) < MaxRows
    BY MakeRoom DEF NoRoom
  <2>2. /\ SubSeq(rows, excess + 1, Len(rows)) \in Seq(Message)
        /\ {rows[i] : i \in 1..excess} \subseteq Message
    BY <2>1, Slices
  <2>3. msg \in Message
    BY <1>3 DEF Push
  <2>4. /\ rows' \in Seq(Message)
        /\ Len(rows') = Len(SubSeq(rows, excess + 1, Len(rows))) + 1
    BY <1>3, <2>2, <2>3, AppendProperties DEF Push, Rest
  <2>5. Len(rows') <= MaxRows
    BY <2>1, <2>2, <2>4, LenProperties, BufferAssumption
  <2>6. dropped' \subseteq Message
    BY <1>3, <2>2, <2>3 DEF Push
  <2> QED
    BY <1>3, <2>4, <2>5, <2>6 DEF Push
<1>4. CASE ReplayPop
  <2>1. PICK n \in 1..Len(rows) :
          batch' = SubSeq(rows, 1, n) /\ rows' = SubSeq(rows, n + 1, Len(rows))
    <3> DEFINE n == IF Len(rows) < Batch THEN Len(rows) ELSE Batch
    <3>1. n \in 1..Len(rows)
      BY <1>4, <1>a, Emptiness, BufferAssumption DEF ReplayPop
    <3>2. batch' = SubSeq(rows, 1, n) /\ rows' = SubSeq(rows, n + 1, Len(rows))
      BY <1>4 DEF ReplayPop, Rest
    <3> QED
      BY <3>1, <3>2
  <2>2. /\ batch' \in Seq(Message) /\ rows' \in Seq(Message)
        /\ Len(batch') = n /\ Len(rows') = Len(rows) - n
    <3>1. n \in 0..Len(rows)
      BY <1>a, <2>1
    <3>2. /\ SubSeq(rows, 1, n) \in Seq(Message) /\ Len(SubSeq(rows, 1, n)) = n
          /\ SubSeq(rows, n + 1, Len(rows)) \in Seq(Message)
          /\ Len(SubSeq(rows, n + 1, Len(rows))) = Len(rows) - n
      BY <1>a, <3>1, Slices
    <3> QED
      BY <2>1, <3>2, Zenon
  <2>3. batch' # <<>>
    <3>1. Len(batch') # 0
      BY <2>1, <2>2
    <3> QED
      BY <2>2, <3>1, Emptiness, Zenon
  <2>4. Len(rows') <= MaxRows
    BY <1>a, <2>1, <2>2, BufferAssumption
  <2> QED
    BY <1>4, <2>2, <2>3, <2>4 DEF ReplayPop
<1>5. CASE ReplayPublish
  <2>1. /\ Head(batch) \in Message /\ Tail(batch) \in Seq(Message)
        /\ Len(Tail(batch)) = Len(batch) - 1
    BY <1>5, HeadTailProperties DEF ReplayPublish
  <2>2. Tail(batch) # <<>> <=> Len(batch) > 1
    <3>1. Tail(batch) = <<>> <=> Len(Tail(batch)) = 0
      BY <2>1, Emptiness, Zenon
    <3> QED
      BY <1>a, <1>5, <2>1, <3>1 DEF ReplayPublish
  <2>3. outbox' \in Seq(Message)
    BY <1>5, <2>1, AppendProperties DEF ReplayPublish
  <2>4. lastReplayed' \in 0..MaxMessages
    BY <1>5, <2>1, BufferAssumption DEF ReplayPublish, Message
  <2>5. loop' \in LoopPlace /\ (loop' = "replay" <=> batch' # <<>>) /\ loop' \notin {"send", "push"}
    BY <1>5, <2>2 DEF ReplayPublish
  <2> QED
    BY <1>5, <2>1, <2>3, <2>4, <2>5 DEF ReplayPublish
<1>6. CASE ReplayEnd
  BY <1>6, BufferAssumption DEF ReplayEnd
<1> QED
  BY <1>1, <1>2, <1>3, <1>4, <1>5, <1>6

\* The steps of the network thread, the client, and the process.
LEMMA NetStep ==
  ASSUME TypeOK, RoomForReplay, Capacity,
         Connack \/ Handler \/ ConnectionLost \/ Acknowledge \/ Deliver \/ Crash
  PROVE  TypeOK' /\ RoomForReplay' /\ Capacity'
<1> USE DEF TypeOK, RoomForReplay, Capacity, NetPlace, LoopPlace,
        client, history, UnchangedButNet
<1>1. CASE Connack
  BY <1>1 DEF Connack
<1>2. CASE OnConnect
  BY <1>2 DEF OnConnect
<1>3. CASE Schedule
  BY <1>3, BufferAssumption DEF Schedule
<1>5. CASE ConnectionLost
  BY <1>5 DEF ConnectionLost
<1>6. CASE OnDisconnect
  BY <1>6 DEF OnDisconnect
<1>7. CASE Acknowledge
  <2>1. next \in Message /\ next' \in 1..(MaxMessages + 1)
    BY <1>7, BufferAssumption DEF Acknowledge, Message
  <2>2. outbox' \in Seq(Message)
    BY <1>7, <2>1, AppendProperties DEF Acknowledge
  <2> QED
    BY <1>7, <2>1, <2>2 DEF Acknowledge
<1>8. CASE Deliver
  <2>1. Head(outbox) \in Message /\ outbox' \in Seq(Message)
    BY <1>8, HeadTailProperties DEF Deliver
  <2>2. delivered' \in Seq(Message)
    BY <1>8, <2>1, AppendProperties DEF Deliver
  <2> QED
    BY <1>8, <2>1, <2>2 DEF Deliver
<1>9. CASE Crash
  <2>1. <<>> \in Seq(Message)
    BY Emptiness
  <2>2. ToSet(batch) \subseteq Message /\ ToSet(outbox) \subseteq Message
    BY LenProperties DEF ToSet
  <2>3. Held \subseteq Message
    BY DEF Held
  <2>4. lost' \subseteq Message
    BY <1>9, <2>2, <2>3 DEF Crash
  <2>5. /\ batch' \in Seq(Message) /\ outbox' \in Seq(Message) /\ rows' = rows
        /\ (loop' = "replay" <=> batch' # <<>>) /\ loop' \in LoopPlace
        /\ loop' \notin {"send", "push"}
    BY <1>9, <2>1 DEF Crash
  <2>6. msg' \in 0..MaxMessages /\ replays' \in 0..MaxReplays
    BY <1>9, BufferAssumption DEF Crash
  <2>7. /\ RoomForReplay' /\ Capacity'
        /\ connected' \in BOOLEAN /\ net' \in NetPlace
    BY <1>9 DEF Crash
  <2> QED
    BY <1>9, <2>4, <2>5, <2>6, <2>7 DEF Crash
<1> QED
  BY <1>1, <1>2, <1>3, <1>5, <1>6, <1>7, <1>8, <1>9 DEF Handler

\* The inductive invariant.
THEOREM Invariant == Spec => [](TypeOK /\ RoomForReplay /\ Capacity)
<1> DEFINE Inv == TypeOK /\ RoomForReplay /\ Capacity
<1>1. Init => Inv
  BY InitInvariant
<1>2. Inv /\ [Next]_vars => Inv'
  <2> SUFFICES ASSUME Inv, [Next]_vars PROVE Inv'
    OBVIOUS
  <2>1. CASE Next
    BY <2>1, LoopStep, NetStep DEF Next
  <2>2. CASE UNCHANGED vars
    BY <2>2 DEF vars, client, history, TypeOK, RoomForReplay, Capacity
  <2> QED
    BY <2>1, <2>2
<1> QED
  BY <1>1, <1>2, PTL DEF Spec

\* Every variable keeps its type; in particular an empty batch never outlives its replay.
THEOREM TypeCorrect == Spec => []TypeOK
BY Invariant, PTL

\* OfflineBuffer never holds more than MAX_ROWS rows (push, lines 133-144).
THEOREM TableIsBounded == Spec => []Capacity
BY Invariant, PTL

-------------------------------------------------------------------------------
(* The messages of a sequence *)

LEMMA Elements ==
  ASSUME NEW s \in Seq(Message)
  PROVE  /\ Len(s) \in Nat /\ DOMAIN s = 1..Len(s)
         /\ ToSet(s) = {s[i] : i \in 1..Len(s)} /\ ToSet(s) \subseteq Message
BY LenProperties DEF ToSet

LEMMA NoElements == ToSet(<<>>) = {} /\ IsInjective(<<>>)
<1>1. DOMAIN <<>> = {}
  BY EmptySeq, LenProperties
<1> QED
  BY <1>1 DEF ToSet, IsInjective

\* Appending a message that is not yet there.
LEMMA AppendElement ==
  ASSUME NEW s \in Seq(Message), NEW m \in Message
  PROVE  /\ ToSet(Append(s, m)) = ToSet(s) \cup {m}
         /\ IsInjective(s) /\ m \notin ToSet(s) => IsInjective(Append(s, m))
<1> DEFINE t == Append(s, m)
<1>1. /\ t \in Seq(Message) /\ Len(t) = Len(s) + 1 /\ Len(s) \in Nat
      /\ t[Len(s) + 1] = m /\ \A i \in 1..Len(s) : t[i] = s[i]
  BY AppendProperties, LenProperties
<1>2. /\ DOMAIN t = 1..(Len(s) + 1) /\ DOMAIN s = 1..Len(s)
  BY <1>1, Elements
<1>3. ToSet(t) = ToSet(s) \cup {m}
  <2>1. ASSUME NEW x \in ToSet(t) PROVE x \in ToSet(s) \cup {m}
    BY <1>1, <1>2, <2>1 DEF ToSet
  <2>2. ASSUME NEW x \in ToSet(s) PROVE x \in ToSet(t)
    BY <1>1, <1>2, <2>2 DEF ToSet
  <2>3. m \in ToSet(t)
    BY <1>1, <1>2 DEF ToSet
  <2> QED
    BY <2>1, <2>2, <2>3
<1>4. ASSUME IsInjective(s), m \notin ToSet(s) PROVE IsInjective(t)
  <2> SUFFICES ASSUME NEW i \in DOMAIN t, NEW j \in DOMAIN t, t[i] = t[j] PROVE i = j
    BY DEF IsInjective
  <2>1. \A k \in 1..Len(s) : t[k] # m
    BY <1>1, <1>2, <1>4 DEF ToSet
  <2> QED
    BY <1>1, <1>2, <1>4, <2>1 DEF IsInjective
<1> QED
  BY <1>3, <1>4

\* A sequence cut in two: what stands at each place of the two parts.
LEMMA CutParts ==
  ASSUME NEW s \in Seq(Message), NEW n \in 0..Len(s)
  PROVE  /\ SubSeq(s, 1, n) \in Seq(Message) /\ Len(SubSeq(s, 1, n)) = n
         /\ SubSeq(s, n + 1, Len(s)) \in Seq(Message) /\ Len(SubSeq(s, n + 1, Len(s))) = Len(s) - n
         /\ \A i \in 1..n : SubSeq(s, 1, n)[i] = s[i]
         /\ \A i \in 1..(Len(s) - n) : SubSeq(s, n + 1, Len(s))[i] = s[i + n]
<1> DEFINE a == SubSeq(s, 1, n)
           b == SubSeq(s, n + 1, Len(s))
<1>1. Len(s) \in Nat /\ n \in Int
  BY Elements
<1>2. a \in Seq(Message) /\ b \in Seq(Message) /\ Len(a) = n /\ Len(b) = Len(s) - n
  BY Slices
<1>3. \A i \in 1..n : a[i] = s[i]
  <2>1. \A i \in 1..n - 1 + 1 : a[i] = s[1 + i - 1]
    BY <1>1, SubSeqProperties
  <2> QED
    BY <1>1, <2>1
<1>4. \A i \in 1..(Len(s) - n) : b[i] = s[i + n]
  <2>1. \A i \in 1..Len(s) - (n + 1) + 1 : b[i] = s[n + 1 + i - 1]
    BY <1>1, SubSeqProperties
  <2>2. \A i \in 1..(Len(s) - n) : i \in 1..Len(s) - (n + 1) + 1 /\ n + 1 + i - 1 = i + n
    BY <1>1
  <2> QED
    BY <2>1, <2>2
<1> QED
  BY <1>2, <1>3, <1>4

\* A sequence cut in two: what each part holds, and that nothing is in both.
LEMMA CutElements ==
  ASSUME NEW s \in Seq(Message), NEW n \in 0..Len(s)
  PROVE  /\ \A x : x \in ToSet(SubSeq(s, 1, n)) <=> \E i \in 1..n : x = s[i]
         /\ ToSet(s) = ToSet(SubSeq(s, 1, n)) \cup ToSet(SubSeq(s, n + 1, Len(s)))
         /\ IsInjective(s) => /\ IsInjective(SubSeq(s, 1, n)) /\ IsInjective(SubSeq(s, n + 1, Len(s)))
                              /\ ToSet(SubSeq(s, 1, n)) \cap ToSet(SubSeq(s, n + 1, Len(s))) = {}
<1> DEFINE a == SubSeq(s, 1, n)
           b == SubSeq(s, n + 1, Len(s))
<1>1. Len(s) \in Nat /\ n \in Int /\ DOMAIN s = 1..Len(s) /\ \A i \in 1..Len(s) : s[i] \in Message
  BY Elements
<1>2. a \in Seq(Message) /\ b \in Seq(Message) /\ Len(a) = n /\ Len(b) = Len(s) - n
  BY CutParts
<1>3. \A i \in 1..n : a[i] = s[i]
  BY CutParts
<1>4. \A i \in 1..(Len(s) - n) : b[i] = s[i + n]
  BY CutParts
<1>5. DOMAIN a = 1..n /\ DOMAIN b = 1..(Len(s) - n)
  BY <1>2, Elements
<1> HIDE DEF a, b
<1>6. ToSet(a) = {s[i] : i \in 1..n}
  BY <1>3, <1>5 DEF ToSet
<1>7. ToSet(b) = {s[i] : i \in (n + 1)..Len(s)}
  <2>1. ASSUME NEW x \in ToSet(b) PROVE x \in {s[i] : i \in (n + 1)..Len(s)}
    <3>1. PICK i \in 1..(Len(s) - n) : x = b[i]
      BY <1>5, <2>1 DEF ToSet
    <3>2. x = s[i + n] /\ i + n \in (n + 1)..Len(s)
      BY <1>1, <1>4, <3>1
    <3> QED
      BY <3>2
  <2>2. ASSUME NEW i \in (n + 1)..Len(s) PROVE s[i] \in ToSet(b)
    <3>1. i - n \in 1..(Len(s) - n) /\ (i - n) + n = i
      BY <1>1
    <3>2. b[i - n] = s[i]
      BY <1>4, <3>1
    <3> QED
      BY <1>5, <3>1, <3>2 DEF ToSet
  <2> QED
    BY <2>1, <2>2
<1>8. ToSet(s) = ToSet(a) \cup ToSet(b)
  <2>1. ToSet(s) = {s[i] : i \in 1..Len(s)}
    BY <1>1 DEF ToSet
  <2>2. \A i \in Int : i \in 1..Len(s) <=> i \in 1..n \/ i \in (n + 1)..Len(s)
    BY <1>1
  <2> QED
    BY <1>6, <1>7, <2>1, <2>2
<1>9. ASSUME IsInjective(s) PROVE IsInjective(a) /\ IsInjective(b) /\ ToSet(a) \cap ToSet(b) = {}
  <2>1. \A i, j \in 1..Len(s) : s[i] = s[j] => i = j
    BY <1>1, <1>9 DEF IsInjective
  <2>2. IsInjective(a)
    BY <1>1, <1>3, <1>5, <2>1 DEF IsInjective
  <2>3. IsInjective(b)
    <3> SUFFICES ASSUME NEW i \in 1..(Len(s) - n), NEW j \in 1..(Len(s) - n), b[i] = b[j] PROVE i = j
      BY <1>5 DEF IsInjective
    <3>1. s[i + n] = s[j + n] /\ i + n \in 1..Len(s) /\ j + n \in 1..Len(s)
      BY <1>1, <1>4
    <3> QED
      BY <1>1, <2>1, <3>1
  <2>4. ToSet(a) \cap ToSet(b) = {}
    BY <1>1, <1>6, <1>7, <2>1
  <2> QED
    BY <2>2, <2>3, <2>4
<1> QED
  BY <1>2, <1>3, <1>4, <1>6, <1>8, <1>9 DEF a, b

\* A sequence is its first message and the rest.
LEMMA HeadElements ==
  ASSUME NEW s \in Seq(Message), s # <<>>
  PROVE  /\ Head(s) \in Message /\ Tail(s) \in Seq(Message) /\ Len(Tail(s)) = Len(s) - 1
         /\ Len(s) \in Nat \ {0} /\ Head(s) = s[1]
         /\ \A i \in 1..(Len(s) - 1) : Tail(s)[i] = s[i + 1]
         /\ ToSet(s) = {Head(s)} \cup ToSet(Tail(s))
         /\ IsInjective(s) => IsInjective(Tail(s)) /\ Head(s) \notin ToSet(Tail(s))
<1> DEFINE t == Tail(s)
<1>1. Len(s) \in Nat \ {0} /\ Head(s) = s[1]
  BY EmptySeq
<1>2. /\ Head(s) \in Message /\ t \in Seq(Message) /\ Len(t) = Len(s) - 1
      /\ \A i \in 1..Len(t) : t[i] = s[i + 1]
  BY HeadTailProperties
<1>3. DOMAIN s = 1..Len(s) /\ DOMAIN t = 1..(Len(s) - 1)
  BY <1>2, Elements
<1> HIDE DEF t
<1>4. ToSet(s) = {Head(s)} \cup ToSet(t)
  <2>1. ASSUME NEW i \in 1..Len(s) PROVE s[i] \in {Head(s)} \cup ToSet(t)
    <3>1. i = 1 \/ (i - 1 \in 1..Len(t) /\ (i - 1) + 1 = i)
      BY <1>1, <1>2
    <3>2. i = 1 \/ (i - 1 \in 1..(Len(s) - 1) /\ t[i - 1] = s[i])
      BY <1>2, <3>1
    <3> QED
      BY <1>1, <1>3, <3>2 DEF ToSet
  <2>2. ASSUME NEW i \in 1..(Len(s) - 1) PROVE t[i] \in ToSet(s)
    BY <1>1, <1>2, <1>3 DEF ToSet
  <2>3. s[1] \in ToSet(s)
    BY <1>1, <1>3 DEF ToSet
  <2> QED
    BY <1>1, <1>3, <2>1, <2>2, <2>3 DEF ToSet
<1>5. ASSUME IsInjective(s) PROVE IsInjective(t) /\ Head(s) \notin ToSet(t)
  <2>1. \A i \in 1..(Len(s) - 1) : i + 1 \in 1..Len(s) /\ 1 \in 1..Len(s) /\ i + 1 # 1
    BY <1>1
  <2>2. IsInjective(t)
    BY <1>1, <1>2, <1>3, <1>5, <2>1 DEF IsInjective
  <2>3. \A i \in 1..(Len(s) - 1) : t[i] # s[1]
    BY <1>1, <1>2, <1>3, <1>5, <2>1 DEF IsInjective
  <2> QED
    BY <1>1, <1>3, <2>2, <2>3 DEF ToSet
<1> QED
  BY <1>1, <1>2, <1>4, <1>5 DEF t

-------------------------------------------------------------------------------
(* Where every message is *)

\* The sets of messages in the seven places, pairwise disjoint and together all there are.
Placed(held, table, popped, sent, there, evicted, gone) ==
  /\ held \cup table \cup popped \cup sent \cup there \cup evicted \cup gone = 1..(next - 1)
  /\ held \cap (table \cup popped \cup sent \cup there \cup evicted \cup gone) = {}
  /\ table \cap (popped \cup sent \cup there \cup evicted \cup gone) = {}
  /\ popped \cap (sent \cup there \cup evicted \cup gone) = {}
  /\ sent \cap (there \cup evicted \cup gone) = {}
  /\ there \cap (evicted \cup gone) = {}
  /\ evicted \cap gone = {}

\* Every message is in one place, and once.
Conserved ==
  /\ Placed(Held, ToSet(rows), ToSet(batch), ToSet(outbox), ToSet(delivered), dropped, lost)
  /\ \A s \in {rows, batch, outbox, delivered} : IsInjective(s)

Sorted(s) == \A i, j \in DOMAIN s : i < j => s[i] < s[j]

\* What waits is sorted, a popped batch before the table; it is younger than what was replayed
\* or evicted; and a message about to be pushed is younger than all of these.
Ordered ==
  /\ Sorted(batch) /\ Sorted(rows)
  /\ \A p \in ToSet(batch), r \in ToSet(rows) : p < r
  /\ \A w \in ToSet(batch) \cup ToSet(rows), old \in dropped \cup {lastReplayed} : old < w
  /\ loop = "push" => \A m \in ToSet(rows) \cup dropped \cup {lastReplayed} : m < msg
  /\ lastReplayed < next

\* What the table is after a push, and a batch and the table after a pop.
LEMMA PushIs ==
  ASSUME TypeOK, Capacity, Push
  PROVE  \E n \in 0..Len(rows) : \E cut, kept \in Seq(Message) :
           /\ cut = SubSeq(rows, 1, n) /\ kept = SubSeq(rows, n + 1, Len(rows))
           /\ rows' = Append(kept, msg) /\ dropped' = dropped \cup ToSet(cut)
<1> DEFINE n == IF NoRoom THEN Evicted ELSE 0
<1>1. rows \in Seq(Message) /\ Len(rows) <= MaxRows
  BY DEF TypeOK, Capacity
<1>2. n \in 0..Len(rows)
  BY <1>1, MakeRoom DEF NoRoom
<1>3. /\ SubSeq(rows, 1, n) \in Seq(Message) /\ SubSeq(rows, n + 1, Len(rows)) \in Seq(Message)
      /\ \A x : x \in ToSet(SubSeq(rows, 1, n)) <=> \E i \in 1..n : x = rows[i]
  BY <1>1, <1>2, CutParts, CutElements
<1>4. /\ rows' = Append(SubSeq(rows, n + 1, Len(rows)), msg)
      /\ dropped' = dropped \cup {rows[i] : i \in 1..n}
  BY DEF Push, Rest
<1> QED
  BY <1>2, <1>3, <1>4

LEMMA PopIs ==
  ASSUME TypeOK, ReplayPop
  PROVE  \E n \in 0..Len(rows) : batch' = SubSeq(rows, 1, n) /\ rows' = SubSeq(rows, n + 1, Len(rows))
<1> DEFINE n == IF Len(rows) < Batch THEN Len(rows) ELSE Batch
<1>1. Len(rows) \in Nat
  BY Elements DEF TypeOK
<1>2. n \in 0..Len(rows)
  BY <1>1, BufferAssumption
<1>3. batch' = SubSeq(rows, 1, n) /\ rows' = SubSeq(rows, n + 1, Len(rows))
  BY DEF ReplayPop, Rest
<1> QED
  BY <1>2, <1>3

LEMMA InitConserved == Init => Conserved /\ Ordered
<1> SUFFICES ASSUME Init PROVE Conserved /\ Ordered
  OBVIOUS
<1>1. /\ rows = <<>> /\ batch = <<>> /\ outbox = <<>> /\ delivered = <<>> /\ loop = "idle"
      /\ next = 1 /\ lastReplayed = 0 /\ dropped = {} /\ lost = {} /\ Held = {}
  BY DEF Init, Held
<1>2. 1..(1 - 1) = {} /\ ToSet(<<>>) = {} /\ IsInjective(<<>>) /\ DOMAIN <<>> = {}
  BY NoElements, EmptySeq, LenProperties
<1>3. Conserved
  BY <1>1, <1>2 DEF Conserved, Placed
<1>4. Ordered
  BY <1>1, <1>2 DEF Ordered, Sorted
<1> QED
  BY <1>3, <1>4

\* Every step moves messages from one place to another, or makes a new one.
LEMMA ConservedStep ==
  ASSUME TypeOK, Capacity, Conserved, [Next]_vars
  PROVE  Conserved'
<1> DEFINE R == ToSet(rows)
           B == ToSet(batch)
           O == ToSet(outbox)
           D == ToSet(delivered)
<1>0. /\ rows \in Seq(Message) /\ batch \in Seq(Message) /\ outbox \in Seq(Message)
      /\ delivered \in Seq(Message) /\ next \in Nat \ {0}
      /\ IsInjective(rows) /\ IsInjective(batch) /\ IsInjective(outbox) /\ IsInjective(delivered)
      /\ Placed(Held, R, B, O, D, dropped, lost)
  BY DEF TypeOK, Conserved
<1>n. 1..(next + 1 - 1) = (1..(next - 1)) \cup {next} /\ next \notin 1..(next - 1)
  BY <1>0
<1>1. CASE Publish
  <2>1. /\ Held = {} /\ Held' = {next} /\ next' = next + 1
        /\ UNCHANGED <<rows, batch, outbox, delivered, dropped, lost>>
    BY <1>1 DEF Publish, Held, client, history
  <2> QED
    BY <1>0, <1>n, <2>1 DEF Conserved, Placed
<1>2. CASE Send
  <2>1. /\ Held = {msg} /\ Held' = {} /\ msg \in Message /\ outbox' = Append(outbox, msg)
        /\ UNCHANGED <<rows, batch, delivered, dropped, lost, next>>
    BY <1>2 DEF Send, Held, history, TypeOK
  <2>2. msg \notin O
    BY <1>0, <2>1 DEF Placed
  <2>3. ToSet(outbox') = O \cup {msg} /\ IsInjective(outbox')
    BY <1>0, <2>1, <2>2, AppendElement
  <2> QED
    BY <1>0, <2>1, <2>3 DEF Conserved, Placed
<1>3. CASE Push
  <2>1. /\ Held = {msg} /\ Held' = {} /\ msg \in Message
        /\ UNCHANGED <<batch, outbox, delivered, lost, next>>
    BY <1>3 DEF Push, Held, client, TypeOK
  <2>2. PICK n \in 0..Len(rows), cut \in Seq(Message), kept \in Seq(Message) :
           /\ cut = SubSeq(rows, 1, n) /\ kept = SubSeq(rows, n + 1, Len(rows))
           /\ rows' = Append(kept, msg) /\ dropped' = dropped \cup ToSet(cut)
    BY <1>3, PushIs
  <2>3. R = ToSet(cut) \cup ToSet(kept) /\ ToSet(cut) \cap ToSet(kept) = {} /\ IsInjective(kept)
    BY <1>0, <2>2, CutElements
  <2>4. msg \notin ToSet(kept)
    BY <1>0, <2>1, <2>3 DEF Placed
  <2>5. ToSet(rows') = ToSet(kept) \cup {msg} /\ IsInjective(rows')
    BY <2>1, <2>2, <2>3, <2>4, AppendElement
  <2> QED
    BY <1>0, <2>1, <2>2, <2>3, <2>5 DEF Conserved, Placed
<1>4. CASE ReplayPop
  <2>1. /\ Held = {} /\ Held' = {} /\ B = {}
        /\ UNCHANGED <<outbox, delivered, dropped, lost, next>>
    BY <1>4, NoElements DEF ReplayPop, Held, client, history, TypeOK
  <2>2. PICK n \in 0..Len(rows) : batch' = SubSeq(rows, 1, n) /\ rows' = SubSeq(rows, n + 1, Len(rows))
    BY <1>4, PopIs
  <2>3. /\ R = ToSet(batch') \cup ToSet(rows') /\ ToSet(batch') \cap ToSet(rows') = {}
        /\ IsInjective(rows') /\ IsInjective(batch')
    BY <1>0, <2>2, CutElements
  <2> QED
    BY <1>0, <2>1, <2>3 DEF Conserved, Placed
<1>5. CASE ReplayPublish
  <2>1. /\ batch # <<>> /\ outbox' = Append(outbox, Head(batch)) /\ batch' = Tail(batch)
        /\ Held = {} /\ Held' = {} /\ UNCHANGED <<rows, delivered, dropped, lost, next>>
    BY <1>5 DEF ReplayPublish, Held, TypeOK
  <2>2. /\ Head(batch) \in Message /\ B = {Head(batch)} \cup ToSet(batch')
        /\ IsInjective(batch') /\ Head(batch) \notin ToSet(batch')
    BY <1>0, <2>1, HeadElements
  <2>3. Head(batch) \notin O
    BY <1>0, <2>2 DEF Placed
  <2>4. ToSet(outbox') = O \cup {Head(batch)} /\ IsInjective(outbox')
    BY <1>0, <2>1, <2>2, <2>3, AppendElement
  <2> QED
    BY <1>0, <2>1, <2>2, <2>4 DEF Conserved, Placed
<1>6. CASE Acknowledge
  <2>1. /\ next \in Message /\ outbox' = Append(outbox, next) /\ next' = next + 1
        /\ Held' = Held /\ UNCHANGED <<rows, batch, delivered, dropped, lost>>
    BY <1>0, <1>6, BufferAssumption DEF Acknowledge, Held, history, Message
  <2>2. next \notin O
    BY <1>0, <1>n DEF Placed
  <2>3. ToSet(outbox') = O \cup {next} /\ IsInjective(outbox')
    BY <1>0, <2>1, <2>2, AppendElement
  <2> QED
    BY <1>0, <1>n, <2>1, <2>3 DEF Conserved, Placed
<1>7. CASE Deliver
  <2>1. /\ outbox # <<>> /\ delivered' = Append(delivered, Head(outbox)) /\ outbox' = Tail(outbox)
        /\ Held' = Held /\ UNCHANGED <<rows, batch, dropped, lost, next>>
    BY <1>7 DEF Deliver, Held, history
  <2>2. /\ Head(outbox) \in Message /\ O = {Head(outbox)} \cup ToSet(outbox')
        /\ IsInjective(outbox') /\ Head(outbox) \notin ToSet(outbox')
    BY <1>0, <2>1, HeadElements
  <2>3. Head(outbox) \notin D
    BY <1>0, <2>2 DEF Placed
  <2>4. ToSet(delivered') = D \cup {Head(outbox)} /\ IsInjective(delivered')
    BY <1>0, <2>1, <2>2, <2>3, AppendElement
  <2> QED
    BY <1>0, <2>1, <2>2, <2>4 DEF Conserved, Placed
<1>8. CASE Crash
  <2>1. /\ lost' = lost \cup Held \cup B \cup O /\ Held' = {} /\ batch' = <<>> /\ outbox' = <<>>
        /\ UNCHANGED <<rows, delivered, dropped, next>>
    BY <1>8 DEF Crash, Held
  <2>2. ToSet(batch') = {} /\ ToSet(outbox') = {} /\ IsInjective(batch') /\ IsInjective(outbox')
    BY <2>1, NoElements
  <2> QED
    BY <1>0, <2>1, <2>2 DEF Conserved, Placed
<1>9. CASE ReplayEnd \/ Connack \/ Handler \/ ConnectionLost \/ UNCHANGED vars
  <2>1. Held' = Held /\ UNCHANGED <<rows, batch, outbox, delivered, dropped, lost, next>>
    BY <1>9 DEF ReplayEnd, Connack, Handler, OnConnect, Schedule, OnDisconnect,
           ConnectionLost, UnchangedButNet, vars, client, history, Held
  <2> QED
    BY <1>0, <2>1 DEF Conserved, Placed
<1> QED
  BY <1>1, <1>2, <1>3, <1>4, <1>5, <1>6, <1>7, <1>8, <1>9 DEF Next

\* A sorted sequence keeps its order when it is cut, loses its head or gets a younger message.
LEMMA SortedAppend ==
  ASSUME NEW s \in Seq(Message), NEW m \in Message, Sorted(s), \A x \in ToSet(s) : x < m
  PROVE  Sorted(Append(s, m))
<1>1. /\ Append(s, m) \in Seq(Message) /\ Len(Append(s, m)) = Len(s) + 1
      /\ \A i \in 1..Len(s) : Append(s, m)[i] = s[i]
      /\ Append(s, m)[Len(s) + 1] = m
  BY AppendProperties
<1>2. Len(s) \in Nat /\ DOMAIN s = 1..Len(s) /\ DOMAIN Append(s, m) = 1..(Len(s) + 1)
  BY <1>1, Elements
<1>3. \A i \in 1..Len(s) : s[i] < m
  BY <1>2 DEF ToSet
<1> QED
  BY <1>1, <1>2, <1>3 DEF Sorted

LEMMA SortedCut ==
  ASSUME NEW s \in Seq(Message), NEW n \in 0..Len(s), Sorted(s)
  PROVE  /\ Sorted(SubSeq(s, 1, n)) /\ Sorted(SubSeq(s, n + 1, Len(s)))
         /\ \A x \in ToSet(SubSeq(s, 1, n)), y \in ToSet(SubSeq(s, n + 1, Len(s))) : x < y
<1> DEFINE a == SubSeq(s, 1, n)
           b == SubSeq(s, n + 1, Len(s))
<1>1. /\ a \in Seq(Message) /\ Len(a) = n /\ b \in Seq(Message) /\ Len(b) = Len(s) - n
      /\ \A i \in 1..n : a[i] = s[i]
      /\ \A i \in 1..(Len(s) - n) : b[i] = s[i + n]
  BY CutParts
<1> HIDE DEF a, b
<1>2. /\ Len(s) \in Nat /\ n \in Nat /\ DOMAIN s = 1..Len(s)
      /\ DOMAIN a = 1..n /\ DOMAIN b = 1..(Len(s) - n)
  BY <1>1, Elements
<1>3. \A i, j \in 1..Len(s) : i < j => s[i] < s[j]
  BY <1>2 DEF Sorted
<1>4. Sorted(a)
  BY <1>1, <1>2, <1>3 DEF Sorted
<1>5. Sorted(b)
  <2> SUFFICES ASSUME NEW i \in 1..(Len(s) - n), NEW j \in 1..(Len(s) - n), i < j PROVE b[i] < b[j]
    BY <1>2 DEF Sorted
  <2>1. i + n \in 1..Len(s) /\ j + n \in 1..Len(s) /\ i + n < j + n
    BY <1>2
  <2> QED
    BY <1>1, <1>3, <2>1
<1>6. ASSUME NEW i \in 1..n, NEW j \in 1..(Len(s) - n) PROVE a[i] < b[j]
  <2>1. i \in 1..Len(s) /\ j + n \in 1..Len(s) /\ i < j + n
    BY <1>2
  <2> QED
    BY <1>1, <1>3, <2>1
<1>7. \A x \in ToSet(a), y \in ToSet(b) : x < y
  BY <1>2, <1>6 DEF ToSet
<1> QED
  BY <1>4, <1>5, <1>7 DEF a, b

LEMMA SortedTail ==
  ASSUME NEW s \in Seq(Message), s # <<>>, Sorted(s)
  PROVE  Sorted(Tail(s)) /\ \A x \in ToSet(Tail(s)) : Head(s) < x
<1>1. /\ Len(s) \in Nat \ {0} /\ Head(s) = s[1] /\ Tail(s) \in Seq(Message)
      /\ Len(Tail(s)) = Len(s) - 1 /\ \A i \in 1..(Len(s) - 1) : Tail(s)[i] = s[i + 1]
  BY HeadElements
<1>2. DOMAIN s = 1..Len(s) /\ DOMAIN Tail(s) = 1..(Len(s) - 1)
  BY <1>1, Elements
<1>3. \A i, j \in 1..(Len(s) - 1) : i < j => s[i + 1] < s[j + 1]
  BY <1>1, <1>2 DEF Sorted
<1>4. \A i \in 1..(Len(s) - 1) : s[1] < s[i + 1]
  BY <1>1, <1>2 DEF Sorted
<1> QED
  BY <1>1, <1>2, <1>3, <1>4 DEF Sorted, ToSet

\* No step brings what waits out of order.
LEMMA OrderedStep ==
  ASSUME TypeOK, Capacity, Conserved, Ordered, [Next]_vars
  PROVE  Ordered'
<1> DEFINE R == ToSet(rows)
           B == ToSet(batch)
<1>0. /\ rows \in Seq(Message) /\ batch \in Seq(Message) /\ next \in Nat /\ lastReplayed \in Int
      /\ dropped \subseteq Message /\ R \subseteq Message /\ B \subseteq Message /\ Message \subseteq Int
  BY BufferAssumption, Elements DEF TypeOK, Message
<1>e. /\ Sorted(batch) /\ Sorted(rows) /\ \A x \in B, y \in R : x < y
      /\ \A w \in B \cup R, old \in dropped \cup {lastReplayed} : old < w
      /\ lastReplayed < next
  BY DEF Ordered
<1>n. \A m \in R \cup B \cup dropped \cup {lastReplayed} : m < next
  <2>1. R \cup B \cup dropped \subseteq 1..(next - 1)
    BY DEF Conserved, Placed
  <2> QED
    BY <1>0, <1>e, <2>1
<1>b. Sorted(<<>>) /\ ToSet(<<>>) = {}
  BY NoElements, EmptySeq, LenProperties DEF Sorted
<1>1. CASE Publish
  <2>1. msg' = next /\ next' = next + 1 /\ UNCHANGED <<rows, batch, dropped, lastReplayed>>
    BY <1>1 DEF Publish, history
  <2> QED
    BY <1>0, <1>e, <1>n, <2>1 DEF Ordered
<1>2. CASE Push
  <2>1. /\ msg \in Message /\ loop = "push" /\ loop' = "idle" /\ B = {}
        /\ UNCHANGED <<batch, next, lastReplayed>>
    BY <1>2, NoElements DEF Push, TypeOK
  <2>2. PICK n \in 0..Len(rows), cut \in Seq(Message), kept \in Seq(Message) :
           /\ cut = SubSeq(rows, 1, n) /\ kept = SubSeq(rows, n + 1, Len(rows))
           /\ rows' = Append(kept, msg) /\ dropped' = dropped \cup ToSet(cut)
    BY <1>2, PushIs
  <2>3. R = ToSet(cut) \cup ToSet(kept)
    BY <1>0, <2>2, CutElements
  <2>4. Sorted(kept) /\ \A x \in ToSet(cut), y \in ToSet(kept) : x < y
    BY <1>0, <1>e, <2>2, SortedCut
  <2>5. \A m \in R \cup dropped \cup {lastReplayed} : m < msg
    BY <2>1 DEF Ordered
  <2>6. Sorted(rows') /\ ToSet(rows') = ToSet(kept) \cup {msg}
    BY <2>1, <2>2, <2>3, <2>4, <2>5, SortedAppend, AppendElement
  <2>7. \A w \in ToSet(rows'), old \in dropped' \cup {lastReplayed} : old < w
    BY <1>e, <2>2, <2>3, <2>4, <2>5, <2>6
  <2> QED
    BY <1>e, <2>1, <2>6, <2>7 DEF Ordered
<1>3. CASE ReplayPop
  <2>1. B = {} /\ loop' # "push" /\ UNCHANGED <<dropped, lastReplayed, next>>
    BY <1>3, NoElements DEF ReplayPop, history, TypeOK
  <2>2. PICK n \in 0..Len(rows) : batch' = SubSeq(rows, 1, n) /\ rows' = SubSeq(rows, n + 1, Len(rows))
    BY <1>3, PopIs
  <2>3. R = ToSet(batch') \cup ToSet(rows')
    BY <1>0, <2>2, CutElements
  <2>4. Sorted(batch') /\ Sorted(rows') /\ \A x \in ToSet(batch'), y \in ToSet(rows') : x < y
    BY <1>0, <1>e, <2>2, SortedCut
  <2> QED
    BY <1>e, <2>1, <2>3, <2>4 DEF Ordered
<1>4. CASE ReplayPublish
  <2>1. /\ batch # <<>> /\ batch' = Tail(batch) /\ lastReplayed' = Head(batch) /\ loop' # "push"
        /\ UNCHANGED <<rows, dropped, next>>
    BY <1>4 DEF ReplayPublish, TypeOK
  <2>2. B = {Head(batch)} \cup ToSet(batch')
    BY <1>0, <2>1, HeadElements
  <2>3. Sorted(batch') /\ \A x \in ToSet(batch') : Head(batch) < x
    BY <1>0, <1>e, <2>1, SortedTail
  <2> QED
    BY <1>e, <1>n, <2>1, <2>2, <2>3 DEF Ordered
<1>5. CASE Send \/ ReplayEnd \/ Acknowledge \/ Deliver
  <2>1. /\ UNCHANGED <<rows, batch, dropped, lastReplayed, msg>> /\ next' \in {next, next + 1}
        /\ loop' = "push" => loop = "push"
    BY <1>5 DEF Send, ReplayEnd, Acknowledge, Deliver, history
  <2> QED
    BY <1>0, <1>e, <2>1 DEF Ordered
<1>6. CASE Crash
  <2>1. batch' = <<>> /\ loop' = "idle" /\ UNCHANGED <<rows, dropped, lastReplayed, next>>
    BY <1>6 DEF Crash
  <2> QED
    BY <1>b, <1>e, <2>1 DEF Ordered
<1>7. CASE Connack \/ Handler \/ ConnectionLost \/ UNCHANGED vars
  <2>1. UNCHANGED <<rows, batch, dropped, lastReplayed, msg, next, loop>>
    BY <1>7 DEF Connack, Handler, OnConnect, Schedule, OnDisconnect,
           ConnectionLost, UnchangedButNet, vars, history
  <2> QED
    BY <2>1 DEF Ordered
<1> QED
  BY <1>1, <1>2, <1>3, <1>4, <1>5, <1>6, <1>7 DEF Next

\* Two sequences one after the other, the first sorted below the second.
LEMMA SortedConcat ==
  ASSUME NEW s \in Seq(Message), NEW t \in Seq(Message), Sorted(s), Sorted(t),
         \A x \in ToSet(s), y \in ToSet(t) : x < y
  PROVE  s \o t \in Seq(Message) /\ Sorted(s \o t) /\ ToSet(s \o t) = ToSet(s) \cup ToSet(t)
<1> DEFINE u == s \o t
<1>1. /\ u \in Seq(Message) /\ Len(u) = Len(s) + Len(t)
      /\ \A i \in 1..(Len(s) + Len(t)) : u[i] = IF i <= Len(s) THEN s[i] ELSE t[i - Len(s)]
  BY ConcatProperties
<1> HIDE DEF u
<1>2. /\ Len(s) \in Nat /\ Len(t) \in Nat /\ DOMAIN s = 1..Len(s) /\ DOMAIN t = 1..Len(t)
      /\ DOMAIN u = 1..(Len(s) + Len(t))
  BY <1>1, Elements
<1>3. /\ \A i \in 1..Len(s) : u[i] = s[i]
      /\ \A i \in (Len(s) + 1)..(Len(s) + Len(t)) : i - Len(s) \in 1..Len(t) /\ u[i] = t[i - Len(s)]
  BY <1>1, <1>2
<1>4. \A i \in 1..Len(t) : u[i + Len(s)] = t[i] /\ i + Len(s) \in 1..(Len(s) + Len(t))
  <2> SUFFICES ASSUME NEW i \in 1..Len(t)
               PROVE  u[i + Len(s)] = t[i] /\ i + Len(s) \in 1..(Len(s) + Len(t))
    OBVIOUS
  <2>1. i + Len(s) \in (Len(s) + 1)..(Len(s) + Len(t)) /\ (i + Len(s)) - Len(s) = i
    BY <1>2
  <2> QED
    BY <1>2, <1>3, <2>1
<1>5. Sorted(u)
  <2> SUFFICES ASSUME NEW i \in DOMAIN u, NEW j \in DOMAIN u, i < j PROVE u[i] < u[j]
    BY DEF Sorted
  <2>1. CASE j <= Len(s)
    BY <1>2, <1>3, <2>1 DEF Sorted
  <2>2. CASE i <= Len(s) /\ j > Len(s)
    <3>1. i \in 1..Len(s) /\ j \in (Len(s) + 1)..(Len(s) + Len(t))
      BY <1>2, <2>2
    <3>2. u[i] \in ToSet(s) /\ u[j] \in ToSet(t)
      BY <1>2, <1>3, <3>1 DEF ToSet
    <3> QED
      BY <3>2
  <2>3. CASE i > Len(s)
    <3>1. i \in (Len(s) + 1)..(Len(s) + Len(t)) /\ j \in (Len(s) + 1)..(Len(s) + Len(t))
      BY <1>2, <2>3
    <3>2. i - Len(s) < j - Len(s)
      BY <1>2, <3>1
    <3> QED
      BY <1>2, <1>3, <3>1, <3>2 DEF Sorted
  <2> QED
    BY <1>2, <2>1, <2>2, <2>3
<1>6. ToSet(u) = ToSet(s) \cup ToSet(t)
  <2>1. ASSUME NEW i \in DOMAIN u PROVE u[i] \in ToSet(s) \cup ToSet(t)
    <3>1. i \in 1..Len(s) \/ i \in (Len(s) + 1)..(Len(s) + Len(t))
      BY <1>2
    <3> QED
      BY <1>2, <1>3, <3>1 DEF ToSet
  <2>2. \A i \in DOMAIN s : i \in DOMAIN u /\ s[i] = u[i]
    BY <1>2, <1>3
  <2>3. \A i \in DOMAIN t : t[i] \in ToSet(u)
    BY <1>2, <1>4 DEF ToSet
  <2> QED
    BY <2>1, <2>2, <2>3 DEF ToSet
<1> QED
  BY <1>1, <1>5, <1>6 DEF u

\* The inductive invariant of the messages' places and order.
THEOREM PlacesInvariant == Spec => [](Conserved /\ Ordered)
<1>1. TypeOK /\ Capacity /\ Conserved /\ Ordered /\ [Next]_vars => Conserved' /\ Ordered'
  BY ConservedStep, OrderedStep
<1> QED
  BY <1>1, InitConserved, Invariant, PTL DEF Spec

\* Every message is in exactly one place, and once: none is handed to the client twice, and none
\* vanishes but by an eviction or with the process (lines 133-154, 422-430, 464-478).
THEOREM NothingVanishes == Spec => []Conservation
<1>1. Conserved => Conservation
  <2> SUFFICES ASSUME Conserved PROVE Conservation
    OBVIOUS
  <2> DEFINE places == <<Held, ToSet(rows), ToSet(batch), ToSet(outbox), ToSet(delivered), dropped, lost>>
  <2>1. DOMAIN places = 1..7
    OBVIOUS
  <2>2. /\ places[1] = Held /\ places[2] = ToSet(rows) /\ places[3] = ToSet(batch)
        /\ places[4] = ToSet(outbox) /\ places[5] = ToSet(delivered) /\ places[6] = dropped
        /\ places[7] = lost
    OBVIOUS
  <2> HIDE DEF places
  <2>3. 1..7 = {1, 2, 3, 4, 5, 6, 7}
    OBVIOUS
  <2>4. UNION {places[i] : i \in DOMAIN places} =
          places[1] \cup places[2] \cup places[3] \cup places[4] \cup places[5] \cup places[6] \cup places[7]
    BY <2>1, <2>3
  <2>5. UNION {places[i] : i \in DOMAIN places} = 1..(next - 1)
    BY <2>2, <2>4 DEF Conserved, Placed
  <2>6. \A i, j \in DOMAIN places : i # j => places[i] \cap places[j] = {}
    <3>1. \A i, j \in {1, 2, 3, 4, 5, 6, 7} : i < j => places[i] \cap places[j] = {}
      BY <2>2 DEF Conserved, Placed
    <3> QED
      BY <2>1, <2>3, <3>1
  <2> QED
    BY <2>5, <2>6 DEF Conservation, Conserved, places
<1> QED
  BY <1>1, PlacesInvariant, PTL

\* Buffered messages are replayed oldest first across batches, flapping connections, evictions
\* and crashes, and only the oldest are evicted (lines 112, 133-154, 464-478).
THEOREM ReplayedOldestFirst == Spec => []OldestFirst
<1>1. TypeOK /\ Ordered => OldestFirst
  <2> SUFFICES ASSUME TypeOK, Ordered PROVE OldestFirst
    OBVIOUS
  <2> DEFINE pushed == IF loop = "push" THEN <<msg>> ELSE <<>>
             waiting == batch \o rows \o pushed
  <2>0. rows \in Seq(Message) /\ batch \in Seq(Message)
    BY DEF TypeOK
  <2>1. pushed \in Seq(Message) /\ Sorted(pushed) /\ ToSet(pushed) = IF loop = "push" THEN {msg} ELSE {}
    <3>1. CASE loop = "push"
      <4>1. pushed = <<msg>> /\ msg \in Message
        BY <3>1 DEF TypeOK
      <4>2. /\ <<msg>> \in Seq(Message) /\ Len(<<msg>>) = 1 /\ DOMAIN <<msg>> = {1} /\ <<msg>>[1] = msg
        BY <4>1
      <4> QED
        BY <3>1, <4>1, <4>2 DEF Sorted, ToSet
    <3>2. CASE loop # "push"
      BY <3>2, EmptySeq, LenProperties, NoElements DEF Sorted
    <3> QED
      BY <3>1, <3>2
  <2> HIDE DEF pushed
  <2>2. /\ batch \o rows \in Seq(Message) /\ Sorted(batch \o rows)
        /\ ToSet(batch \o rows) = ToSet(batch) \cup ToSet(rows)
    BY <2>0, SortedConcat DEF Ordered
  <2>3. \A x \in ToSet(batch \o rows), y \in ToSet(pushed) : x < y
    <3>1. loop = "push" => ToSet(batch) = {}
      BY NoElements DEF TypeOK
    <3> QED
      BY <2>1, <2>2, <3>1 DEF Ordered
  <2>4. /\ waiting \in Seq(Message) /\ Sorted(waiting)
        /\ ToSet(waiting) = ToSet(batch) \cup ToSet(rows) \cup ToSet(pushed)
    BY <2>1, <2>2, <2>3, SortedConcat
  <2>5. \A w \in ToSet(waiting), old \in dropped \cup {lastReplayed} : old < w
    BY <2>1, <2>4 DEF Ordered
  <2>6. /\ \A i, j \in DOMAIN waiting : i < j => waiting[i] < waiting[j]
        /\ \A i \in DOMAIN waiting : lastReplayed < waiting[i] /\ \A m \in dropped : m < waiting[i]
    BY <2>4, <2>5 DEF Sorted, ToSet
  <2> QED
    BY <2>6 DEF OldestFirst, pushed
<1> QED
  BY <1>1, PlacesInvariant, Invariant, PTL
===============================================================================
