------------------------- MODULE AlertPipeline_proofs -------------------------
(***************************************************************************)
(* Proofs about AlertPipeline for any number of handlers and kinds of      *)
(* alerts, any lifetime of a key and any number of failures.               *)
(***************************************************************************)
EXTENDS AlertPipeline, SequenceTheorems, TLAPS

\* OncePerWindow is not inductive: a handler that is about to set a key that another has set
\* since its check has not published since that key was created either.
NotYet ==
  \A h \in Handlers :
    /\ step[h] \in {"commit", "publish"} => h \notin window[Current(h)]
    /\ step[h] = "set" /\ ttl[Current(h)] > 0 => h \notin window[Current(h)]

Inv == TypeOK /\ NotYet /\ KeyIsBacked

\* A busy handler has an alert at hand; emit_alert leaves the handler its other alerts.
LEMMA Busy ==
  ASSUME TypeOK, NEW h \in Handlers, step[h] # "free"
  PROVE  /\ alerts[h] # <<>> /\ alerts[h] \in Seq(Kind) /\ Current(h) \in Kind
         /\ Tail(alerts[h]) \in Seq(Kind)
         /\ Len(alerts[h]) > 1 <=> Tail(alerts[h]) # <<>>
<1>1. alerts[h] \in Seq(Kind) /\ alerts[h] # <<>>
  BY DEF TypeOK
<1>2. /\ Head(alerts[h]) \in Kind /\ Tail(alerts[h]) \in Seq(Kind)
      /\ Len(Tail(alerts[h])) = Len(alerts[h]) - 1
  BY <1>1, HeadTailProperties
<1>3. Len(alerts[h]) \in Nat
  BY <1>1, LenProperties
<1>4. Tail(alerts[h]) = <<>> <=> Len(Tail(alerts[h])) = 0
  BY <1>2, EmptySeq, LenProperties
<1>5. Len(alerts[h]) > 1 <=> ~(Len(Tail(alerts[h])) = 0)
  <2>1. Len(alerts[h]) \in Nat \ {0}
    BY <1>1, EmptySeq, Zenon
  <2>2. ASSUME NEW n \in Nat \ {0}, NEW m, m = n - 1
        PROVE  n > 1 <=> ~(m = 0)
    BY <2>2
  <2> QED
    BY <1>2, <2>1, <2>2, Zenon
<1> QED
  BY <1>1, <1>2, <1>4, <1>5, Zenon DEF Current

\* Every list of alerts a message brings is a sequence of kinds and not empty.
LEMMA BatchType == \A s \in Batches : s \in Seq(Kind) /\ s # <<>>
<1> SUFFICES ASSUME NEW s \in Batches PROVE s \in Seq(Kind) /\ s # <<>>
  OBVIOUS
<1>1. PICK n \in Kind : s \in [1..n -> Kind]
  BY DEF Batches
<1>2. n \in Nat /\ n > 0
  BY AlertAssumption DEF Kind
<1>3. s \in Seq(Kind) /\ Len(s) = n
  BY <1>1, <1>2, SeqDef, LenProperties
<1> QED
  BY <1>2, <1>3, EmptySeq

LEMMA InitInv == Init => Inv
<1> SUFFICES ASSUME Init PROVE Inv
  OBVIOUS
<1>1. <<>> \in Seq(Kind)
  BY EmptySeq
<1>2. TypeOK
  BY <1>1, AlertAssumption DEF Init, TypeOK, Step
<1>3. NotYet /\ KeyIsBacked
  BY DEF Init, NotYet, KeyIsBacked
<1> QED
  BY <1>2, <1>3 DEF Inv

\* What one handler does to itself.
LEMMA Moves ==
  ASSUME TypeOK, NEW h \in Handlers, NEW place \in Step \ {"free"}, step[h] # "free", Goto(h, place)
  PROVE  /\ step' \in [Handlers -> Step] /\ alerts' \in [Handlers -> Seq(Kind)]
         /\ \A g \in Handlers : step'[g] = "free" <=> alerts'[g] = <<>>
         /\ \A g \in Handlers : Current(g)' = Current(g)
         /\ \A g \in Handlers \ {h} : step'[g] = step[g]
         /\ step'[h] = place
BY DEF TypeOK, Goto, Current

LEMMA Returns ==
  ASSUME TypeOK, NEW h \in Handlers, step[h] # "free", Return(h)
  PROVE  /\ step' \in [Handlers -> Step] /\ alerts' \in [Handlers -> Seq(Kind)]
         /\ \A g \in Handlers : step'[g] = "free" <=> alerts'[g] = <<>>
         /\ \A g \in Handlers \ {h} : step'[g] = step[g] /\ alerts'[g] = alerts[g]
         /\ step'[h] \in {"check", "free"}
<1>1. /\ Tail(alerts[h]) \in Seq(Kind)
      /\ Len(alerts[h]) > 1 <=> Tail(alerts[h]) # <<>>
  BY Busy
<1>2. /\ alerts' \in [Handlers -> Seq(Kind)] /\ step' \in [Handlers -> Step]
      /\ \A g \in Handlers \ {h} : step'[g] = step[g] /\ alerts'[g] = alerts[g]
      /\ alerts'[h] = Tail(alerts[h])
      /\ step'[h] = IF Len(alerts[h]) > 1 THEN "check" ELSE "free"
  BY <1>1 DEF TypeOK, Return, Step
<1>3. \A g \in Handlers : step[g] = "free" <=> alerts[g] = <<>>
  BY DEF TypeOK
<1> QED
  BY <1>1, <1>2, <1>3

\* A step after which a handler that was not about to publish is not about to, and nothing
\* else that the invariant speaks of has changed.
LEMMA Aside ==
  ASSUME Inv, NEW h \in Handlers, step[h] \notin {"commit", "publish"},
         step'[h] \in {"free", "check"},
         \A g \in Handlers \ {h} : step'[g] = step[g] /\ alerts'[g] = alerts[g],
         UNCHANGED <<ttl, failures, window, broken>>
  PROVE  NotYet' /\ KeyIsBacked'
<1>1. \A g \in Handlers \ {h} : Current(g)' = Current(g)
  BY DEF Current
<1>2. NotYet'
  BY <1>1 DEF Inv, NotYet
<1>3. \A k \in Kind : Underway(k) => Underway(k)'
  BY <1>1 DEF Underway, Reporting, At
<1>4. KeyIsBacked'
  BY <1>3 DEF Inv, KeyIsBacked
<1> QED
  BY <1>2, <1>4

\* A handler's own steps.
LEMMA HandlerStep ==
  ASSUME Inv, NEW h \in Handlers, Receive(h) \/ Handle(h) \/ Fail(h)
  PROVE  Inv'
<1> USE DEF Inv
<1>1. CASE Receive(h)
  <2>1. PICK found \in Batches : alerts' = [alerts EXCEPT ![h] = found]
    BY <1>1 DEF Receive
  <2>2. found \in Seq(Kind) /\ found # <<>>
    BY BatchType
  <2>3. TypeOK'
    BY <1>1, <2>1, <2>2 DEF Receive, TypeOK, Step
  <2>4. NotYet' /\ KeyIsBacked'
    <3>1. /\ step[h] \notin {"commit", "publish"} /\ step'[h] \in {"free", "check"}
          /\ \A g \in Handlers \ {h} : step'[g] = step[g] /\ alerts'[g] = alerts[g]
          /\ UNCHANGED <<ttl, failures, window, broken>>
      BY <1>1, <2>1 DEF Receive, TypeOK
    <3> QED
      BY <3>1, Aside
  <2> QED
    BY <2>3, <2>4
<1>2. CASE Suppress(h)
  <2>1. step[h] = "check" /\ Return(h) /\ UNCHANGED <<ttl, unresolved, failures, window, broken>>
    BY <1>2 DEF Suppress, At
  <2>2. TypeOK'
    BY <2>1, Returns DEF TypeOK
  <2>3. NotYet' /\ KeyIsBacked'
    BY <2>1, Returns, Aside
  <2> QED
    BY <2>2, <2>3
<1>3. CASE Webhooks(h)
  <2>1. step[h] = "webhooks" /\ Return(h) /\ UNCHANGED <<ttl, unresolved, failures, window, broken>>
    BY <1>3 DEF Webhooks, At
  <2>2. TypeOK'
    BY <2>1, Returns DEF TypeOK
  <2>3. NotYet' /\ KeyIsBacked'
    BY <2>1, Returns, Aside
  <2> QED
    BY <2>2, <2>3
<1>4. CASE Pass(h)
  <2>1. /\ step[h] = "check" /\ ttl[Current(h)] = 0 /\ Goto(h, "set")
        /\ UNCHANGED <<ttl, unresolved, failures, window, broken>>
    BY <1>4 DEF Pass, At
  <2>2. /\ step' \in [Handlers -> Step] /\ alerts' \in [Handlers -> Seq(Kind)]
        /\ \A g \in Handlers : step'[g] = "free" <=> alerts'[g] = <<>>
        /\ \A g \in Handlers : Current(g)' = Current(g)
        /\ \A g \in Handlers \ {h} : step'[g] = step[g]
        /\ step'[h] = "set"
    BY <2>1, Moves DEF Step
  <2>3. TypeOK'
    BY <2>1, <2>2 DEF TypeOK
  <2>4. NotYet'
    BY <2>1, <2>2 DEF NotYet
  <2>5. \A k \in Kind : Underway(k) => Underway(k)'
    BY <2>1, <2>2 DEF Underway, Reporting, At, Goto
  <2>6. KeyIsBacked'
    BY <2>1, <2>5 DEF KeyIsBacked
  <2> QED
    BY <2>3, <2>4, <2>6
<1>5. CASE SetKey(h)
  <2> DEFINE k == Current(h)
  <2>1. /\ step[h] = "set" /\ Goto(h, "commit") /\ UNCHANGED <<unresolved, failures>>
        /\ ttl' = [ttl EXCEPT ![k] = Ttl]
        /\ window' = IF ttl[k] = 0 THEN [window EXCEPT ![k] = {}] ELSE window
        /\ broken' = IF ttl[k] = 0 THEN broken \ {k} ELSE broken
    BY <1>5 DEF SetKey, At
  <2>2. /\ step' \in [Handlers -> Step] /\ alerts' \in [Handlers -> Seq(Kind)]
        /\ \A g \in Handlers : step'[g] = "free" <=> alerts'[g] = <<>>
        /\ \A g \in Handlers : Current(g)' = Current(g)
        /\ \A g \in Handlers \ {h} : step'[g] = step[g]
        /\ step'[h] = "commit"
    BY <2>1, Moves DEF Step
  <2>3. k \in Kind /\ alerts[h] # <<>>
    BY <2>1, Busy
  <2>4. /\ ttl' \in [Kind -> 0..Ttl] /\ window' \in [Kind -> SUBSET Handlers] /\ ttl[k] \in Nat
        /\ broken' \subseteq broken /\ \A j \in Kind \ {k} : j \in broken => j \in broken'
    BY <2>1, <2>3, AlertAssumption DEF TypeOK
  <2>5. TypeOK'
    BY <2>1, <2>2, <2>4 DEF TypeOK
  <2>6. \A j \in Kind \ {k} : ttl'[j] = ttl[j] /\ window'[j] = window[j]
    BY <2>1, <2>3 DEF TypeOK
  <2>7. (ttl[k] = 0 /\ window'[k] = {}) \/ (ttl[k] > 0 /\ window'[k] = window[k])
    BY <2>1, <2>3, <2>4 DEF TypeOK
  <2>8. NotYet'
    <3> SUFFICES ASSUME NEW g \in Handlers
                 PROVE  /\ step'[g] \in {"commit", "publish"} => g \notin window'[Current(g)]
                        /\ step'[g] = "set" /\ ttl'[Current(g)] > 0 => g \notin window'[Current(g)]
      BY <2>2 DEF NotYet
    <3>1. step'[g] # "free" => Current(g) \in Kind
      BY <2>1, <2>2, Busy
    <3>2. CASE g = h
      BY <3>2, <2>1, <2>2, <2>7 DEF NotYet
    <3>3. CASE g # h /\ Current(g) = k
      BY <3>3, <2>2, <2>7 DEF NotYet
    <3>4. CASE g # h /\ Current(g) # k
      BY <3>1, <3>4, <2>2, <2>6 DEF NotYet
    <3> QED
      BY <3>2, <3>3, <3>4
  <2>9. \A j \in Kind : Underway(j) => Underway(j)'
    BY <2>1, <2>2 DEF Underway, Reporting, At, Goto
  <2>10. Underway(k)'
    BY <2>1, <2>2, <2>3 DEF Underway, Reporting, At, Goto
  <2>11. KeyIsBacked'
    <3> SUFFICES ASSUME NEW j \in Kind, ttl'[j] > 0, j \notin broken'
                 PROVE  window'[j] # {} \/ Underway(j)'
      BY DEF KeyIsBacked
    <3>1. CASE j = k
      BY <2>2, <2>10, <3>1 DEF Underway, Reporting, At
    <3>2. CASE j # k
      BY <2>4, <2>6, <2>9, <3>2 DEF KeyIsBacked
    <3> QED
      BY <3>1, <3>2
  <2> QED
    BY <2>5, <2>8, <2>11
<1>6. CASE Commit(h)
  <2> DEFINE k == Current(h)
  <2>1. /\ step[h] = "commit" /\ Goto(h, "publish") /\ UNCHANGED <<ttl, failures, window, broken>>
        /\ unresolved' = [unresolved EXCEPT ![k] = IF @ < Many THEN @ + 1 ELSE Many]
    BY <1>6 DEF Commit, At
  <2>2. /\ step' \in [Handlers -> Step] /\ alerts' \in [Handlers -> Seq(Kind)]
        /\ \A g \in Handlers : step'[g] = "free" <=> alerts'[g] = <<>>
        /\ \A g \in Handlers : Current(g)' = Current(g)
        /\ \A g \in Handlers \ {h} : step'[g] = step[g]
        /\ step'[h] = "publish"
    BY <2>1, Moves DEF Step
  <2>3. unresolved' \in [Kind -> 0..Many]
    BY <2>1, Busy, AlertAssumption DEF TypeOK
  <2>4. TypeOK'
    BY <2>1, <2>2, <2>3 DEF TypeOK
  <2>5. NotYet'
    BY <2>1, <2>2 DEF NotYet
  <2>6. \A j \in Kind : Underway(j) => Underway(j)'
    BY <2>1, <2>2 DEF Underway, Reporting, At, Goto
  <2>7. KeyIsBacked'
    BY <2>1, <2>6 DEF KeyIsBacked
  <2> QED
    BY <2>4, <2>5, <2>7
<1>7. CASE Publish(h)
  <2> DEFINE k == Current(h)
  <2>1. /\ step[h] = "publish" /\ Goto(h, "webhooks") /\ UNCHANGED <<ttl, unresolved, failures, broken>>
        /\ window' = [window EXCEPT ![k] = @ \cup {h}]
    BY <1>7 DEF Publish, At
  <2>2. /\ step' \in [Handlers -> Step] /\ alerts' \in [Handlers -> Seq(Kind)]
        /\ \A g \in Handlers : step'[g] = "free" <=> alerts'[g] = <<>>
        /\ \A g \in Handlers : Current(g)' = Current(g)
        /\ \A g \in Handlers \ {h} : step'[g] = step[g]
        /\ step'[h] = "webhooks"
    BY <2>1, Moves DEF Step
  <2>3. k \in Kind /\ window' \in [Kind -> SUBSET Handlers]
    BY <2>1, Busy DEF TypeOK
  <2>4. TypeOK'
    BY <2>1, <2>2, <2>3 DEF TypeOK
  <2>5. \A j \in Kind : window'[j] \subseteq window[j] \cup {h} /\ window[j] \subseteq window'[j]
    BY <2>1, <2>3 DEF TypeOK
  <2>6. \A g \in Handlers : step'[g] # "free" => Current(g) \in Kind
    BY <2>1, <2>2, Busy
  <2>7. NotYet'
    BY <2>1, <2>2, <2>5, <2>6 DEF NotYet
  <2>8. h \in window'[k]
    BY <2>1, <2>3 DEF TypeOK
  <2>9. \A j \in Kind \ {k} : Underway(j) => Underway(j)'
    BY <2>1, <2>2 DEF Underway, Reporting, At, Goto
  <2>10. KeyIsBacked'
    BY <2>1, <2>5, <2>8, <2>9 DEF KeyIsBacked
  <2> QED
    BY <2>4, <2>7, <2>10
<1>8. CASE Fail(h)
  <2>1. /\ step' = [step EXCEPT ![h] = "free"] /\ alerts' = [alerts EXCEPT ![h] = <<>>]
        /\ failures < MaxFailures /\ failures' = failures + 1
        /\ broken' = broken \cup {k \in Kind : Reporting(h, k)}
        /\ UNCHANGED <<ttl, unresolved, window>>
    BY <1>8 DEF Fail
  <2>2. failures' \in 0..MaxFailures
    BY <2>1, AlertAssumption DEF TypeOK
  <2>3. <<>> \in Seq(Kind)
    BY EmptySeq
  <2>4. TypeOK'
    BY <2>1, <2>2, <2>3 DEF TypeOK, Step
  <2>5. NotYet'
    BY <2>1 DEF NotYet, TypeOK, Current
  <2>6. \A k \in Kind : Underway(k) => Underway(k)' \/ k \in broken'
    <3> SUFFICES ASSUME NEW k \in Kind, NEW g \in Handlers, Reporting(g, k), k \notin broken'
                 PROVE  Reporting(g, k)'
      BY DEF Underway
    <3>1. g # h
      BY <2>1
    <3> QED
      BY <2>1, <3>1 DEF TypeOK, Reporting, At, Current
  <2>7. KeyIsBacked'
    BY <2>1, <2>6 DEF KeyIsBacked
  <2> QED
    BY <2>4, <2>5, <2>7
<1> QED
  BY <1>1, <1>2, <1>3, <1>4, <1>5, <1>6, <1>7, <1>8 DEF Handle

\* The steps of the rest of the system.
LEMMA EnvironmentStep ==
  ASSUME Inv, (\E k \in Kind : Resolve(k)) \/ Tick \/ Crash
  PROVE  Inv'
<1> USE DEF Inv
<1>1. CASE \E k \in Kind : Resolve(k)
  <2>1. PICK k \in Kind : Resolve(k)
    BY <1>1
  <2>2. unresolved' \in [Kind -> 0..Many]
    BY <2>1, AlertAssumption DEF Resolve, TypeOK
  <2>3. UNCHANGED <<step, alerts, ttl, failures, window, broken>>
    BY <2>1 DEF Resolve
  <2> QED
    BY <2>2, <2>3 DEF TypeOK, NotYet, KeyIsBacked, Underway, Reporting, At, Current
<1>2. CASE Tick
  <2>1. /\ ttl' \in [Kind -> 0..Ttl] /\ \A k \in Kind : ttl'[k] > 0 => ttl[k] > 0
        /\ UNCHANGED <<step, alerts, unresolved, failures, window, broken>>
    BY <1>2, AlertAssumption DEF Tick, TypeOK
  <2>2. TypeOK'
    BY <2>1 DEF TypeOK
  <2>3. \A h \in Handlers : Current(h)' = Current(h) /\ (step[h] # "free" => Current(h) \in Kind)
    BY <2>1, Busy DEF Current
  <2>4. NotYet'
    BY <2>1, <2>3 DEF NotYet
  <2>5. KeyIsBacked'
    BY <2>1 DEF KeyIsBacked, Underway, Reporting, At, Current
  <2> QED
    BY <2>2, <2>4, <2>5
<1>3. CASE Crash
  <2>1. /\ step' = [h \in Handlers |-> "free"] /\ alerts' = [h \in Handlers |-> <<>>]
        /\ failures < MaxFailures /\ failures' = failures + 1
        /\ broken' = broken \cup {k \in Kind : Underway(k)}
        /\ UNCHANGED <<ttl, unresolved, window>>
    BY <1>3 DEF Crash
  <2>2. failures' \in 0..MaxFailures
    BY <2>1, AlertAssumption DEF TypeOK
  <2>3. <<>> \in Seq(Kind)
    BY EmptySeq
  <2>4. TypeOK'
    BY <2>1, <2>2, <2>3 DEF TypeOK, Step
  <2>5. NotYet'
    BY <2>1 DEF NotYet
  <2>6. KeyIsBacked'
    BY <2>1 DEF KeyIsBacked
  <2> QED
    BY <2>4, <2>5, <2>6
<1> QED
  BY <1>1, <1>2, <1>3

\* The inductive invariant.
THEOREM Invariant == Spec => []Inv
<1>1. Init => Inv
  BY InitInv
<1>2. Inv /\ [Next]_vars => Inv'
  <2> SUFFICES ASSUME Inv, [Next]_vars PROVE Inv'
    OBVIOUS
  <2>1. CASE Next
    BY <2>1, HandlerStep, EnvironmentStep DEF Next
  <2>2. CASE UNCHANGED vars
    BY <2>2 DEF vars, Inv, TypeOK, NotYet, KeyIsBacked, Underway, Reporting, At, Current
  <2> QED
    BY <2>1, <2>2
<1> QED
  BY <1>1, <1>2, PTL DEF Spec

\* Every variable keeps its type; a handler is idle exactly when it has no alert to emit.
THEOREM TypeCorrect == Spec => []TypeOK
<1>1. Inv => TypeOK
  BY DEF Inv
<1> QED
  BY <1>1, Invariant, PTL

\* However many handlers run and whatever fails, the alerts of one kind published during the
\* life of a key come from different, overlapping handlers (emit_alert, lines 161-193).
THEOREM PublishedOncePerHandler == Spec => []OncePerWindow
<1>1. Inv => OncePerWindow
  BY DEF Inv, NotYet, OncePerWindow, At
<1> QED
  BY <1>1, Invariant, PTL

\* Every live key stands for an alert that was published or is about to be, unless the handler
\* that set it was interrupted before it published (emit_alert, lines 166-193).
THEOREM KeysAreBacked == Spec => []KeyIsBacked
<1>1. Inv => KeyIsBacked
  BY DEF Inv
<1> QED
  BY <1>1, Invariant, PTL
===============================================================================
