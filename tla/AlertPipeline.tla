---------------------------- MODULE AlertPipeline ----------------------------
(***************************************************************************)
(* The alert service (main (3).py): concurrent message handlers each take  *)
(* the alerts a message gives rise to through emit_alert, one after the    *)
(* other: deduplicate by a Redis key that expires, record in PostgreSQL,   *)
(* publish on the alert bus, call the webhooks.  Every await is a point    *)
(* where other handlers run, where the call may fail, and where the        *)
(* process may stop.                                                       *)
(*                                                                         *)
(* The alerts of one unit are modelled; units share no key.  A key holds   *)
(* no severity, so an alert is its type.  An alert the service published   *)
(* itself comes back on the bus and fails in handle_system_alerts before   *)
(* emit_alert (it has no "type"), which changes nothing.                   *)
(***************************************************************************)
EXTENDS Integers, Sequences, FiniteSets

CONSTANTS
  Handlers,     \* tasks running a message handler at a time
  NumKinds,     \* the values of AlertType, numbered in the order the detector appends them
  Ttl,          \* DEDUP_TTL_S
  Many,         \* from so many unresolved rows on they are not counted
  MaxFailures   \* bound: failing calls and crashes

ASSUME AlertAssumption ==
  /\ NumKinds \in Nat
  /\ Ttl \in Nat \ {0} /\ Many \in Nat \ {0} /\ MaxFailures \in Nat

VARIABLES
  step,        \* where each handler is in emit_alert
  alerts,      \* the alerts it has still to emit, the one being emitted first
  ttl,         \* Redis: what is left of each dedup key, 0 if there is none
  unresolved,  \* PostgreSQL: rows not resolved, by kind
  failures,    \* calls that failed and crashes, so far
  window,      \* history: the handlers that published a kind since its key was created
  broken       \* history: kinds a handler set the key of and did not come to publish, since then

vars == <<step, alerts, ttl, unresolved, failures, window, broken>>

-------------------------------------------------------------------------------
Kind == 1..NumKinds

\* The alerts a message can give rise to: the detector appends at most one of each kind.
Batches ==
  {s \in UNION {[1..n -> Kind] : n \in Kind} : \A i, j \in DOMAIN s : i < j => s[i] < s[j]}

Step == {"free", "check", "set", "commit", "publish", "webhooks"}
TypeOK ==
  /\ step \in [Handlers -> Step]
  /\ alerts \in [Handlers -> Seq(Kind)]
  /\ \A h \in Handlers : step[h] = "free" <=> alerts[h] = <<>>
  /\ ttl \in [Kind -> 0..Ttl]
  /\ unresolved \in [Kind -> 0..Many]
  /\ failures \in 0..MaxFailures
  /\ window \in [Kind -> SUBSET Handlers] /\ broken \subseteq Kind

Init ==
  /\ step = [h \in Handlers |-> "free"]
  /\ alerts = [h \in Handlers |-> <<>>]
  /\ ttl = [k \in Kind |-> 0]
  /\ unresolved = [k \in Kind |-> 0]
  /\ failures = 0
  /\ window = [k \in Kind |-> {}] /\ broken = {}

\* The alert a handler is emitting.
Current(h) == Head(alerts[h])

At(h, place) == step[h] = place /\ alerts[h] # <<>>

\* A handler has set the key of k and not published yet.
Reporting(h, k) == (At(h, "commit") \/ At(h, "publish")) /\ Current(h) = k

Underway(k) == \E h \in Handlers : Reporting(h, k)

Goto(h, place) == step' = [step EXCEPT ![h] = place] /\ UNCHANGED alerts

\* emit_alert returns: the next alert, if there is one.
Return(h) ==
  /\ alerts' = [alerts EXCEPT ![h] = Tail(@)]
  /\ step' = [step EXCEPT ![h] = IF Len(alerts[h]) > 1 THEN "check" ELSE "free"]

-------------------------------------------------------------------------------
(* The handlers *)

\* handle_processed_telemetry: what the detector finds; handle_system_alerts: one alert.
Receive(h) ==
  /\ step[h] = "free"
  /\ \E found \in Batches : alerts' = [alerts EXCEPT ![h] = found]
  /\ step' = [step EXCEPT ![h] = "check"]
  /\ UNCHANGED <<ttl, unresolved, failures, window, broken>>

\* A variant: a suppressed alert extends the suppression.
SuppressExtends(h) ==
  /\ At(h, "check") /\ ttl[Current(h)] > 0
  /\ ttl' = [ttl EXCEPT ![Current(h)] = Ttl]
  /\ Return(h)
  /\ UNCHANGED <<unresolved, failures, window, broken>>

\* The key exists.
Suppress(h) ==
  /\ At(h, "check") /\ ttl[Current(h)] > 0
  /\ Return(h)
  /\ UNCHANGED <<ttl, unresolved, failures, window, broken>>

\* A variant: the key is not looked up.
PassUnchecked(h) ==
  /\ At(h, "check")
  /\ Goto(h, "set")
  /\ UNCHANGED <<ttl, unresolved, failures, window, broken>>

\* It does not; by the time the next call is made it may.
Pass(h) ==
  /\ At(h, "check") /\ ttl[Current(h)] = 0
  /\ Goto(h, "set")
  /\ UNCHANGED <<ttl, unresolved, failures, window, broken>>

\* A variant: the keys of all the alerts of the message are set.
SetAllKeys(h) ==
  /\ At(h, "set")
  /\ LET all == {alerts[h][i] : i \in DOMAIN alerts[h]}
     IN  /\ ttl' = [k \in Kind |-> IF k \in all THEN Ttl ELSE ttl[k]]
         /\ window' = [k \in Kind |-> IF k \in all /\ ttl[k] = 0 THEN {} ELSE window[k]]
         /\ broken' = broken \ {k \in all : ttl[k] = 0}
  /\ Goto(h, "commit")
  /\ UNCHANGED <<unresolved, failures>>

SetKey(h) ==
  /\ At(h, "set")
  /\ LET k == Current(h)
     IN  /\ ttl' = [ttl EXCEPT ![k] = Ttl]
         /\ window' = IF ttl[k] = 0 THEN [window EXCEPT ![k] = {}] ELSE window
         /\ broken' = IF ttl[k] = 0 THEN broken \ {k} ELSE broken
  /\ Goto(h, "commit")
  /\ UNCHANGED <<unresolved, failures>>

Commit(h) ==
  /\ At(h, "commit")
  /\ LET k == Current(h)
     IN  unresolved' = [unresolved EXCEPT ![k] = IF @ < Many THEN @ + 1 ELSE Many]
  /\ Goto(h, "publish")
  /\ UNCHANGED <<ttl, failures, window, broken>>

Publish(h) ==
  /\ At(h, "publish")
  /\ LET k == Current(h) IN window' = [window EXCEPT ![k] = @ \cup {h}]
  /\ Goto(h, "webhooks")
  /\ UNCHANGED <<ttl, unresolved, failures, broken>>

\* _fire_webhooks handles its own exceptions.
Webhooks(h) ==
  /\ At(h, "webhooks")
  /\ Return(h)
  /\ UNCHANGED <<ttl, unresolved, failures, window, broken>>

\* A call raises: the exception ends the handler, whose other alerts are not emitted.
Fail(h) ==
  /\ step[h] \in {"check", "set", "commit", "publish"} /\ failures < MaxFailures
  /\ failures' = failures + 1
  /\ step' = [step EXCEPT ![h] = "free"]
  /\ alerts' = [alerts EXCEPT ![h] = <<>>]
  /\ broken' = broken \cup {k \in Kind : Reporting(h, k)}
  /\ UNCHANGED <<ttl, unresolved, window>>

Handle(h) ==
  \/ Suppress(h) \/ Pass(h) \/ SetKey(h) \/ Commit(h) \/ Publish(h) \/ Webhooks(h)

-------------------------------------------------------------------------------
(* The rest of the system *)

\* resolve_alert on one row; with many, one fewer may still be many.
Resolve(k) ==
  /\ unresolved[k] > 0
  /\ \E left \in {unresolved[k] - 1} \cup (IF unresolved[k] = Many THEN {Many} ELSE {}) :
       unresolved' = [unresolved EXCEPT ![k] = left]
  /\ UNCHANGED <<step, alerts, ttl, failures, window, broken>>

\* Redis expires the keys.
Tick ==
  /\ ttl' = [k \in Kind |-> IF ttl[k] > 0 THEN ttl[k] - 1 ELSE 0]
  /\ UNCHANGED <<step, alerts, unresolved, failures, window, broken>>

\* The process stops and starts again; Redis and PostgreSQL keep what they have.
Crash ==
  /\ failures < MaxFailures
  /\ failures' = failures + 1
  /\ step' = [h \in Handlers |-> "free"]
  /\ alerts' = [h \in Handlers |-> <<>>]
  /\ broken' = broken \cup {k \in Kind : Underway(k)}
  /\ UNCHANGED <<ttl, unresolved, window>>

Next ==
  \/ \E h \in Handlers : Receive(h) \/ Handle(h) \/ Fail(h)
  \/ \E k \in Kind : Resolve(k)
  \/ Tick \/ Crash

\* Awaited calls return and time passes; messages and failures need not come.
Fairness == (\A h \in Handlers : WF_vars(Handle(h))) /\ WF_vars(Tick)

Spec     == Init /\ [][Next]_vars
FairSpec == Spec /\ Fairness

-------------------------------------------------------------------------------
(* Properties *)

\* Between the creation of a key and its expiry a kind of alert is published again only by a
\* handler that ran at the same time as the others that published it: a handler about to
\* publish has not published that kind before, whatever failed, however late it is (lines
\* 161-193).  A storm is so bounded by the handlers that run at a time.
OncePerWindow ==
  \A h \in Handlers : At(h, "commit") \/ At(h, "publish") => h \notin window[Current(h)]

\* A key suppresses a kind of alert nobody reports only because a handler that had set it was
\* interrupted before it published: otherwise the kind was published since the key was created,
\* or a handler is about to, whatever else fails, also another alert of the same message (lines
\* 166-193).
KeyIsBacked ==
  \A k \in Kind : ttl[k] > 0 /\ k \notin broken => window[k] # {} \/ Underway(k)

\* An alert that is raised again and again is recorded again and again, although a failed
\* call may have left a key that suppresses what was never recorded (lines 63, 161-185).
Recurs ==
  \A k \in Kind :
    []<>(\E h \in Handlers : At(h, "check") /\ Current(h) = k)
      => []<>(\E h \in Handlers : At(h, "publish") /\ Current(h) = k)
===============================================================================
