----------------------------- MODULE Maintenance -----------------------------
(***************************************************************************)
(* The predictive maintenance service (main (4).py) beside the registry:   *)
(* the hourly job, runs that are triggered by hand and predictions on      *)
(* demand analyse units, one after the other; each analysis loads the      *)
(* telemetry, computes, stores its result and alerts.                      *)
(*                                                                         *)
(* The features and the RUL model are abstracted to what they yield, a     *)
(* remaining useful life (RUL) in days; a risk is counted in 365ths, as it *)
(* is computed.  The model of a unit's anomalies decides nothing but the   *)
(* wording for a unit that is well, and is left out.                       *)
(***************************************************************************)
EXTENDS Registry

CONSTANTS
  Hourly,      \* the scheduler's job, of which there is one instance at a time
  Triggered,   \* tasks of POST /analysis/run
  Demanded,    \* requests for the prediction of one unit
  Ruls,        \* what the RUL model yields, clipped to 0..730
  Opaque,      \* external: units whose telemetry is too short or makes every analysis raise
  MaxFailures  \* bound: failing calls and crashes

Task == {Hourly} \cup Triggered \cup Demanded

ASSUME MaintenanceAssumption ==
  /\ Hourly \notin Triggered \cup Demanded /\ Triggered \cap Demanded = {}
  /\ Ruls \subseteq 0..730 /\ MaxFailures \in Nat

VARIABLES
  step,      \* where each task is
  todo,      \* the units it has still to analyse
  unit,      \* the one it is analysing
  found,     \* what it computed
  up,        \* the service runs
  bus,       \* history: the units it has alerted of
  failures   \* calls that failed and crashes, so far

taskVars == <<step, todo, unit, found>>
vars == <<registryVars, feature, taskVars, up, bus, failures>>

-------------------------------------------------------------------------------
(* What is computed from a RUL *)

\* A variant: the risk is not clipped.
RiskUnclipped(rul) == 365 - rul

Risk(rul) == IF rul < 365 THEN 365 - rul ELSE 0
AtLeast(risk, tenths) == 10 * risk >= tenths * 365

Recommendation(rul, risk) ==
  IF AtLeast(risk, 9) \/ rul < 7 THEN "immediate"
  ELSE IF AtLeast(risk, 7) \/ rul < 21 THEN "week"
  ELSE IF AtLeast(risk, 5) \/ rul < 60 THEN "months"
  ELSE "normal"

\* list_predictions shows a RUL of 0 as 180.
Shown(rul) == IF rul = 0 THEN 180 ELSE rul

\* A variant: the risk is computed from the RUL that is shown.
ListedAnew(u) == Recommendation(Shown(feature[u].rul), Risk(Shown(feature[u].rul)))

Listed(u) == Recommendation(Shown(feature[u].rul), feature[u].risk)

Analysed == {u \in Units : feature[u] # NoFeature}

\* fleet_summary
Critical == {u \in Analysed : AtLeast(feature[u].risk, 9)}
Warning  == {u \in Analysed : AtLeast(feature[u].risk, 7) /\ ~AtLeast(feature[u].risk, 9)}

-------------------------------------------------------------------------------
Feature == [rul : Ruls, risk : 0..365]

TypeOK ==
  /\ RegistryTypeOK
  /\ feature \in [Units -> Feature \cup {NoFeature}]
  /\ step \in [Task -> {"off", "list", "next", "load", "commit", "publish"}]
  /\ todo \in [Task -> SUBSET Units]
  /\ unit \in [Task -> Units \cup {NoZone}]
  /\ \A t \in Task : unit[t] # NoZone <=> step[t] \in {"load", "commit", "publish"}
  /\ found \in [Task -> Feature \cup {NoFeature}]
  /\ up \in BOOLEAN /\ bus \subseteq Units
  /\ failures \in 0..MaxFailures

Init ==
  /\ RegistryInit
  /\ feature = [u \in Units |-> NoFeature]
  /\ step = [t \in Task |-> "off"] /\ todo = [t \in Task |-> {}]
  /\ unit = [t \in Task |-> NoZone] /\ found = [t \in Task |-> NoFeature]
  /\ up = TRUE /\ bus = {} /\ failures = 0

-------------------------------------------------------------------------------
(* The tasks *)

\* The hour is over, unless the last run is still under way; a run is triggered.
Start(t) ==
  /\ up /\ t \notin Demanded /\ step[t] = "off"
  /\ step' = [step EXCEPT ![t] = "list"]
  /\ UNCHANGED <<registryVars, feature, todo, unit, found, up, bus, failures>>

\* get_prediction, of any id, registered or not.
Demand(t) ==
  /\ up /\ t \in Demanded /\ step[t] = "off"
  /\ \E u \in Units : unit' = [unit EXCEPT ![t] = u]
  /\ step' = [step EXCEPT ![t] = "load"]
  /\ UNCHANGED <<registryVars, feature, todo, found, up, bus, failures>>

\* run_fleet_analysis takes the ids as they are now.
List(t) ==
  /\ up /\ step[t] = "list"
  /\ step' = [step EXCEPT ![t] = "next"] /\ todo' = [todo EXCEPT ![t] = Registered]
  /\ UNCHANGED <<registryVars, feature, unit, found, up, bus, failures>>

\* The next unit, in the order in which the database returned them.
Take(t) ==
  /\ up /\ step[t] = "next" /\ todo[t] # {}
  /\ \E u \in todo[t] :
       unit' = [unit EXCEPT ![t] = u] /\ todo' = [todo EXCEPT ![t] = @ \ {u}]
  /\ step' = [step EXCEPT ![t] = "load"]
  /\ UNCHANGED <<registryVars, feature, found, up, bus, failures>>

Finish(t) ==
  /\ up /\ step[t] = "next" /\ todo[t] = {}
  /\ step' = [step EXCEPT ![t] = "off"]
  /\ UNCHANGED <<registryVars, feature, todo, unit, found, up, bus, failures>>

\* A variant: the exception of an analysis ends the run.
ReturnRaises(t) ==
  /\ step' = [step EXCEPT ![t] = IF t \in Demanded THEN "off" ELSE "next"]
  /\ todo' = [todo EXCEPT ![t] = IF step[t] = "load" THEN {} ELSE @]
  /\ unit' = [unit EXCEPT ![t] = NoZone] /\ found' = [found EXCEPT ![t] = NoFeature]

\* analyse_unit returns, with or without a result: every exception is caught.
Return(t) ==
  /\ step' = [step EXCEPT ![t] = IF t \in Demanded THEN "off" ELSE "next"]
  /\ unit' = [unit EXCEPT ![t] = NoZone] /\ found' = [found EXCEPT ![t] = NoFeature]
  /\ UNCHANGED todo

\* The telemetry is there.
Compute(t) ==
  /\ up /\ step[t] = "load" /\ unit[t] \notin Opaque
  /\ \E rul \in Ruls : found' = [found EXCEPT ![t] = [rul |-> rul, risk |-> Risk(rul)]]
  /\ step' = [step EXCEPT ![t] = "commit"]
  /\ UNCHANGED <<registryVars, feature, todo, unit, up, bus, failures>>

\* There is too little of it, or it makes a computation raise.
Skip(t) ==
  /\ up /\ step[t] = "load" /\ unit[t] \in Opaque
  /\ Return(t)
  /\ UNCHANGED <<registryVars, feature, up, bus, failures>>

\* A variant: the alert goes out before the result is stored.
StoreAfterAlert(t) ==
  /\ up /\ step[t] = "commit"
  /\ bus' = IF AtLeast(found[t].risk, 7) THEN bus \cup {unit[t]} ELSE bus
  /\ feature' = IF unit[t] \in Registered THEN [feature EXCEPT ![unit[t]] = found[t]] ELSE feature
  /\ Return(t)
  /\ UNCHANGED <<registryVars, up, failures>>

\* The upsert, which the foreign key refuses for a unit that is not registered.
Store(t) ==
  /\ up /\ step[t] = "commit"
  /\ IF unit[t] \notin Registered THEN Return(t) /\ UNCHANGED feature
     ELSE /\ feature' = [feature EXCEPT ![unit[t]] = found[t]]
          /\ IF AtLeast(found[t].risk, 7)
             THEN step' = [step EXCEPT ![t] = "publish"] /\ UNCHANGED <<todo, unit, found>>
             ELSE Return(t)
  /\ UNCHANGED <<registryVars, up, bus, failures>>

Alert(t) ==
  /\ up /\ step[t] = "publish"
  /\ bus' = bus \cup {unit[t]}
  /\ Return(t)
  /\ UNCHANGED <<registryVars, feature, up, failures>>

\* A call to InfluxDB, to the database or to the MQTT client raises.
AnalysisFails(t) ==
  /\ up /\ step[t] \in {"load", "commit", "publish"} /\ failures < MaxFailures
  /\ failures' = failures + 1
  /\ Return(t)
  /\ UNCHANGED <<registryVars, feature, up, bus>>

\* The ids cannot be read: the run ends.
ListFails(t) ==
  /\ up /\ step[t] = "list" /\ failures < MaxFailures
  /\ failures' = failures + 1 /\ step' = [step EXCEPT ![t] = "off"]
  /\ UNCHANGED <<registryVars, feature, todo, unit, found, up, bus>>

\* What a task does by itself.
Work(t) == List(t) \/ Take(t) \/ Finish(t) \/ Compute(t) \/ Skip(t) \/ Store(t) \/ Alert(t)

-------------------------------------------------------------------------------
Crash ==
  /\ up /\ failures < MaxFailures
  /\ up' = FALSE /\ failures' = failures + 1
  /\ step' = [t \in Task |-> "off"] /\ todo' = [t \in Task |-> {}]
  /\ unit' = [t \in Task |-> NoZone] /\ found' = [t \in Task |-> NoFeature]
  /\ UNCHANGED <<registryVars, feature, bus>>

Restart ==
  /\ ~up /\ up' = TRUE
  /\ UNCHANGED <<registryVars, feature, taskVars, bus, failures>>

Next ==
  \/ RegistryNext /\ UNCHANGED <<taskVars, up, bus, failures>>
  \/ \E t \in Task : Start(t) \/ Demand(t) \/ Work(t) \/ AnalysisFails(t) \/ ListFails(t)
  \/ Crash \/ Restart

\* An hour passes, awaited calls return or raise, and the container is started again.
Fairness ==
  /\ WF_vars(Start(Hourly)) /\ \A t \in Task : WF_vars(Work(t) \/ AnalysisFails(t) \/ ListFails(t))
  /\ WF_vars(Restart)

Spec     == Init /\ [][Next]_vars
FairSpec == Spec /\ Fairness

-------------------------------------------------------------------------------
(* Properties *)

\* A unit that the service alerted of is registered from then on, so that the alert service can
\* record the alert: the unit may be deregistered at any point of the analysis, but once its
\* result is stored the foreign key keeps it (main.py:229-235, main (4).py:406-439).
AlertedIsRegistered == bus \subseteq Registered

\* Whatever requests and analyses interleave, no row refers to what is not there.
References ==
  /\ \A u \in Registered : zoneOf[u] \in zones
  /\ Cited \subseteq Registered

\* The units that the summary counts as critical or warning are those that are listed as in
\* need of maintenance at once or within a week, although one goes by the risk and the other by
\* the RUL too, which is shown wrongly when it is 0 (lines 356-362, 516-569).
CountedAsListed ==
  /\ Critical = {u \in Analysed : Listed(u) = "immediate"}
  /\ Warning = {u \in Analysed : Listed(u) = "week"}

\* A registered unit with telemetry is analysed again and again, although the analyses of other
\* units fail every time, and units come and go (lines 445-461).
KeepsAnalysing ==
  \A u \in Units \ Opaque :
    <>[](u \in Registered) => []<>(\E t \in Task : step[t] = "commit" /\ unit[t] = u)
===============================================================================
