------------------------------- MODULE Registry -------------------------------
(***************************************************************************)
(* The device service (main.py) and the tables of the database that its    *)
(* requests and the maintenance service's analyses meet in: zones,         *)
(* ac_units, alerts and maintenance_features (001_initial.py).  A request  *)
(* reads, decides and writes in one session; others commit in between, and *)
(* it is the keys of the tables that refuse what was decided too early.    *)
(*                                                                         *)
(* Of a unit's row the zone is modelled.  Its status is OFFLINE from the   *)
(* registration on, as nothing writes the column again.  The rows that are *)
(* read again after a commit change nothing but the answer.                *)
(***************************************************************************)
EXTENDS Integers, FiniteSets

CONSTANTS
  Zones,      \* ids that requests name
  Units,
  Requests    \* requests served at a time

VARIABLES
  zones,     \* zones: the ids
  zoneOf,    \* ac_units: the zone of each unit, NoZone if it is not registered
  alerts,    \* alerts: the units that rows refer to
  feature,   \* maintenance_features: the row of each unit
  req        \* what each request is doing

tableVars    == <<zones, zoneOf, alerts>>
registryVars == <<zones, zoneOf, alerts, req>>

-------------------------------------------------------------------------------
NoZone == "none"
NoFeature == [rul |-> -1, risk |-> 0]

ASSUME RegistryAssumption == NoZone \notin Zones \cup Units

Op   == {"none", "zone", "register", "update", "deregister", "command"}
Idle == [op |-> "none", unit |-> NoZone, zone |-> NoZone, step |-> "idle"]

RegistryTypeOK ==
  /\ zones \subseteq Zones
  /\ zoneOf \in [Units -> Zones \cup {NoZone}]
  /\ alerts \subseteq Units
  /\ req \in [Requests ->
                [op : Op, unit : Units \cup {NoZone}, zone : Zones \cup {NoZone},
                 step : {"idle", "zone", "unit", "write", "unchanged"}]]

RegistryInit ==
  /\ zones = {} /\ alerts = {}
  /\ zoneOf = [u \in Units |-> NoZone]
  /\ req = [r \in Requests |-> Idle]

-------------------------------------------------------------------------------
Registered == {u \in Units : zoneOf[u] # NoZone}

\* What the foreign keys of the tables refer to.
Cited == alerts \cup {u \in Units : feature[u] # NoFeature}

At(r, op, step) == req[r].op = op /\ req[r].step = step
Goto(r, step)   == req' = [req EXCEPT ![r].step = step]
Answer(r)       == req' = [req EXCEPT ![r] = Idle]

\* What can be asked, and what the handler reads first.
Asked ==
  [op : {"zone"}, unit : {NoZone}, zone : Zones, step : {"zone"}]
    \cup [op : {"register"}, unit : Units, zone : Zones, step : {"zone"}]
    \cup [op : {"update"}, unit : Units, zone : Zones, step : {"unit"}]
    \cup [op : {"deregister", "command"}, unit : Units, zone : {NoZone}, step : {"unit"}]

Ask(r) ==
  /\ req[r] = Idle
  /\ \E asked \in Asked : req' = [req EXCEPT ![r] = asked]
  /\ UNCHANGED <<tableVars, feature>>

\* create_zone: 409, or the insert, which the primary key may refuse.
ReadZone(r) ==
  /\ At(r, "zone", "zone")
  /\ IF req[r].zone \in zones THEN Answer(r) ELSE Goto(r, "write")
  /\ UNCHANGED <<tableVars, feature>>

InsertZone(r) ==
  /\ At(r, "zone", "write")
  /\ zones' = zones \cup {req[r].zone}
  /\ Answer(r)
  /\ UNCHANGED <<zoneOf, alerts, feature>>

\* register_unit: 404 without the zone, 409 with the unit.
ZoneExists(r) ==
  /\ At(r, "register", "zone")
  /\ IF req[r].zone \in zones THEN Goto(r, "unit") ELSE Answer(r)
  /\ UNCHANGED <<tableVars, feature>>

UnitIsNew(r) ==
  /\ At(r, "register", "unit")
  /\ IF req[r].unit \in Registered THEN Answer(r) ELSE Goto(r, "write")
  /\ UNCHANGED <<tableVars, feature>>

\* The insert, which the primary key may refuse.
InsertUnit(r) ==
  /\ At(r, "register", "write")
  /\ LET u == req[r].unit
     IN  zoneOf' = IF u \in Registered THEN zoneOf ELSE [zoneOf EXCEPT ![u] = req[r].zone]
  /\ Answer(r)
  /\ UNCHANGED <<zones, alerts, feature>>

\* update_unit, deregister_unit: 404, or the row is loaded; an attribute set to the value that
\* was loaded is not written.
LoadUnit(r) ==
  /\ req[r].op \in {"update", "deregister"} /\ req[r].step = "unit"
  /\ IF req[r].unit \notin Registered THEN Answer(r)
     ELSE Goto(r, IF req[r].op = "update" /\ zoneOf[req[r].unit] = req[r].zone
                  THEN "unchanged" ELSE "write")
  /\ UNCHANGED <<tableVars, feature>>

\* The row may be gone, the zone may not exist.
UpdateUnit(r) ==
  /\ req[r].op = "update" /\ req[r].step \in {"write", "unchanged"}
  /\ LET u == req[r].unit
     IN  IF req[r].step = "write" /\ u \in Registered /\ req[r].zone \in zones
         THEN zoneOf' = [zoneOf EXCEPT ![u] = req[r].zone]
         ELSE UNCHANGED zoneOf
  /\ Answer(r)
  /\ UNCHANGED <<zones, alerts, feature>>

\* A variant: the references to the unit are no reason to keep it.
DeleteCited(r) ==
  /\ At(r, "deregister", "write")
  /\ zoneOf' = [zoneOf EXCEPT ![req[r].unit] = NoZone]
  /\ Answer(r)
  /\ UNCHANGED <<zones, alerts, feature>>

\* The foreign keys refuse to delete a unit with alerts or an analysis.
DeleteUnit(r) ==
  /\ At(r, "deregister", "write")
  /\ LET u == req[r].unit
     IN  zoneOf' = IF u \in Cited THEN zoneOf ELSE [zoneOf EXCEPT ![u] = NoZone]
  /\ Answer(r)
  /\ UNCHANGED <<zones, alerts, feature>>

\* send_command: 404 without the unit, otherwise 409, as its status is OFFLINE.
Command(r) ==
  /\ At(r, "command", "unit")
  /\ Answer(r)
  /\ UNCHANGED <<tableVars, feature>>

\* The alert service records an alert of a unit (INSERT INTO alerts).
Record(u) ==
  /\ u \in Registered \ alerts
  /\ alerts' = alerts \cup {u}
  /\ UNCHANGED <<zones, zoneOf, feature, req>>

\* A call to the database raises: the session is rolled back, the request answered with 500.
RequestFails(r) == req[r] # Idle /\ Answer(r) /\ UNCHANGED <<tableVars, feature>>

Serve(r) ==
  \/ ReadZone(r) \/ InsertZone(r) \/ ZoneExists(r) \/ UnitIsNew(r) \/ InsertUnit(r)
  \/ LoadUnit(r) \/ UpdateUnit(r) \/ DeleteUnit(r) \/ Command(r)

RegistryNext ==
  \/ \E r \in Requests : Ask(r) \/ Serve(r) \/ RequestFails(r)
  \/ \E u \in Units : Record(u)

===============================================================================
