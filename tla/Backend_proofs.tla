---------------------------- MODULE Backend_proofs ----------------------------
(***************************************************************************)
(* Proofs about two parts of the backend that meet in a request: the limit *)
(* of the requests of an identity (RateLimiter), and the tables that       *)
(* requests and analyses work on (Registry and Maintenance).               *)
(*                                                                         *)
(* For every number of tasks, rate, window and lag: the limit, and that    *)
(* nobody is refused without cause.  The limit is not inductive by itself. *)
(* Lasting is what it rests on: an accepted member stays in the set, and   *)
(* the key alive, for the whole window, whoever removes members by         *)
(* whatever time.  So the members of a span that ends with a new one are   *)
(* all still there when it is counted.                                     *)
(*                                                                         *)
(* For any number of zones, units, requests and analyses: the references   *)
(* between the rows.  They are not inductive by themselves either: what a  *)
(* request decided when it read must hold still when it writes (Heard), an *)
(* alert must follow its row (Alerted), and the risk in a row must be that *)
(* of the life beside it (Derived).                                        *)
(***************************************************************************)
EXTENDS RateLimiter, Maintenance, FiniteSetTheorems, TLAPS

-------------------------------------------------------------------------------
(* The limiter *)

\* An accepted member is there, and the key alive, until the window is over.
Lasting ==
  \A e \in accepted :
    /\ e.ts + Window <= expires
    /\ clock < e.ts + Window => e \in log

LimiterInv == LimiterTypeOK /\ Lasting /\ Limited

\* The accepted members in the span that begins with a member.
Span(e) == {f \in accepted : e.ts <= f.ts /\ f.ts < e.ts + Window - Lag}

\* The number of members in a part of a finite set.
LEMMA PartIsSmaller ==
  ASSUME NEW S, IsFiniteSet(S), NEW T \in SUBSET S
  PROVE  IsFiniteSet(T) /\ Cardinality(T) \in Nat /\ Cardinality(S) \in Nat
           /\ Cardinality(T) <= Cardinality(S)
BY FS_Subset, FS_CardinalityType

-------------------------------------------------------------------------------
LEMMA InitLimiter == LimiterInit => LimiterInv
<1> SUFFICES ASSUME LimiterInit PROVE LimiterInv
  OBVIOUS
<1>1. LimiterTypeOK
  BY LimiterAssumption, FS_EmptySet DEF LimiterInit, LimiterTypeOK, None, Entry
<1>2. Lasting /\ Limited
  BY DEF LimiterInit, Lasting, Limited
<1> QED
  BY <1>1, <1>2 DEF LimiterInv

\* The new member and what is kept.
LEMMA NewMember ==
  ASSUME LimiterTypeOK, NEW r \in Tasks, Execute(r)
  PROVE  /\ now[r] \in Nat /\ now[r] <= clock /\ clock <= now[r] + Lag
         /\ New(r) \in Entry /\ New(r).ts = now[r] /\ New(r).id = count
         /\ log' = Kept(r) \cup {New(r)} /\ Kept(r) \subseteq log
         /\ log' \subseteq seen' /\ IsFiniteSet(seen') /\ IsFiniteSet(log')
         /\ \A e \in log' : e.ts > now[r] - Window
<1>1. now[r] \in Nat /\ now[r] <= clock /\ clock <= now[r] + Lag
  BY DEF LimiterTypeOK, Execute, None
<1>2. New(r) \in Entry /\ New(r).ts = now[r] /\ New(r).id = count
  BY <1>1 DEF New, Entry, LimiterTypeOK
<1>3. log' = Kept(r) \cup {New(r)} /\ Kept(r) \subseteq log
  BY DEF Execute, Kept, Alive
<1>4. log' \subseteq seen' /\ seen' = seen \cup {New(r)}
  BY <1>3 DEF Execute, LimiterTypeOK
<1>5. IsFiniteSet(seen')
  BY <1>4, FS_AddElement DEF LimiterTypeOK
<1>6. IsFiniteSet(log')
  BY <1>4, <1>5, FS_Subset
<1>7. ASSUME NEW e \in log' PROVE e.ts > now[r] - Window
  <2>1. CASE e = New(r)
    BY <2>1, <1>1, <1>2, LimiterAssumption
  <2>2. CASE e \in Kept(r)
    BY <2>2 DEF Kept
  <2> QED
    BY <1>3, <2>1, <2>2
<1> QED
  BY <1>1, <1>2, <1>3, <1>4, <1>5, <1>6, <1>7

\* A pipeline keeps the types.
LEMMA ExecuteTypes ==
  ASSUME LimiterTypeOK, NEW r \in Tasks, Execute(r), clock' = clock,
         accepted' = accepted \/ accepted' = accepted \cup {New(r)}
  PROVE  LimiterTypeOK'
<1> USE LimiterAssumption
<1>1. New(r) \in Entry /\ New(r).ts <= clock /\ New(r).id = count
      /\ log' \subseteq seen' /\ IsFiniteSet(seen')
  BY NewMember
<1>2. seen' = seen \cup {New(r)} /\ count' = count + 1 /\ count \in Nat
  BY DEF Execute, LimiterTypeOK
<1>3. now' \in [Tasks -> Nat \cup {None}]
      /\ \A s \in Tasks : now'[s] # None => now'[s] <= clock' /\ clock' <= now'[s] + Lag
  BY DEF Execute, LimiterTypeOK
<1>4. accepted' \subseteq seen'
  BY <1>2 DEF LimiterTypeOK
<1>5. expires' \in 0..(clock' + Window)
  BY DEF Execute, Deadline, LimiterTypeOK
<1>6. ASSUME NEW e \in seen' PROVE e \in Entry /\ e.id < count' /\ e.ts <= clock'
  <2>1. CASE e \in seen
    <3>1. e \in Entry /\ e.id < count /\ e.ts <= clock
      BY <2>1 DEF LimiterTypeOK
    <3> QED
      BY <3>1, <1>2 DEF Entry
  <2>2. CASE e = New(r)
    BY <2>2, <1>1, <1>2
  <2> QED
    BY <2>1, <2>2, <1>2
<1>7. clock' \in Nat /\ count' \in Nat
  BY <1>2 DEF LimiterTypeOK
<1> QED
  BY <1>1, <1>3, <1>4, <1>5, <1>6, <1>7 DEF LimiterTypeOK

\* A pipeline removes no member that must last.
LEMMA ExecuteLasting ==
  ASSUME LimiterTypeOK, Lasting, NEW r \in Tasks, Execute(r), clock' = clock,
         accepted' = accepted \/ accepted' = accepted \cup {New(r)}
  PROVE  Lasting'
<1> USE LimiterAssumption
<1> SUFFICES ASSUME NEW e \in accepted'
             PROVE  e.ts + Window <= expires' /\ (clock' < e.ts + Window => e \in log')
  BY DEF Lasting
<1>1. now[r] \in Nat /\ now[r] <= clock /\ New(r).ts = now[r]
      /\ log' = Kept(r) \cup {New(r)} /\ clock \in Nat /\ expires' = clock + Window
  BY NewMember DEF LimiterTypeOK, Execute, Deadline
<1>2. CASE e = New(r)
  BY <1>1, <1>2
<1>3. CASE e \in accepted
  <2>1. e.ts \in Nat /\ e.ts <= clock /\ e.ts + Window <= expires /\ expires \in Nat
        /\ (clock < e.ts + Window => e \in log)
    BY <1>3 DEF LimiterTypeOK, Lasting, Entry
  <2>2. ASSUME clock < e.ts + Window PROVE e \in Kept(r)
    <3>1. e \in Alive
      BY <2>1, <2>2, <1>1 DEF Alive
    <3>2. e.ts > now[r] - Window
      BY <2>1, <2>2, <1>1
    <3> QED
      BY <3>1, <3>2 DEF Kept
  <2> QED
    BY <2>1, <2>2, <1>1
<1> QED
  BY <1>2, <1>3

\* An accepted request leaves every span within the rate.
LEMMA AcceptLimited ==
  ASSUME LimiterInv, NEW r \in Tasks, Accept(r)
  PROVE  Limited'
<1> USE LimiterAssumption
<1>0. LimiterTypeOK /\ Lasting /\ Execute(r) /\ clock' = clock /\ accepted' = accepted \cup {New(r)}
  BY DEF LimiterInv, Accept
<1>1. LimiterTypeOK' /\ Lasting'
  BY <1>0, ExecuteTypes, ExecuteLasting
<1>2. now[r] \in Nat /\ now[r] <= clock /\ clock <= now[r] + Lag /\ New(r).ts = now[r]
      /\ IsFiniteSet(log') /\ log' = Kept(r) \cup {New(r)} /\ clock \in Nat
  BY <1>0, NewMember DEF LimiterTypeOK
<1>3. Cardinality(log') <= Rate
  BY <1>2 DEF Accept, Allowed
<1> SUFFICES ASSUME NEW e \in accepted'
             PROVE  Cardinality(Span(e)') <= Rate
  BY DEF Limited, Span
<1>4. Span(e)' = {f \in accepted' : e.ts <= f.ts /\ f.ts < e.ts + Window - Lag}
  BY DEF Span
<1>5. e.ts \in Nat /\ \A f \in accepted' : f.ts \in Nat
  BY <1>1 DEF LimiterTypeOK, Entry
<1>6. CASE New(r) \in Span(e)'
  <2>1. ASSUME NEW f \in Span(e)' PROVE f \in log'
    <3>1. f \in accepted' /\ e.ts <= f.ts /\ now[r] < e.ts + Window - Lag /\ f.ts \in Nat
      BY <1>2, <1>4, <1>5, <1>6, <2>1
    <3>2. clock' < f.ts + Window
      BY <3>1, <1>0, <1>2, <1>5
    <3> QED
      BY <3>1, <3>2, <1>1 DEF Lasting
  <2>2. Span(e)' \in SUBSET log'
    BY <2>1
  <2> HIDE DEF Span
  <2>3. /\ Cardinality(Span(e)') \in Nat /\ Cardinality(log') \in Nat
        /\ Cardinality(Span(e)') <= Cardinality(log')
    BY <2>2, <1>2, PartIsSmaller
  <2> QED
    BY <2>3, <1>3
<1>7. CASE New(r) \notin Span(e)' /\ e = New(r)
  <2>1. Span(e)' = {}
    BY <1>2, <1>4, <1>5, <1>7
  <2> QED
    BY <2>1, FS_EmptySet
<1>8. CASE New(r) \notin Span(e)' /\ e # New(r)
  <2>1. e \in accepted
    BY <1>0, <1>8
  <2>2. Span(e)' = {f \in accepted : e.ts <= f.ts /\ f.ts < e.ts + Window - Lag}
    BY <1>0, <1>4, <1>8
  <2> QED
    BY <2>1, <2>2 DEF LimiterInv, Limited
<1> QED
  BY <1>6, <1>7, <1>8

LEMMA LimiterStep == LimiterInv /\ [LimiterNext]_limiterVars => LimiterInv'
<1> SUFFICES ASSUME LimiterInv, [LimiterNext]_limiterVars PROVE LimiterInv'
  OBVIOUS
<1> USE LimiterAssumption
<1>0. LimiterTypeOK /\ Lasting /\ Limited
  BY DEF LimiterInv
<1>1. ASSUME NEW r \in Tasks, TakeTime(r) PROVE LimiterInv'
  <2>1. LimiterTypeOK'
    BY <1>0, <1>1 DEF LimiterTypeOK, TakeTime, None
  <2>2. Lasting' /\ Limited'
    BY <1>0, <1>1 DEF Lasting, Limited, TakeTime
  <2> QED
    BY <2>1, <2>2 DEF LimiterInv
<1>2. ASSUME NEW r \in Tasks, Accept(r) PROVE LimiterInv'
  <2>1. Execute(r) /\ clock' = clock /\ accepted' = accepted \cup {New(r)}
    BY <1>2 DEF Accept
  <2> QED
    BY <1>0, <1>2, <2>1, ExecuteTypes, ExecuteLasting, AcceptLimited DEF LimiterInv
<1>3. ASSUME NEW r \in Tasks, Refuse(r) \/ RaisesLate(r) PROVE LimiterInv'
  <2>1. Execute(r) /\ clock' = clock /\ accepted' = accepted
    BY <1>3 DEF Refuse, RaisesLate
  <2>2. Limited'
    BY <1>0, <2>1 DEF Limited
  <2> QED
    BY <1>0, <2>1, <2>2, ExecuteTypes, ExecuteLasting DEF LimiterInv
<1>4. ASSUME NEW r \in Tasks, Raises(r) PROVE LimiterInv'
  <2>1. LimiterTypeOK'
    BY <1>0, <1>4 DEF LimiterTypeOK, Raises
  <2>2. Lasting' /\ Limited'
    BY <1>0, <1>4 DEF Lasting, Limited, Raises
  <2> QED
    BY <2>1, <2>2 DEF LimiterInv
<1>5. CASE Tick
  <2>1. LimiterTypeOK'
    <3>1. clock \in Nat /\ clock' = clock + 1 /\ now' = now /\ log' = log /\ expires' = expires
          /\ count' = count /\ seen' = seen /\ accepted' = accepted
      BY <1>0, <1>5 DEF LimiterTypeOK, Tick
    <3>2. ASSUME NEW r \in Tasks, now'[r] # None
          PROVE  now'[r] <= clock' /\ clock' <= now'[r] + Lag
      <4>1. now[r] \in Nat /\ now[r] <= clock /\ clock < now[r] + Lag
        BY <1>0, <1>5, <3>1, <3>2 DEF LimiterTypeOK, Tick
      <4> QED
        BY <4>1, <3>1
    <3>3. expires' \in 0..(clock' + Window)
      BY <1>0, <3>1 DEF LimiterTypeOK
    <3>4. \A e \in seen' : e \in Entry /\ e.id < count' /\ e.ts <= clock'
      BY <1>0, <3>1 DEF LimiterTypeOK, Entry
    <3> QED
      BY <1>0, <3>1, <3>2, <3>3, <3>4 DEF LimiterTypeOK
  <2>2. Lasting'
    BY <1>0, <1>5 DEF Lasting, LimiterTypeOK, Tick, Entry
  <2>3. Limited'
    BY <1>0, <1>5 DEF Limited, Tick
  <2> QED
    BY <2>1, <2>2, <2>3 DEF LimiterInv
<1>6. CASE UNCHANGED limiterVars
  <2>1. LimiterTypeOK' /\ Lasting' /\ Limited'
    BY <1>0, <1>6 DEF LimiterTypeOK, Lasting, Limited, limiterVars
  <2> QED
    BY <2>1 DEF LimiterInv
<1> QED
  BY <1>1, <1>2, <1>3, <1>4, <1>5, <1>6 DEF LimiterNext

LEMMA LimiterInvariant == LimiterSpec => []LimiterInv
BY InitLimiter, LimiterStep, PTL DEF LimiterSpec

-------------------------------------------------------------------------------
\* The limiter's key, its requests and its tasks keep their types, however the tasks interleave
\* (RateLimiter.check, src/auth.py:174-187).
THEOREM LimiterTypes == LimiterSpec => []LimiterTypeOK
<1>1. LimiterInv => LimiterTypeOK
  BY DEF LimiterInv
<1> QED
  BY <1>1, LimiterInvariant, PTL

\* No span that is shorter than the window by the lag holds more accepted requests than the rate,
\* whichever services count, trim and let expire the one key (src/auth.py:178-187).
THEOREM RateHolds == LimiterSpec => []Limited
<1>1. LimiterInv => Limited
  BY DEF LimiterInv
<1> QED
  BY <1>1, LimiterInvariant, PTL

\* A refused request was one too many in the window that ends with it (src/auth.py:181-187).
THEOREM RefusedWithCause == LimiterSpec => Forgiving
<1> DEFINE Cause(r) ==
             Refuse(r) => Cardinality({f \in seen' : f.ts > now[r] - Window}) > Rate
           Causes == \A r \in Tasks : Cause(r)
<1>1. LimiterInv /\ [LimiterNext]_limiterVars => [Causes]_limiterVars
  <2> SUFFICES ASSUME LimiterInv, NEW r \in Tasks PROVE Cause(r)
    OBVIOUS
  <2> SUFFICES ASSUME Refuse(r)
               PROVE  Cardinality({f \in seen' : f.ts > now[r] - Window}) > Rate
    OBVIOUS
  <2> DEFINE Recent == {f \in seen' : f.ts > now[r] - Window}
  <2>1. LimiterTypeOK /\ Execute(r) /\ ~Allowed(r)
    BY DEF LimiterInv, Refuse
  <2>2. log' \subseteq Recent /\ IsFiniteSet(seen') /\ log' = Kept(r) \cup {New(r)}
    BY <2>1, NewMember
  <2>3. IsFiniteSet(Recent)
    BY <2>2, FS_Subset
  <2>4. Cardinality(log') \in Nat /\ Cardinality(Recent) \in Nat
        /\ Cardinality(log') <= Cardinality(Recent)
    <3> HIDE DEF Recent
    <3> QED
      BY <2>2, <2>3, PartIsSmaller
  <2>5. ~(Cardinality(log') <= Rate)
    BY <2>1, <2>2 DEF Allowed
  <2> QED
    BY <2>4, <2>5, LimiterAssumption
<1>2. [][LimiterNext]_limiterVars /\ []LimiterInv => [][Causes]_limiterVars
  BY <1>1, PTL
<1> QED
  BY <1>2, LimiterInvariant, PTL DEF LimiterSpec, Forgiving

-------------------------------------------------------------------------------
(* The tables *)

\* What a request names, and what it relies on until it writes: a zone stays once it is there.
Heard ==
  \A r \in Requests :
    /\ req[r].op \in {"zone", "register", "update"} => req[r].zone \in Zones
    /\ req[r].op \in {"register", "update", "deregister", "command"} => req[r].unit \in Units
    /\ req[r].op = "register" /\ req[r].step \in {"unit", "write"} => req[r].zone \in zones

Rows == feature \in [Units -> Feature \cup {NoFeature}]

Tables == RegistryTypeOK /\ Rows /\ Heard /\ References

Request ==
  [op : Op, unit : Units \cup {NoZone}, zone : Zones \cup {NoZone},
   step : {"idle", "zone", "unit", "write", "unchanged"}]

\* A request goes on, or is answered.
LEMMA Goes ==
  ASSUME Tables, NEW r \in Requests, NEW place \in {"unit", "write", "unchanged"}, Goto(r, place),
         req[r].op = "register" => req[r].zone \in zones,
         UNCHANGED <<tableVars, feature>>
  PROVE  Tables'
<1> USE DEF Tables, tableVars
<1>1. req \in [Requests -> Request] /\ req' = [req EXCEPT ![r].step = place]
  BY DEF RegistryTypeOK, Request, Goto
<1>2. req' \in [Requests -> Request]
  BY <1>1 DEF Request
<1>3. \A s \in Requests : /\ req'[s].op = req[s].op /\ req'[s].unit = req[s].unit
                         /\ req'[s].zone = req[s].zone /\ (s # r => req'[s].step = req[s].step)
  BY <1>1 DEF Request
<1>4. RegistryTypeOK'
  BY <1>2 DEF RegistryTypeOK, Request
<1>5. Heard'
  BY <1>3 DEF Heard
<1>6. Rows' /\ References'
  BY DEF Rows, References, Registered, Cited
<1> QED
  BY <1>4, <1>5, <1>6

LEMMA Answered ==
  ASSUME Tables, NEW r \in Requests, Answer(r)
  PROVE  /\ req' \in [Requests -> Request] /\ req'[r] = Idle
         /\ \A s \in Requests : s # r => req'[s] = req[s]
<1>1. req \in [Requests -> Request] /\ req' = [req EXCEPT ![r] = Idle]
  BY DEF Tables, RegistryTypeOK, Request, Answer
<1>2. Idle \in Request
  BY DEF Idle, Request, Op
<1> QED
  BY <1>1, <1>2

\* An answer that writes nothing.
LEMMA Answers ==
  ASSUME Tables, NEW r \in Requests, Answer(r), UNCHANGED <<tableVars, feature>>
  PROVE  Tables'
<1> USE DEF Tables, tableVars
<1>1. RegistryTypeOK'
  BY Answered DEF RegistryTypeOK, Request
<1>2. Heard'
  BY Answered DEF Heard, Idle
<1>3. Rows' /\ References'
  BY DEF Rows, References, Registered, Cited
<1> QED
  BY <1>1, <1>2, <1>3

LEMMA TablesAsk ==
  ASSUME Tables, NEW r \in Requests, Ask(r)
  PROVE  Tables'
<1> USE DEF Tables, tableVars
<1>1. PICK asked \in Asked : req' = [req EXCEPT ![r] = asked] /\ UNCHANGED <<tableVars, feature>>
  BY DEF Ask
<1>2. /\ asked \in Request
      /\ asked.op \in {"zone", "register", "update"} => asked.zone \in Zones
      /\ asked.op \in {"register", "update", "deregister", "command"} => asked.unit \in Units
      /\ asked.op = "register" => asked.step = "zone"
  BY DEF Asked, Request, Op
<1>3. req \in [Requests -> Request]
  BY DEF RegistryTypeOK, Request
<1>4. req' \in [Requests -> Request] /\ req'[r] = asked /\ \A s \in Requests : s # r => req'[s] = req[s]
  BY <1>1, <1>2, <1>3
<1>5. RegistryTypeOK'
  BY <1>1, <1>4 DEF RegistryTypeOK, Request
<1>6. Heard'
  BY <1>1, <1>2, <1>4 DEF Heard
<1>7. Rows' /\ References'
  BY <1>1 DEF Rows, References, Registered, Cited
<1> QED
  BY <1>5, <1>6, <1>7

\* The steps that read, and those that write: the key of a table refuses what would break them.
LEMMA TablesServe ==
  ASSUME Tables, NEW r \in Requests, Serve(r)
  PROVE  Tables'
<1> USE DEF Tables, At
<1>1. CASE ReadZone(r) \/ ZoneExists(r) \/ UnitIsNew(r) \/ LoadUnit(r) \/ Command(r)
  <2>1. UNCHANGED <<tableVars, feature>>
    BY <1>1 DEF ReadZone, ZoneExists, UnitIsNew, LoadUnit, Command
  <2>2. \/ Answer(r)
        \/ \E place \in {"unit", "write", "unchanged"} :
             Goto(r, place) /\ (req[r].op = "register" => req[r].zone \in zones)
    BY <1>1 DEF ReadZone, ZoneExists, UnitIsNew, LoadUnit, Command, Heard
  <2> QED
    BY <2>1, <2>2, Goes, Answers
<1>2. CASE InsertZone(r)
  <2>1. /\ zones' = zones \cup {req[r].zone} /\ req[r].zone \in Zones /\ Answer(r)
        /\ UNCHANGED <<zoneOf, alerts, feature>>
    BY <1>2 DEF InsertZone, Heard
  <2>2. RegistryTypeOK'
    BY <2>1, Answered DEF RegistryTypeOK, Request
  <2>3. Heard'
    BY <2>1, Answered DEF Heard, Idle
  <2>4. Rows' /\ References'
    BY <2>1 DEF Rows, References, Registered, Cited
  <2> QED
    BY <2>2, <2>3, <2>4
<1>3. CASE InsertUnit(r)
  <2> DEFINE u == req[r].unit
  <2>1. /\ u \in Units /\ req[r].zone \in Zones /\ req[r].zone \in zones /\ req[r].zone # NoZone
        /\ Answer(r) /\ UNCHANGED <<zones, alerts, feature>>
        /\ UNCHANGED zoneOf \/ zoneOf' = [zoneOf EXCEPT ![u] = req[r].zone]
    BY <1>3, RegistryAssumption DEF InsertUnit, Heard
  <2>2. RegistryTypeOK'
    <3>1. zoneOf' \in [Units -> Zones \cup {NoZone}]
      BY <2>1 DEF RegistryTypeOK
    <3> QED
      BY <2>1, <3>1, Answered DEF RegistryTypeOK, Request
  <2>3. Heard'
    BY <2>1, Answered DEF Heard, Idle
  <2>4. Rows' /\ References'
    BY <2>1 DEF Rows, References, Registered, Cited, RegistryTypeOK
  <2> QED
    BY <2>2, <2>3, <2>4
<1>4. CASE UpdateUnit(r)
  <2> DEFINE u == req[r].unit
  <2>1. /\ u \in Units /\ req[r].zone \in Zones /\ req[r].zone # NoZone /\ Answer(r)
        /\ UNCHANGED <<zones, alerts, feature>>
        /\ \/ UNCHANGED zoneOf
           \/ /\ u \in Registered /\ req[r].zone \in zones
              /\ zoneOf' = [zoneOf EXCEPT ![u] = req[r].zone]
    BY <1>4, RegistryAssumption DEF UpdateUnit, Heard
  <2>2. RegistryTypeOK'
    <3>1. zoneOf' \in [Units -> Zones \cup {NoZone}]
      BY <2>1 DEF RegistryTypeOK, Registered
    <3> QED
      BY <2>1, <3>1, Answered DEF RegistryTypeOK, Request
  <2>3. Heard'
    BY <2>1, Answered DEF Heard, Idle
  <2>4. Rows' /\ References'
    BY <2>1 DEF Rows, References, Registered, Cited, RegistryTypeOK
  <2> QED
    BY <2>2, <2>3, <2>4
<1>5. CASE DeleteUnit(r)
  <2> DEFINE u == req[r].unit
  <2>1. /\ u \in Units /\ Answer(r) /\ UNCHANGED <<zones, alerts, feature>>
        /\ \/ UNCHANGED zoneOf
           \/ u \notin Cited /\ zoneOf' = [zoneOf EXCEPT ![u] = NoZone]
    BY <1>5 DEF DeleteUnit, Heard
  <2>2. RegistryTypeOK'
    <3>1. zoneOf' \in [Units -> Zones \cup {NoZone}]
      BY <2>1 DEF RegistryTypeOK
    <3> QED
      BY <2>1, <3>1, Answered DEF RegistryTypeOK, Request
  <2>3. Heard'
    BY <2>1, Answered DEF Heard, Idle
  <2>4. Rows' /\ References'
    BY <2>1 DEF Rows, References, Registered, Cited, RegistryTypeOK
  <2> QED
    BY <2>2, <2>3, <2>4
<1> QED
  BY <1>1, <1>2, <1>3, <1>4, <1>5 DEF Serve

LEMMA TablesRegistry ==
  ASSUME Tables, RegistryNext
  PROVE  Tables'
<1>1. ASSUME NEW u \in Units, Record(u) PROVE Tables'
  BY <1>1 DEF Record, Tables, RegistryTypeOK, Rows, Heard, References, Registered, Cited
<1> QED
  BY <1>1, TablesAsk, TablesServe, Answers DEF RegistryNext, RequestFails

-------------------------------------------------------------------------------
(* The analyses *)

\* A task: what it is at and what it has found, a risk that is that of the life it found.
Working ==
  /\ step \in [Task -> {"off", "list", "next", "load", "commit", "publish"}]
  /\ todo \in [Task -> SUBSET Units]
  /\ unit \in [Task -> Units \cup {NoZone}]
  /\ \A t \in Task : unit[t] # NoZone <=> step[t] \in {"load", "commit", "publish"}
  /\ found \in [Task -> Feature \cup {NoFeature}]
  /\ \A t \in Task : step[t] \in {"commit", "publish"} =>
                      found[t] \in Feature /\ found[t].risk = Risk(found[t].rul)

\* The row that an alert is about is there before the alert, and stays.
Alerted ==
  /\ bus \subseteq Analysed
  /\ \A t \in Task : step[t] = "publish" => unit[t] \in Analysed

Derived == \A u \in Analysed : feature[u].risk = Risk(feature[u].rul)

Counted == up \in BOOLEAN /\ failures \in 0..MaxFailures

MaintenanceInv == Tables /\ Working /\ Alerted /\ Derived /\ Counted

LEMMA NoFeatureIs == NoFeature \notin Feature
BY MaintenanceAssumption DEF NoFeature, Feature

LEMMA Risks == \A rul \in Ruls : rul \in 0..730 /\ Risk(rul) \in 0..365
BY MaintenanceAssumption DEF Risk

LEMMA InitMaintenance == Init => MaintenanceInv
<1> SUFFICES ASSUME Init PROVE MaintenanceInv
  OBVIOUS
<1> USE DEF Init, RegistryInit
<1>1. Tables
  <2>1. Idle \in Request
    BY DEF Idle, Request, Op
  <2>2. RegistryTypeOK
    BY <2>1 DEF RegistryTypeOK, Request
  <2>3. Rows /\ Heard /\ References
    BY DEF Rows, Heard, References, Idle, Registered, Cited
  <2> QED
    BY <2>2, <2>3 DEF Tables
<1>2. Working
  BY DEF Working
<1>3. Alerted /\ Derived /\ Counted
  BY MaintenanceAssumption DEF Alerted, Derived, Counted, Analysed
<1> QED
  BY <1>1, <1>2, <1>3 DEF MaintenanceInv

\* A step that leaves the tables alone.
LEMMA TablesAside ==
  ASSUME Tables, UNCHANGED <<registryVars, feature>>
  PROVE  Tables'
BY DEF Tables, registryVars, RegistryTypeOK, Rows, Heard, References, Registered, Cited

\* analyse_unit returns.
LEMMA Returned ==
  ASSUME Working, NEW t \in Task, step[t] \in {"load", "commit", "publish"}, Return(t)
  PROVE  /\ Working' /\ step'[t] # "publish"
         /\ \A u \in Task : u # t => step'[u] = step[u] /\ unit'[u] = unit[u]
<1> USE DEF Working, Return
<1>1. step'[t] \in {"off", "next"} /\ \A u \in Task : u # t => step'[u] = step[u]
  OBVIOUS
<1>2. unit'[t] = NoZone /\ found'[t] = NoFeature
  OBVIOUS
<1>3. \A u \in Task : u # t => unit'[u] = unit[u] /\ found'[u] = found[u]
  OBVIOUS
<1>4. Working'
  BY <1>1, <1>2, <1>3
<1> QED
  BY <1>1, <1>3, <1>4

\* A step of a task that writes no row and alerts nobody.
LEMMA TaskAside ==
  ASSUME MaintenanceInv, NEW t \in Task, Working', UNCHANGED <<registryVars, feature, bus>>,
         up' \in BOOLEAN, failures' \in 0..MaxFailures, step'[t] # "publish",
         \A u \in Task : u # t => step'[u] = step[u] /\ unit'[u] = unit[u]
  PROVE  MaintenanceInv'
<1> USE DEF MaintenanceInv
<1>1. Tables'
  BY TablesAside
<1>2. Alerted' /\ Derived'
  BY DEF Alerted, Derived, Analysed
<1> QED
  BY <1>1, <1>2 DEF Counted

LEMMA MaintenanceTask ==
  ASSUME MaintenanceInv, NEW t \in Task,
         Start(t) \/ Demand(t) \/ Work(t) \/ AnalysisFails(t) \/ ListFails(t)
  PROVE  MaintenanceInv'
<1> USE DEF MaintenanceInv
<1>t. failures \in 0..MaxFailures /\ MaxFailures \in Nat /\ up \in BOOLEAN
  BY MaintenanceAssumption DEF Counted
<1>f. ASSUME failures < MaxFailures, failures' = failures + 1 PROVE failures' \in 0..MaxFailures
  BY <1>t, <1>f
<1>1. CASE Start(t) \/ List(t) \/ Finish(t) \/ ListFails(t)
  <2>1. /\ step[t] \in {"off", "list", "next"} /\ step'[t] \in {"list", "next", "off"}
        /\ step' = [step EXCEPT ![t] = step'[t]]
        /\ todo' = todo \/ todo' = [todo EXCEPT ![t] = Registered]
        /\ UNCHANGED <<registryVars, feature, unit, found, up, bus>>
    BY <1>1 DEF Start, List, Finish, ListFails, Working
  <2>2. failures' \in 0..MaxFailures
    BY <1>1, <1>t, <1>f DEF Start, List, Finish, ListFails
  <2>3. Registered \in SUBSET Units
    BY DEF Registered
  <2>4. Working'
    BY <2>1, <2>3 DEF Working
  <2> QED
    BY <1>t, <2>1, <2>2, <2>4, TaskAside DEF Working
<1>2. CASE Demand(t) \/ Take(t)
  <2>1. PICK u \in Units : unit' = [unit EXCEPT ![t] = u]
    BY <1>2 DEF Demand, Take, Working
  <2>2. /\ step' = [step EXCEPT ![t] = "load"] /\ todo' \in [Task -> SUBSET Units]
        /\ UNCHANGED <<registryVars, feature, found, up, bus, failures>>
    BY <1>2 DEF Demand, Take, Working
  <2>3. Working'
    BY <2>1, <2>2, RegistryAssumption DEF Working
  <2> QED
    BY <1>t, <2>1, <2>2, <2>3, TaskAside DEF Working
<1>3. CASE Compute(t)
  <2>1. PICK rul \in Ruls : found' = [found EXCEPT ![t] = [rul |-> rul, risk |-> Risk(rul)]]
    BY <1>3 DEF Compute
  <2>2. /\ step[t] = "load" /\ step' = [step EXCEPT ![t] = "commit"]
        /\ UNCHANGED <<registryVars, feature, todo, unit, up, bus, failures>>
    BY <1>3 DEF Compute
  <2>3. [rul |-> rul, risk |-> Risk(rul)] \in Feature
    BY Risks DEF Feature
  <2>4. Working'
    BY <2>1, <2>2, <2>3 DEF Working
  <2> QED
    BY <1>t, <2>2, <2>4, TaskAside DEF Working
<1>4. CASE Skip(t) \/ AnalysisFails(t)
  <2>1. /\ step[t] \in {"load", "commit", "publish"} /\ Return(t)
        /\ UNCHANGED <<registryVars, feature, up, bus>>
    BY <1>4 DEF Skip, AnalysisFails
  <2>2. failures' \in 0..MaxFailures
    BY <1>4, <1>t, <1>f DEF Skip, AnalysisFails
  <2> QED
    BY <1>t, <2>1, <2>2, Returned, TaskAside
<1>5. CASE Store(t)
  <2>1. step[t] = "commit" /\ unit[t] \in Units /\ UNCHANGED <<registryVars, up, bus, failures>>
    BY <1>5 DEF Store, Working
  <2>2. CASE unit[t] \notin Registered
    BY <1>5, <1>t, <2>1, <2>2, Returned, TaskAside DEF Store
  <2>3. CASE unit[t] \in Registered
    <3>1. feature' = [feature EXCEPT ![unit[t]] = found[t]]
      BY <1>5, <2>3 DEF Store
    <3>2. found[t] \in Feature /\ found[t].risk = Risk(found[t].rul) /\ found[t] # NoFeature
      BY <2>1, NoFeatureIs DEF Working
    <3>3. /\ Rows' /\ feature'[unit[t]] = found[t]
          /\ \A u \in Units : u # unit[t] => feature'[u] = feature[u]
      BY <2>1, <3>1, <3>2 DEF Tables, Rows
    <3>4. Analysed' = Analysed \cup {unit[t]} /\ Registered' = Registered
      BY <2>1, <3>2, <3>3 DEF Analysed, Registered, registryVars
    <3>5. Cited' = Cited \cup {unit[t]}
      BY <2>1, <3>2, <3>3 DEF Cited, registryVars
    <3>6. Tables'
      <4>1. RegistryTypeOK' /\ Heard'
        BY <2>1 DEF registryVars, RegistryTypeOK, Tables, Heard
      <4>2. References'
        BY <2>1, <2>3, <3>4, <3>5 DEF registryVars, References, Tables
      <4> QED
        BY <3>3, <4>1, <4>2 DEF Tables
    <3>7. Derived'
      BY <3>2, <3>3, <3>4 DEF Derived, Analysed
    <3>8. /\ Working' /\ (unit'[t] = unit[t] \/ step'[t] # "publish")
          /\ \A u \in Task : u # t => step'[u] = step[u] /\ unit'[u] = unit[u]
      <4>1. CASE AtLeast(found[t].risk, 7)
        <5>1. step' = [step EXCEPT ![t] = "publish"] /\ UNCHANGED <<todo, unit, found>>
          BY <1>5, <2>3, <4>1 DEF Store
        <5> QED
          BY <2>1, <5>1, <3>2 DEF Working
      <4>2. CASE ~AtLeast(found[t].risk, 7)
        BY <1>5, <2>1, <2>3, <4>2, Returned DEF Store
      <4> QED
        BY <4>1, <4>2
    <3>9. Alerted'
      BY <2>1, <3>4, <3>8 DEF Alerted
    <3> QED
      BY <2>1, <3>6, <3>7, <3>8, <3>9 DEF Counted
  <2> QED
    BY <2>2, <2>3
<1>6. CASE Alert(t)
  <2>1. /\ step[t] = "publish" /\ bus' = bus \cup {unit[t]} /\ Return(t)
        /\ UNCHANGED <<registryVars, feature, up, failures>>
    BY <1>6 DEF Alert
  <2>2. unit[t] \in Analysed /\ Analysed' = Analysed
    BY <2>1 DEF Alerted, Analysed
  <2>3. /\ Working' /\ step'[t] # "publish"
        /\ \A u \in Task : u # t => step'[u] = step[u] /\ unit'[u] = unit[u]
    BY <2>1, Returned
  <2>4. Alerted' /\ Derived'
    BY <2>1, <2>2, <2>3 DEF Alerted, Derived
  <2> QED
    BY <2>1, <2>3, <2>4, TablesAside DEF Counted
<1> QED
  BY <1>1, <1>2, <1>3, <1>4, <1>5, <1>6 DEF Work

LEMMA MaintenanceStep == ASSUME MaintenanceInv, [Next]_vars PROVE MaintenanceInv'
<1> USE DEF MaintenanceInv
<1>1. CASE RegistryNext /\ UNCHANGED <<taskVars, up, bus, failures>>
  <2>1. Tables' /\ UNCHANGED <<taskVars, up, bus, failures>>
    BY <1>1, TablesRegistry
  <2>2. UNCHANGED feature
    BY <1>1 DEF RegistryNext, Ask, Serve, RequestFails, Record, ReadZone, InsertZone, ZoneExists,
           UnitIsNew, InsertUnit, LoadUnit, UpdateUnit, DeleteUnit, Command
  <2>3. Working' /\ Alerted' /\ Derived' /\ Counted'
    BY <2>1, <2>2 DEF taskVars, Working, Alerted, Derived, Counted, Analysed
  <2> QED
    BY <2>1, <2>3
<1>2. ASSUME NEW t \in Task, Start(t) \/ Demand(t) \/ Work(t) \/ AnalysisFails(t) \/ ListFails(t)
      PROVE  MaintenanceInv'
  BY <1>2, MaintenanceTask
<1>3. CASE Crash
  <2>1. failures' \in 0..MaxFailures
    BY <1>3, MaintenanceAssumption DEF Crash, Counted
  <2>2. Working' /\ Alerted' /\ Derived'
    BY <1>3 DEF Crash, Working, Alerted, Derived, Analysed
  <2> QED
    BY <1>3, <2>1, <2>2, TablesAside DEF Crash, Counted
<1>4. CASE Restart \/ UNCHANGED vars
  <2>1. UNCHANGED <<registryVars, feature, taskVars, bus, failures>> /\ up' \in BOOLEAN
    BY <1>4 DEF Restart, vars, Counted
  <2>2. Working' /\ Alerted' /\ Derived' /\ Counted'
    BY <2>1 DEF taskVars, Working, Alerted, Derived, Counted, Analysed
  <2> QED
    BY <2>1, <2>2, TablesAside
<1> QED
  BY <1>1, <1>2, <1>3, <1>4 DEF Next

\* The inductive invariant of the services on their tables.
THEOREM MaintenanceInvariant == Spec => []MaintenanceInv
BY InitMaintenance, MaintenanceStep, PTL DEF Spec

\* The rows, the requests and the analyses keep their types (main.py:124-256, main (4).py:371-461).
THEOREM TablesAreTyped == Spec => []TypeOK
<1>1. MaintenanceInv => TypeOK
  <2> SUFFICES ASSUME MaintenanceInv PROVE TypeOK
    OBVIOUS
  <2>1. bus \subseteq Units
    BY DEF MaintenanceInv, Alerted, Analysed
  <2> QED
    BY <2>1 DEF MaintenanceInv, Tables, Rows, Working, Counted, TypeOK
<1> QED
  BY <1>1, MaintenanceInvariant, PTL

\* No row refers to what is not there, however requests and analyses interleave: what a request
\* has checked may be gone when it commits (main.py:178-203, 229-256).
THEOREM RowsReferToRows == Spec => []References
<1>1. MaintenanceInv => References
  BY DEF MaintenanceInv, Tables
<1> QED
  BY <1>1, MaintenanceInvariant, PTL

\* A unit that the maintenance service alerted of is registered from then on, so that the alert
\* can be recorded (main.py:229-235, main (4).py:406-439, main (3).py:173-185).
THEOREM AlertsAreOfRegistered == Spec => []AlertedIsRegistered
<1>1. MaintenanceInv => AlertedIsRegistered
  BY DEF MaintenanceInv, Tables, References, Alerted, Analysed, Cited, AlertedIsRegistered
<1> QED
  BY <1>1, MaintenanceInvariant, PTL

\* What is counted as critical or warning is what is listed so.
LEMMA Classes ==
  ASSUME NEW rul \in Ruls
  PROVE  /\ AtLeast(Risk(rul), 9) <=> Recommendation(Shown(rul), Risk(rul)) = "immediate"
         /\ AtLeast(Risk(rul), 7) /\ ~AtLeast(Risk(rul), 9)
              <=> Recommendation(Shown(rul), Risk(rul)) = "week"
<1>1. rul \in Int /\ 0 <= rul /\ rul <= 730
  BY Risks
<1>2. Risk(rul) = IF rul < 365 THEN 365 - rul ELSE 0
  BY DEF Risk
<1>3. /\ Shown(rul) \in Int /\ Risk(rul) \in Int
      /\ Shown(rul) < 7 => AtLeast(Risk(rul), 9)
      /\ Shown(rul) < 21 => AtLeast(Risk(rul), 9)
  BY <1>1, <1>2 DEF Shown, AtLeast
<1>4. AtLeast(Risk(rul), 9) => AtLeast(Risk(rul), 7)
  BY <1>1, <1>2 DEF AtLeast
<1> QED
  BY <1>3, <1>4 DEF Recommendation

\* The summary counts the units that the list calls for (main (4).py:356-362, 516-560).
THEOREM SummaryIsTheList == Spec => []CountedAsListed
<1>1. MaintenanceInv => CountedAsListed
  <2> SUFFICES ASSUME MaintenanceInv PROVE CountedAsListed
    OBVIOUS
  <2>1. \A u \in Analysed : feature[u].rul \in Ruls /\ feature[u].risk = Risk(feature[u].rul)
    BY DEF MaintenanceInv, Tables, Rows, Derived, Analysed, Feature
  <2>2. \A u \in Analysed : /\ AtLeast(feature[u].risk, 9) <=> Listed(u) = "immediate"
                            /\ AtLeast(feature[u].risk, 7) /\ ~AtLeast(feature[u].risk, 9)
                                 <=> Listed(u) = "week"
    BY <2>1, Classes DEF Listed
  <2> QED
    BY <2>2 DEF CountedAsListed, Critical, Warning
<1> QED
  BY <1>1, MaintenanceInvariant, PTL
===============================================================================
