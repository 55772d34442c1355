--------------------------- MODULE TwinNode_proofs ---------------------------
(***************************************************************************)
(* Proofs about the process of the digital twin service, TwinNode, and the *)
(* modules it is made of: TwinService for any number of handlers and       *)
(* clients and any lifetime, MqttClient with the service's subscription.   *)
(***************************************************************************)
EXTENDS TwinNode, FiniteSetTheorems, SequenceTheorems, WellFoundedInduction, TLAPS

-------------------------------------------------------------------------------
(* The mirror in Redis *)

RedisType ==
  /\ phase \in {"start", "boot", "ready", "down"}
  /\ step \in [Task -> Steps] /\ stale \in [Task -> BOOLEAN]
  /\ hash \in {"none", "before", "period", "latest"}
  /\ ttl \in 0..Ttl /\ (hash = "none" => ttl = 0)
  /\ lapsed \in BOOLEAN /\ orphan \in BOOLEAN

\* Who can be persisting in each phase.
Phased ==
  /\ phase = "start" => \A t \in Task : step[t] = "free"
  /\ phase = "boot" => \A h \in Handlers : step[h] = "free"
  /\ phase = "ready" => step[Boot] = "free"

\* An old hash is overwritten by the first task of the busy period that reaches Redis.
Overwritten ==
  phase \in {"boot", "ready"} /\ hash = "before" /\ ~lapsed =>
    Persisting # {} /\ \A t \in Persisting : step[t] = "hset"

\* A process that stops leaves no key without a lifetime, but for the orphan.
Abandoned == phase = "down" /\ hash # "none" /\ ttl = 0 => orphan

Mirrored == RedisType /\ Phased /\ Overwritten /\ Abandoned /\ SilentExpires

LEMMA Tasks == Boot \in Task /\ Boot \notin Handlers /\ \A h \in Handlers : h \in Task
BY TwinAssumption DEF Task

LEMMA Lifetime == Ttl \in Nat /\ Ttl > 0 /\ 0 \in 0..Ttl /\ Ttl \in 0..Ttl
BY TwinAssumption

LEMMA InitMirrored == TwinInit => Mirrored
<1> SUFFICES ASSUME TwinInit PROVE Mirrored
  OBVIOUS
<1> USE DEF TwinInit
<1>1. RedisType
  BY Lifetime DEF RedisType, Steps
<1>2. Phased /\ Overwritten /\ Abandoned /\ SilentExpires
  BY Tasks DEF Phased, Overwritten, Abandoned, SilentExpires
<1> QED
  BY <1>1, <1>2 DEF Mirrored

\* The cached state changes at the start of a task.
LEMMA MirroredBegins ==
  ASSUME Mirrored, NEW t \in Task, step[t] = "free", step' = [step EXCEPT ![t] = "hset"], NewState(t),
         UNCHANGED <<ttl, orphan>>,
         \/ phase = "start" /\ phase' = "boot" /\ t = Boot
         \/ phase = "ready" /\ phase' = "ready" /\ t \in Handlers
  PROVE  Mirrored'
<1> USE Tasks DEF Mirrored
<1>1. RedisType'
  <2>1. step' \in [Task -> Steps]
    BY DEF RedisType, Steps
  <2>2. stale' \in [Task -> BOOLEAN] /\ lapsed' \in BOOLEAN
    BY DEF NewState, RedisType
  <2>3. hash' \in {"none", "before", "period", "latest"} /\ (hash' = "none" <=> hash = "none")
    BY DEF NewState, RedisType
  <2> QED
    BY <2>1, <2>2, <2>3 DEF RedisType
<1>2. /\ step'[t] = "hset" /\ \A u \in Task : u # t => step'[u] = step[u]
      /\ Persisting' = Persisting \cup {t} /\ t \notin Persisting
  BY DEF RedisType, Persisting
<1>3. Phased'
  BY <1>2 DEF Phased
<1>4. Overwritten'
  <2>1. CASE Persisting = {}
    BY <1>2, <2>1 DEF Overwritten
  <2>2. CASE Persisting # {}
    <3>1. phase = "ready"
      BY <2>2 DEF Phased, Persisting
    <3>2. hash' = "before" /\ ~lapsed' => hash = "before" /\ ~lapsed
      BY <2>2 DEF NewState, RedisType
    <3> QED
      BY <1>2, <2>2, <3>1, <3>2 DEF Overwritten
  <2> QED
    BY <2>1, <2>2
<1>5. Abandoned' /\ SilentExpires'
  <2>1. hash' # "none" => hash # "none"
    BY DEF NewState, RedisType
  <2>2. \A u \in Task : step[u] = "expire" => step'[u] = "expire"
    BY <1>2
  <2> QED
    BY <2>1, <2>2 DEF Abandoned, SilentExpires
<1> QED
  BY <1>1, <1>3, <1>4, <1>5

LEMMA MirroredPersist ==
  ASSUME Mirrored, Running, NEW t \in Task, Persist(t)
  PROVE  Mirrored'
<1> USE Tasks DEF Mirrored
<1>1. CASE SetHash(t)
  <2>1. /\ step[t] = "hset" /\ step'[t] = "expire" /\ \A u \in Task : u # t => step'[u] = step[u]
        /\ step' \in [Task -> Steps] /\ hash' \in {"period", "latest"}
        /\ UNCHANGED <<phase, stale, ttl, lapsed, orphan>>
    BY <1>1 DEF SetHash, Goto, RedisType, Steps
  <2>2. RedisType'
    BY <2>1 DEF RedisType
  <2>3. Phased' /\ Overwritten' /\ Abandoned' /\ SilentExpires'
    BY <2>1 DEF Phased, Overwritten, Abandoned, SilentExpires, Running
  <2> QED
    BY <2>2, <2>3
<1>2. CASE Expire(t)
  <2>1. /\ step[t] = "expire" /\ step'[t] = "zadd" /\ \A u \in Task : u # t => step'[u] = step[u]
        /\ step' \in [Task -> Steps] /\ ttl' = (IF hash = "none" THEN 0 ELSE Ttl)
        /\ orphan' = FALSE /\ UNCHANGED <<phase, stale, hash, lapsed>>
    BY <1>2 DEF Expire, Goto, RedisType, Steps
  <2>2. RedisType'
    BY <2>1, Lifetime DEF RedisType
  <2>3. Overwritten'
    BY <2>1 DEF Overwritten, Persisting, Running
  <2>4. Phased' /\ Abandoned' /\ SilentExpires'
    BY <2>1, Lifetime DEF Phased, Abandoned, SilentExpires, Running
  <2> QED
    BY <2>2, <2>3, <2>4
<1>3. CASE Index(t)
  <2>1. /\ step[t] = "zadd" /\ step'[t] \in {"cast", "free"} /\ (t = Boot => step'[t] = "free")
        /\ \A u \in Task : u # t => step'[u] = step[u]
        /\ step' \in [Task -> Steps] /\ stale' \in [Task -> BOOLEAN]
        /\ phase' = (IF t = Boot THEN "ready" ELSE phase) /\ UNCHANGED <<hash, ttl, lapsed, orphan>>
    BY <1>3 DEF Index, Goto, RedisType, Steps
  <2>2. RedisType'
    BY <2>1 DEF RedisType
  <2>3. Overwritten'
    BY <2>1 DEF Overwritten, Persisting, Running
  <2>4. Phased' /\ Abandoned' /\ SilentExpires'
    BY <2>1 DEF Phased, Abandoned, SilentExpires, Running, Task
  <2> QED
    BY <2>2, <2>3, <2>4
<1> QED
  BY <1>1, <1>2, <1>3 DEF Persist

LEMMA MirroredFails ==
  ASSUME Mirrored, Running, NEW t \in Task, PersistFails(t)
  PROVE  Mirrored'
<1> USE Tasks DEF Mirrored
<1>1. /\ step[t] \in {"hset", "expire", "zadd"} /\ step'[t] = "free"
      /\ \A u \in Task : u # t => step'[u] = step[u]
      /\ step' \in [Task -> Steps] /\ stale' \in [Task -> BOOLEAN] /\ lapsed' = TRUE
      /\ orphan' = (orphan \/ (step[t] = "expire" /\ hash # "none" /\ ttl = 0))
      /\ phase' = (IF t = Boot THEN "down" ELSE phase) /\ UNCHANGED <<hash, ttl>>
  BY DEF PersistFails, Persisting, Goto, RedisType, Steps
<1>2. RedisType'
  BY <1>1 DEF RedisType
<1>3. Phased' /\ Overwritten'
  BY <1>1 DEF Phased, Overwritten, Task
<1>4. SilentExpires'
  BY <1>1 DEF SilentExpires
<1>5. Abandoned'
  <2>1. t = Boot => \A u \in Task : u # t => step[u] = "free"
    BY <1>1 DEF Phased, Running, Task
  <2> QED
    BY <1>1, <1>4, <2>1 DEF Abandoned, SilentExpires, Running
<1> QED
  BY <1>2, <1>3, <1>4, <1>5

\* A step that leaves Redis alone and no task persisting that was not.
LEMMA MirroredAside ==
  ASSUME Mirrored, UNCHANGED <<phase, redisVars>>, step' \in [Task -> Steps],
         \A t \in Task : \/ step'[t] = step[t]
                         \/ /\ t \in Handlers /\ step[t] \in {"cast", "sending"}
                            /\ step'[t] \in {"free", "cast", "sending"}
  PROVE  Mirrored'
<1> USE Tasks DEF Mirrored, redisVars
<1>1. RedisType'
  BY DEF RedisType
<1>2. Persisting' = Persisting /\ \A t \in Task : step'[t] = "expire" <=> step[t] = "expire"
  BY DEF Persisting
<1>3. Phased'
  BY DEF Phased
<1>4. Overwritten' /\ Abandoned' /\ SilentExpires'
  BY <1>2 DEF Overwritten, Abandoned, SilentExpires, Persisting
<1> QED
  BY <1>1, <1>3, <1>4

LEMMA MirroredAge ==
  ASSUME Mirrored, Age
  PROVE  Mirrored'
<1> USE DEF Mirrored, Age
<1>1. RedisType' /\ Phased' /\ Abandoned' /\ SilentExpires'
  BY Lifetime DEF RedisType, Phased, Abandoned, SilentExpires
<1>2. Overwritten'
  BY DEF Overwritten, Persisting
<1> QED
  BY <1>1, <1>2

LEMMA MirroredCrash ==
  ASSUME Mirrored, CrashTwin
  PROVE  Mirrored'
<1> USE DEF Mirrored, CrashTwin, MemoryLost
<1>1. RedisType'
  BY DEF RedisType, Steps
<1>2. Phased' /\ Overwritten' /\ Abandoned'
  BY DEF Phased, Overwritten, Abandoned
<1>3. SilentExpires'
  BY DEF SilentExpires
<1> QED
  BY <1>1, <1>2, <1>3

LEMMA MirroredRestart ==
  ASSUME Mirrored, RestartTwin, phase \in {"start", "down"}
  PROVE  Mirrored'
<1> USE DEF Mirrored, RestartTwin, MemoryLost
<1>1. RedisType' /\ Phased' /\ Overwritten' /\ Abandoned'
  BY DEF RedisType, Phased, Overwritten, Abandoned, Steps
<1>2. SilentExpires'
  BY DEF SilentExpires, Abandoned, Phased
<1> QED
  BY <1>1, <1>2

LEMMA MirroredService ==
  ASSUME Mirrored, ServiceStep
  PROVE  Mirrored'
<1> USE Tasks
<1>1. ASSUME Running, NEW t \in Task, Persist(t) \/ PersistFails(t) PROVE Mirrored'
  BY <1>1, MirroredPersist, MirroredFails
<1>2. ASSUME NEW h \in Handlers, Cast(h) PROVE Mirrored'
  <2>1. /\ UNCHANGED <<phase, redisVars>> /\ step[h] \in {"cast", "sending"}
        /\ \E place \in {"free", "cast", "sending"} : step' = [step EXCEPT ![h] = place]
    BY <1>2 DEF Cast, Take, Sent, CastEnds, Goto
  <2>2. step \in [Task -> Steps]
    BY DEF Mirrored, RedisType
  <2>3. /\ step' \in [Task -> Steps] /\ \A t \in Task : t # h => step'[t] = step[t]
        /\ step'[h] \in {"free", "cast", "sending"}
    BY <2>1, <2>2 DEF Steps
  <2> QED
    BY <2>1, <2>3, MirroredAside
<1>3. ASSUME NEW c \in Clients, Connect(c) \/ Snapshot(c) \/ StreamEnds(c) \/ Leave(c) PROVE Mirrored'
  <2>1. UNCHANGED <<phase, redisVars, step>>
    BY <1>3 DEF Connect, Snapshot, StreamEnds, Leave
  <2> QED
    BY <2>1, MirroredAside DEF Mirrored, RedisType
<1> QED
  BY <1>1, <1>2, <1>3, MirroredAge, MirroredCrash DEF ServiceStep

-------------------------------------------------------------------------------
(* The list of clients *)

\* A set of natural numbers that is not empty has a least element: the induction of the two lemmas
\* that follow.
LEMMA Least ==
  ASSUME NEW T \in SUBSET Nat, T # {}
  PROVE  \E n \in T : \A m \in T : n <= m
<1>1. IsWellFoundedOn(OpToRel(<,Nat), Nat)
  BY NatLessThanWellFounded
<1>2. PICK n \in T : \A m \in T : <<m, n>> \notin OpToRel(<,Nat)
  BY <1>1, WFMin
<1>3. \A m \in T : ~(m < n)
  BY <1>2 DEF OpToRel
<1>4. n \in Nat /\ \A m \in T : m \in Nat
  OBVIOUS
<1>5. \A m \in T : n <= m
  BY <1>3, <1>4
<1> QED
  BY <1>5

\* The recursive function of Removed exists.
LEMMA Kept ==
  ASSUME conns \in Seq(Clients), NEW gone
  PROVE  \E kept :
            /\ Removed(gone) = kept[Len(conns)]
            /\ \A n \in 0..Len(conns) :
                 kept[n] = IF n = 0 THEN <<>>
                           ELSE IF conns[n] \in gone THEN kept[n - 1]
                           ELSE Append(kept[n - 1], conns[n])
<1> DEFINE Step(g, n) == IF n = 0 THEN <<>>
                         ELSE IF conns[n] \in gone THEN g[n - 1] ELSE Append(g[n - 1], conns[n])
           Upto(m) == \E g \in [0..m -> Seq(Clients)] : \A n \in 0..m : g[n] = Step(g, n)
           Bad == {m \in 0..Len(conns) : ~Upto(m)}
<1>1. Len(conns) \in Nat /\ \A n \in 1..Len(conns) : conns[n] \in Clients
  BY LenProperties, ElementOfSeq
<1>2. Upto(0)
  <2>1. <<>> \in Seq(Clients)
    BY EmptySeq
  <2>2. [n \in 0..0 |-> <<>>] \in [0..0 -> Seq(Clients)]
    BY <2>1
  <2>3. \A n \in 0..0 : [i \in 0..0 |-> <<>>][n] = Step([i \in 0..0 |-> <<>>], n)
    OBVIOUS
  <2> QED
    BY <2>2, <2>3
<1>3. ASSUME NEW m \in 1..Len(conns), Upto(m - 1)
      PROVE  Upto(m)
  <2>1. PICK g \in [0..(m - 1) -> Seq(Clients)] : \A n \in 0..(m - 1) : g[n] = Step(g, n)
    BY <1>3
  <2>2. m \in Nat /\ m - 1 \in 0..(m - 1) /\ g[m - 1] \in Seq(Clients) /\ conns[m] \in Clients
    BY <1>1
  <2> DEFINE new == IF conns[m] \in gone THEN g[m - 1] ELSE Append(g[m - 1], conns[m])
             f == [n \in 0..m |-> IF n = m THEN new ELSE g[n]]
  <2>3. new \in Seq(Clients)
    BY <2>2, AppendProperties
  <2>4. f \in [0..m -> Seq(Clients)]
    <3>1. \A n \in 0..m : n # m => n \in 0..(m - 1)
      BY <2>2
    <3> QED
      BY <2>3, <3>1
  <2>5. ASSUME NEW n \in 0..m PROVE f[n] = Step(f, n)
    <3>1. CASE n = m
      BY <2>2, <3>1
    <3>2. CASE n # m
      <4>1. n \in 0..(m - 1) /\ (n # 0 => n - 1 \in 0..m /\ n - 1 # m)
        BY <2>2, <3>2
      <4> QED
        BY <2>1, <3>2, <4>1
    <3> QED
      BY <3>1, <3>2
  <2> QED
    BY <2>4, <2>5
<1> HIDE DEF Upto
<1>4. Bad = {}
  <2> SUFFICES ASSUME Bad # {} PROVE FALSE
    OBVIOUS
  <2>1. Bad \in SUBSET Nat
    BY <1>1
  <2>2. PICK m \in Bad : \A n \in Bad : m <= n
    BY <2>1, Least
  <2>3. m \in 0..Len(conns) /\ ~Upto(m)
    BY <2>2
  <2>4. m # 0
    BY <1>2, <2>3
  <2>5. m - 1 \in 0..Len(conns) /\ m \in 1..Len(conns) /\ ~(m <= m - 1)
    BY <1>1, <2>3, <2>4
  <2>6. Upto(m - 1)
    BY <2>2, <2>5
  <2> QED
    BY <1>3, <2>3, <2>5, <2>6
<1>5. Upto(Len(conns))
  BY <1>1, <1>4
<1> DEFINE F(g) == [n \in 0..Len(conns) |-> Step(g, n)]
           kept == CHOOSE g : g = F(g)
<1>6. PICK g \in [0..Len(conns) -> Seq(Clients)] : \A n \in 0..Len(conns) : g[n] = Step(g, n)
  BY <1>5 DEF Upto
<1>7. g = F(g)
  BY <1>6
<1>8. kept = F(kept)
  BY <1>7
<1>9. Removed(gone) = kept[Len(conns)]
  BY DEF Removed
<1>10. ASSUME NEW n \in 0..Len(conns) PROVE kept[n] = Step(kept, n)
  BY <1>8
<1> HIDE DEF kept
<1> QED
  BY <1>9, <1>10

\* The list without the removed ones: the rest, in a list without repetitions, each no further
\* back than it was.
LEMMA RemovedIs ==
  ASSUME conns \in Seq(Clients), NEW gone,
         \A i, j \in 1..Len(conns) : i # j => conns[i] # conns[j]
  PROVE  /\ Removed(gone) \in Seq(Clients)
         /\ \A i, j \in 1..Len(Removed(gone)) : i # j => Removed(gone)[i] # Removed(gone)[j]
         /\ \A c : (\E i \in 1..Len(Removed(gone)) : Removed(gone)[i] = c) <=>
                  (\E i \in 1..Len(conns) : conns[i] = c /\ c \notin gone)
         /\ \A i \in 1..Len(conns) : conns[i] \notin gone =>
              \E j \in 1..Len(Removed(gone)) : j <= i /\ Removed(gone)[j] = conns[i]
<1>1. PICK kept :
        /\ Removed(gone) = kept[Len(conns)]
        /\ \A n \in 0..Len(conns) :
             kept[n] = IF n = 0 THEN <<>>
                       ELSE IF conns[n] \in gone THEN kept[n - 1]
                       ELSE Append(kept[n - 1], conns[n])
  BY Kept
<1>2. Len(conns) \in Nat /\ \A n \in 1..Len(conns) : conns[n] \in Clients
  BY LenProperties, ElementOfSeq
<1> DEFINE Good(s, n) ==
             /\ s \in Seq(Clients)
             /\ \A i, j \in 1..Len(s) : i # j => s[i] # s[j]
             /\ \A i \in 1..Len(s) : s[i] \notin gone /\ \E j \in 1..n : conns[j] = s[i]
             /\ \A j \in 1..n : conns[j] \notin gone => \E i \in 1..Len(s) : i <= j /\ s[i] = conns[j]
             /\ Len(s) <= n
           Bad == {n \in 0..Len(conns) : ~Good(kept[n], n)}
<1>3. Good(kept[0], 0)
  <2>1. kept[0] = <<>>
    BY <1>1, <1>2
  <2>2. <<>> \in Seq(Clients) /\ Len(<<>>) = 0
    BY EmptySeq
  <2> QED
    BY <2>1, <2>2
<1>4. ASSUME NEW n \in 1..Len(conns), NEW s, Good(s, n - 1), conns[n] \in gone
      PROVE  Good(s, n)
  <2>1. n \in Nat /\ \A i \in 1..n : i # n => i \in 1..(n - 1)
    BY <1>2
  <2>2. \A i \in 1..(n - 1) : i \in 1..n
    BY <2>1
  <2>3. Len(s) <= n
    BY <1>4, <2>1, LenProperties
  <2>4. \A j \in 1..n : conns[j] \notin gone => \E i \in 1..Len(s) : i <= j /\ s[i] = conns[j]
    BY <1>4, <2>1
  <2>5. \A i \in 1..Len(s) : s[i] \notin gone /\ \E j \in 1..n : conns[j] = s[i]
    BY <1>4, <2>2
  <2> QED
    BY <1>4, <2>3, <2>4, <2>5
<1>5. ASSUME NEW n \in 1..Len(conns), NEW s, Good(s, n - 1), conns[n] \notin gone
      PROVE  Good(Append(s, conns[n]), n)
  <2> DEFINE t == Append(s, conns[n])
  <2>1. n \in Nat /\ n \in 1..n /\ (\A i \in 1..n : i # n => i \in 1..(n - 1))
        /\ \A i \in 1..(n - 1) : i \in 1..n /\ i # n /\ i \in 1..Len(conns)
    BY <1>2
  <2>2. s \in Seq(Clients) /\ conns[n] \in Clients
    BY <1>2, <1>5
  <2>3. /\ t \in Seq(Clients) /\ Len(s) \in Nat /\ Len(t) = Len(s) + 1
        /\ t[Len(s) + 1] = conns[n] /\ \A i \in 1..Len(s) : t[i] = s[i]
    BY <2>2, AppendProperties, LenProperties
  <2>4. \A i \in 1..Len(t) : i \in 1..Len(s) \/ i = Len(s) + 1
    BY <2>3
  <2>5. \A i \in 1..Len(s) : i \in 1..Len(t) /\ i # Len(s) + 1
    BY <2>3
  <2>6. Len(s) + 1 \in 1..Len(t)
    BY <2>3
  <2> HIDE DEF t
  <2>7. \A i \in 1..Len(s) : s[i] # conns[n]
    BY <1>5, <2>1
  <2>8. \A i, j \in 1..Len(t) : i # j => t[i] # t[j]
    BY <1>5, <2>3, <2>4, <2>7
  <2>9. \A i \in 1..Len(t) : t[i] \notin gone /\ \E j \in 1..n : conns[j] = t[i]
    BY <1>5, <2>1, <2>3, <2>4
  <2>10. \A j \in 1..n : conns[j] \notin gone => \E i \in 1..Len(t) : i <= j /\ t[i] = conns[j]
    <3> SUFFICES ASSUME NEW j \in 1..n, conns[j] \notin gone
                 PROVE  \E i \in 1..Len(t) : i <= j /\ t[i] = conns[j]
      OBVIOUS
    <3>1. CASE j = n
      BY <1>5, <2>1, <2>3, <2>6, <3>1
    <3>2. CASE j # n
      <4>1. PICK i \in 1..Len(s) : i <= j /\ s[i] = conns[j]
        BY <1>5, <2>1, <3>2
      <4> QED
        BY <2>3, <2>5, <4>1
    <3> QED
      BY <3>1, <3>2
  <2>11. Len(t) <= n
    BY <1>5, <2>1, <2>3
  <2>12. Good(t, n)
    BY <2>3, <2>8, <2>9, <2>10, <2>11
  <2> QED
    BY <2>12 DEF t
<1> HIDE DEF Good
<1>6. Bad = {}
  <2> SUFFICES ASSUME Bad # {} PROVE FALSE
    OBVIOUS
  <2>1. Bad \in SUBSET Nat
    BY <1>2
  <2>2. PICK n \in Bad : \A m \in Bad : n <= m
    BY <2>1, Least
  <2>3. n \in 0..Len(conns) /\ ~Good(kept[n], n)
    BY <2>2
  <2>4. n # 0
    BY <1>3, <2>3
  <2>5. n - 1 \in 0..Len(conns) /\ n \in 1..Len(conns) /\ ~(n <= n - 1)
    BY <1>2, <2>3, <2>4
  <2>6. Good(kept[n - 1], n - 1)
    BY <2>2, <2>5
  <2>7. kept[n] = IF conns[n] \in gone THEN kept[n - 1] ELSE Append(kept[n - 1], conns[n])
    BY <1>1, <2>3, <2>4
  <2> QED
    BY <1>4, <1>5, <2>3, <2>5, <2>6, <2>7
<1>7. Good(Removed(gone), Len(conns))
  <2>1. Good(kept[Len(conns)], Len(conns))
    BY <1>2, <1>6
  <2> QED
    BY <1>1, <2>1
<1> QED
  BY <1>2, <1>7 DEF Good

-------------------------------------------------------------------------------
(* The broadcasts *)

ListType ==
  /\ conns \in Seq(Clients) /\ open \subseteq Clients
  /\ \A i, j \in 1..Len(conns) : i # j => conns[i] # conns[j]
  /\ stream \in [Clients -> {"off", "snapshot", "ping"}]

CastType ==
  /\ next \in [Task -> 1..(Cardinality(Clients) + 1)]
  /\ target \in [Task -> Clients \cup {NoClient}]
  /\ \A t \in Task : target[t] # NoClient <=> step[t] = "sending"
  /\ dead \in [Task -> Seq(Clients)]
  /\ owed \in [Task -> SUBSET Clients] /\ shifted \in [Task -> 0..Cardinality(Clients)]

\* The clients a broadcast owes but will not come to: they are no more than other tasks removed
\* from before its place.
Missed(t) ==
  {c \in owed[t] : \A i \in 1..Len(conns) : conns[i] = c => i < next[t]}

Owing == \A t \in Casting : Cardinality(Missed(t)) <= shifted[t]

Casts == ListType /\ CastType /\ Owing /\ failures \in 0..MaxFailures

LEMMA Connections == \A c : c \in Listed <=> \E i \in DOMAIN conns : conns[i] = c
BY DEF Listed

\* There are no more places in the list than clients.
LEMMA Places ==
  ASSUME ListType
  PROVE  /\ Len(conns) \in Nat /\ DOMAIN conns = 1..Len(conns) /\ Cardinality(Clients) \in Nat
         /\ Len(conns) <= Cardinality(Clients) /\ \A i \in 1..Len(conns) : conns[i] \in Clients
<1>1. Len(conns) \in Nat /\ DOMAIN conns = 1..Len(conns) /\ conns \in [1..Len(conns) -> Clients]
  BY LenProperties DEF ListType
<1>2. IsFiniteSet(Clients) /\ Cardinality(Clients) \in Nat
  BY TwinAssumption, FS_CardinalityType
<1>3. IsFiniteSet(1..Len(conns)) /\ Cardinality(1..Len(conns)) = Len(conns)
  BY <1>1, FS_Interval
<1>4. ~(Cardinality(Clients) < Len(conns))
  BY <1>1, <1>2, <1>3, FS_PigeonHole DEF ListType
<1>5. \A i \in 1..Len(conns) : conns[i] \in Clients
  BY <1>1
<1> QED
  BY <1>1, <1>2, <1>4, <1>5

LEMMA Subsets ==
  ASSUME NEW S \in SUBSET Clients
  PROVE  /\ IsFiniteSet(S) /\ Cardinality(S) \in Nat /\ Cardinality(Clients) \in Nat
         /\ Cardinality(S) <= Cardinality(Clients)
         /\ \A T \in SUBSET S : Cardinality(T) \in Nat /\ Cardinality(T) <= Cardinality(S)
<1>1. IsFiniteSet(Clients) /\ Cardinality(Clients) \in Nat
  BY TwinAssumption, FS_CardinalityType
<1>2. IsFiniteSet(S) /\ Cardinality(S) \in Nat /\ Cardinality(S) <= Cardinality(Clients)
  BY <1>1, FS_Subset, FS_CardinalityType
<1>3. ASSUME NEW T \in SUBSET S PROVE Cardinality(T) \in Nat /\ Cardinality(T) <= Cardinality(S)
  BY <1>2, FS_Subset, FS_CardinalityType
<1> QED
  BY <1>1, <1>2, <1>3

\* The clients a removal moves from a place the broadcast has still to come to to one it has been to.
Overtaken(gone, u) ==
  {c \in Clients :
     /\ \E i \in 1..Len(conns) : next[u] - 1 < i /\ conns[i] = c
     /\ \E j \in 1..Len(Removed(gone)) : j <= next[u] - 1 /\ Removed(gone)[j] = c}

\* They are no more than the clients removed from there.
LEMMA MovedUp ==
  ASSUME ListType, NEW gone, NEW u, next[u] - 1 \in Nat
  PROVE  /\ Cardinality(Emptied(gone, u)) \in Nat /\ Cardinality(Overtaken(gone, u)) \in Nat
         /\ Cardinality(Overtaken(gone, u)) <= Cardinality(Emptied(gone, u))
<1> DEFINE p == next[u] - 1
           K == Emptied(gone, u)
           N == Overtaken(gone, u)
<1>p. p \in Nat
  OBVIOUS
<1>K. K = {i \in 1..p : i \in DOMAIN conns /\ conns[i] \in gone}
  BY DEF Emptied
<1>N. /\ N \in SUBSET Clients
      /\ \A c \in N : /\ \E i \in 1..Len(conns) : p < i /\ conns[i] = c
                     /\ \E j \in 1..Len(Removed(gone)) : j <= p /\ Removed(gone)[j] = c
  BY DEF Overtaken
<1> SUFFICES Cardinality(K) \in Nat /\ Cardinality(N) \in Nat /\ Cardinality(N) <= Cardinality(K)
  OBVIOUS
<1> HIDE DEF p, K, N
<1> DEFINE R == Removed(gone)
           J == (1..p) \ K
           A == {c \in Clients : \E j \in 1..p : j \in 1..Len(R) /\ R[j] = c}
           B == {c \in Clients : \E i \in J : conns[i] = c}
<1>1. /\ Len(conns) \in Nat /\ DOMAIN conns = 1..Len(conns)
      /\ \A i \in 1..Len(conns) : conns[i] \in Clients
      /\ \A i, j \in 1..Len(conns) : i # j => conns[i] # conns[j]
  BY Places DEF ListType
<1>2. \A i \in 1..Len(conns) : conns[i] \notin gone => \E j \in 1..Len(R) : j <= i /\ R[j] = conns[i]
  BY RemovedIs DEF ListType
<1>3. IsFiniteSet(1..p) /\ Cardinality(1..p) = p
  BY <1>p, FS_Interval
<1>4. /\ IsFiniteSet(K) /\ Cardinality(K) \in Nat
      /\ IsFiniteSet(J) /\ Cardinality(J) = p - Cardinality(K)
  <2>1. K \in SUBSET (1..p) /\ (1..p) \cap K = K
    BY <1>K
  <2>2. IsFiniteSet(K) /\ Cardinality(K) \in Nat
    BY <1>3, <2>1, FS_Subset, FS_CardinalityType
  <2>3. IsFiniteSet(J) /\ Cardinality(J) = Cardinality(1..p) - Cardinality((1..p) \cap K)
    BY <1>3, FS_Difference
  <2> QED
    BY <1>3, <2>1, <2>2, <2>3
<1>5. IsFiniteSet(N) /\ Cardinality(N) \in Nat
  BY <1>N, Subsets
<1>6. CASE Len(conns) <= p
  <2>1. N = {}
    BY <1>p, <1>N, <1>1, <1>6
  <2> QED
    BY <1>4, <1>5, <2>1, FS_EmptySet
<1>7. CASE p < Len(conns)
  <2>1. \A i \in J : i \in 1..Len(conns) /\ conns[i] \notin gone /\ i <= p
    BY <1>p, <1>K, <1>1, <1>7
  <2>2. IsFiniteSet(A) /\ Cardinality(A) \in Nat /\ Cardinality(A) <= p
    <3> DEFINE f == [c \in A |-> CHOOSE j \in 1..p : j \in 1..Len(R) /\ R[j] = c]
    <3>1. \A c \in A : f[c] \in 1..p /\ R[f[c]] = c
      OBVIOUS
    <3>2. f \in [A -> 1..p]
      BY <3>1
    <3>3. f \in Injection(A, 1..p)
      BY <3>1, <3>2 DEF Injection, IsInjective
    <3>4. Cardinality(A) <= Cardinality(1..p)
      BY <1>3, <3>3, FS_Injection
    <3> QED
      BY <1>3, <3>4, Subsets
  <2>3. IsFiniteSet(B) /\ Cardinality(B) \in Nat /\ Cardinality(J) <= Cardinality(B)
    <3> DEFINE g == [i \in J |-> conns[i]]
    <3>1. g \in [J -> B]
      BY <1>1, <2>1
    <3>2. g \in Injection(J, B)
      BY <1>1, <2>1, <3>1 DEF Injection, IsInjective
    <3>3. IsFiniteSet(B) /\ Cardinality(B) \in Nat
      BY Subsets
    <3> QED
      BY <3>2, <3>3, FS_Injection
  <2>4. B \subseteq A
    <3> SUFFICES ASSUME NEW i \in J PROVE conns[i] \in A
      OBVIOUS
    <3>1. PICK j \in 1..Len(R) : j <= i /\ R[j] = conns[i]
      BY <1>2, <2>1
    <3>2. Len(R) \in Nat
      BY RemovedIs, LenProperties DEF ListType
    <3>3. j \in 1..p
      BY <1>p, <2>1, <3>1, <3>2
    <3> QED
      BY <1>1, <2>1, <3>1, <3>3
  <2>5. N \subseteq A
    <3> SUFFICES ASSUME NEW c \in N PROVE c \in A
      OBVIOUS
    <3>1. PICK j \in 1..Len(R) : j <= p /\ R[j] = c
      BY <1>N
    <3>2. Len(R) \in Nat
      BY RemovedIs, LenProperties DEF ListType
    <3>3. j \in 1..p
      BY <1>p, <3>1, <3>2
    <3> QED
      BY <1>N, <3>1, <3>3
  <2>6. N \cap B = {}
    <3> SUFFICES ASSUME NEW c \in N, c \in B PROVE FALSE
      OBVIOUS
    <3>1. PICK i \in 1..Len(conns) : p < i /\ conns[i] = c
      BY <1>N
    <3>2. PICK k \in J : conns[k] = c
      OBVIOUS
    <3> QED
      BY <1>p, <1>1, <2>1, <3>1, <3>2
  <2>7. Cardinality(N \cup B) = Cardinality(N) + Cardinality(B)
    <3>1. Cardinality(N \cup B) = Cardinality(N) + Cardinality(B) - Cardinality(N \cap B)
      BY <1>5, <2>3, FS_Union
    <3>2. Cardinality(N \cap B) = 0
      BY <2>6, FS_EmptySet
    <3> HIDE DEF B
    <3> QED
      BY <1>5, <2>3, <3>1, <3>2
  <2>8. Cardinality(N \cup B) <= Cardinality(A)
    BY <2>2, <2>4, <2>5, FS_Subset
  <2> HIDE DEF A, B, J
  <2> QED
    BY <1>p, <1>4, <1>5, <2>2, <2>3, <2>7, <2>8
<1> QED
  BY <1>p, <1>1, <1>6, <1>7

\* A broadcast that misses nobody it did not miss before.
LEMMA NotMissed ==
  ASSUME CastType, NEW t \in Task, Missed(t)' \subseteq Missed(t),
         Cardinality(Missed(t)) <= shifted[t], shifted'[t] = shifted[t]
  PROVE  Cardinality(Missed(t)') <= shifted'[t]
<1>1. Missed(t) \in SUBSET Clients /\ Missed(t)' \in SUBSET Missed(t)
  BY DEF Missed, CastType
<1>2. Cardinality(Missed(t)') <= Cardinality(Missed(t))
  BY <1>1, Subsets
<1>3. Cardinality(Missed(t)') \in Nat /\ Cardinality(Missed(t)) \in Nat /\ Cardinality(Clients) \in Nat
  BY <1>1, Subsets
<1>4. shifted[t] \in Nat
  BY <1>3 DEF CastType
<1> QED
  BY <1>2, <1>3, <1>4

LEMMA InitCasts == TwinInit => Casts
<1> SUFFICES ASSUME TwinInit PROVE Casts
  OBVIOUS
<1> USE DEF TwinInit
<1>1. ListType
  <2>1. conns \in Seq(Clients) /\ Len(conns) = 0
    BY EmptySeq
  <2> QED
    BY <2>1 DEF ListType
<1>2. 1 \in 1..(Cardinality(Clients) + 1) /\ 0 \in 0..Cardinality(Clients)
  BY <1>1, Places
<1>3. <<>> \in Seq(Clients)
  BY EmptySeq
<1>4. CastType
  BY <1>2, <1>3 DEF CastType
<1>5. Owing /\ failures \in 0..MaxFailures
  BY TwinAssumption DEF Owing, Casting
<1> QED
  BY <1>1, <1>4, <1>5 DEF Casts

\* A step of tasks that are not broadcasting.
LEMMA CastsAside ==
  ASSUME Casts, UNCHANGED <<castVars, clientVars>>, failures' \in 0..MaxFailures,
         \A t \in Task : \/ step'[t] = step[t]
                         \/ /\ step[t] \in {"free", "hset", "expire", "zadd"}
                            /\ step'[t] \in {"free", "hset", "expire", "zadd"}
  PROVE  Casts'
<1> USE DEF Casts, castVars, clientVars
<1>1. ListType'
  BY DEF ListType
<1>2. CastType'
  BY DEF CastType
<1>3. Owing'
  <2> SUFFICES ASSUME NEW u \in Task, u \in Casting' PROVE Cardinality(Missed(u)') <= shifted'[u]
    BY DEF Owing, Casting
  <2>1. u \in Casting /\ Missed(u)' \subseteq Missed(u) /\ shifted'[u] = shifted[u]
    BY DEF Casting, Missed
  <2> QED
    BY <2>1, NotMissed DEF Owing
<1> QED
  BY <1>1, <1>2, <1>3

LEMMA CastsIndex ==
  ASSUME Casts, NEW t \in Task, step \in [Task -> Steps], Index(t)
  PROVE  Casts'
<1> USE DEF Casts
<1>1. /\ step[t] = "zadd" /\ step'[t] \in {"cast", "free"} /\ \A u \in Task : u # t => step'[u] = step[u]
      /\ next' = [next EXCEPT ![t] = 1] /\ dead' = [dead EXCEPT ![t] = <<>>]
      /\ owed' = [owed EXCEPT ![t] = IF t # Boot THEN Listed ELSE {}]
      /\ shifted' = [shifted EXCEPT ![t] = 0] /\ UNCHANGED <<target, failures, conns, open, stream>>
  BY DEF Index, Goto, clientVars
<1>2. \A c \in Listed : c \in Clients /\ \E i \in 1..Len(conns) : conns[i] = c
  BY Connections, Places
<1>3. ListType'
  BY <1>1 DEF ListType
<1>4. 1 \in 1..(Cardinality(Clients) + 1) /\ 0 \in 0..Cardinality(Clients) /\ <<>> \in Seq(Clients)
  BY Places, EmptySeq
<1>5. CastType'
  <2>1. next' \in [Task -> 1..(Cardinality(Clients) + 1)] /\ dead' \in [Task -> Seq(Clients)]
    BY <1>1, <1>4 DEF CastType
  <2>2. owed' \in [Task -> SUBSET Clients] /\ shifted' \in [Task -> 0..Cardinality(Clients)]
    BY <1>1, <1>2, <1>4 DEF CastType
  <2>3. \A u \in Task : target'[u] # NoClient <=> step'[u] = "sending"
    BY <1>1 DEF CastType
  <2> QED
    BY <1>1, <2>1, <2>2, <2>3 DEF CastType
<1>6. Owing'
  <2> SUFFICES ASSUME NEW u \in Task, u \in Casting' PROVE Cardinality(Missed(u)') <= shifted'[u]
    BY DEF Owing, Casting
  <2>1. CASE u = t
    <3>1. next'[u] = 1 /\ shifted'[u] = 0 /\ conns' = conns /\ owed'[u] \subseteq Listed
      BY <1>1, <2>1 DEF CastType
    <3>2. \A i \in 1..Len(conns) : ~(i < 1)
      BY Places
    <3>3. Missed(u)' = {}
      BY <1>2, <3>1, <3>2 DEF Missed
    <3> QED
      BY <3>1, <3>3, FS_EmptySet
  <2>2. CASE u # t
    <3>1. u \in Casting /\ Missed(u)' \subseteq Missed(u) /\ shifted'[u] = shifted[u]
      BY <1>1, <2>2 DEF Casting, Missed, CastType
    <3> QED
      BY <3>1, NotMissed DEF Owing
  <2> QED
    BY <2>1, <2>2
<1> QED
  BY <1>1, <1>3, <1>5, <1>6

LEMMA CastsTake ==
  ASSUME Casts, NEW h \in Task, step \in [Task -> Steps], Take(h)
  PROVE  Casts'
<1> USE DEF Casts
<1>1. /\ next[h] <= Len(conns) /\ step[h] = "cast" /\ step'[h] = "sending"
      /\ \A u \in Task : u # h => step'[u] = step[u]
      /\ target' = [target EXCEPT ![h] = conns[next[h]]]
      /\ next' = [next EXCEPT ![h] = next[h] + 1]
      /\ owed' = [owed EXCEPT ![h] = owed[h] \ {conns[next[h]]}]
      /\ UNCHANGED <<failures, dead, shifted, conns, open, stream>>
  BY DEF Take, Goto, clientVars
<1>2. ListType'
  BY <1>1 DEF ListType
<1>3. next[h] \in 1..(Cardinality(Clients) + 1)
  BY DEF CastType
<1>4. next[h] \in 1..Len(conns) /\ next[h] + 1 \in 1..(Cardinality(Clients) + 1) /\ next[h] \in Nat
  BY <1>1, <1>3, Places
<1>5. conns[next[h]] \in Clients /\ conns[next[h]] # NoClient
  BY <1>4, Places, TwinAssumption
<1>6. CastType'
  <2>1. next' \in [Task -> 1..(Cardinality(Clients) + 1)]
    BY <1>1, <1>4 DEF CastType
  <2>2. target' \in [Task -> Clients \cup {NoClient}] /\ owed' \in [Task -> SUBSET Clients]
    BY <1>1, <1>5 DEF CastType
  <2>3. \A u \in Task : target'[u] # NoClient <=> step'[u] = "sending"
    BY <1>1, <1>5 DEF CastType
  <2> QED
    BY <1>1, <2>1, <2>2, <2>3 DEF CastType
<1>7. Owing'
  <2> SUFFICES ASSUME NEW u \in Task, u \in Casting' PROVE Cardinality(Missed(u)') <= shifted'[u]
    BY DEF Owing, Casting
  <2>1. u \in Casting /\ shifted'[u] = shifted[u]
    BY <1>1 DEF Casting
  <2>2. Missed(u)' \subseteq Missed(u)
    <3>1. CASE u = h
      <4>1. owed'[u] = owed[u] \ {conns[next[u]]} /\ next'[u] = next[u] + 1 /\ conns' = conns
        BY <1>1, <3>1 DEF CastType
      <4>2. \A i \in 1..Len(conns) : i < next[u] + 1 /\ i # next[u] => i < next[u]
        BY <1>4, <3>1, Places
      <4> QED
        BY <4>1, <4>2 DEF Missed
    <3>2. CASE u # h
      BY <1>1, <3>2 DEF Missed, CastType
    <3> QED
      BY <3>1, <3>2
  <2> QED
    BY <2>1, <2>2, NotMissed DEF Owing
<1> QED
  BY <1>1, <1>2, <1>6, <1>7

LEMMA CastsSent ==
  ASSUME Casts, NEW h \in Task, step \in [Task -> Steps], Sent(h)
  PROVE  Casts'
<1> USE DEF Casts
<1>1. /\ step[h] = "sending" /\ step'[h] = "cast" /\ \A u \in Task : u # h => step'[u] = step[u]
      /\ target' = [target EXCEPT ![h] = NoClient]
      /\ dead' = IF target[h] \in open THEN dead
                 ELSE [dead EXCEPT ![h] = Append(dead[h], target[h])]
      /\ UNCHANGED <<failures, next, owed, shifted, conns, open, stream>>
  BY DEF Sent, Goto, clientVars
<1>2. ListType'
  BY <1>1 DEF ListType
<1>3. target[h] \in Clients /\ dead[h] \in Seq(Clients)
  BY <1>1 DEF CastType
<1>4. Append(dead[h], target[h]) \in Seq(Clients)
  BY <1>3, AppendProperties
<1>5. CastType'
  <2>1. dead' \in [Task -> Seq(Clients)]
    BY <1>1, <1>4 DEF CastType
  <2>2. /\ target' \in [Task -> Clients \cup {NoClient}]
        /\ \A u \in Task : target'[u] # NoClient <=> step'[u] = "sending"
    BY <1>1 DEF CastType
  <2> QED
    BY <1>1, <2>1, <2>2 DEF CastType
<1>6. Owing'
  <2> SUFFICES ASSUME NEW u \in Task, u \in Casting' PROVE Cardinality(Missed(u)') <= shifted'[u]
    BY DEF Owing, Casting
  <2>1. u \in Casting /\ Missed(u)' \subseteq Missed(u) /\ shifted'[u] = shifted[u]
    BY <1>1 DEF Casting, Missed
  <2> QED
    BY <2>1, NotMissed DEF Owing
<1> QED
  BY <1>1, <1>2, <1>5, <1>6

\* A removal moves nobody up uncounted.
LEMMA CastsRemoved ==
  ASSUME Casts, NEW gone, NEW t, conns' = Removed(gone), Forget(gone, t),
         \A u \in Task : u # t => step'[u] = step[u] /\ next'[u] = next[u]
  PROVE  /\ conns' \in Seq(Clients) /\ \A i, j \in 1..Len(conns') : i # j => conns'[i] # conns'[j]
         /\ owed' \in [Task -> SUBSET Clients] /\ shifted' \in [Task -> 0..Cardinality(Clients)]
         /\ Owing'
<1> USE DEF Casts
<1>1. conns' \in Seq(Clients) /\ \A i, j \in 1..Len(conns') : i # j => conns'[i] # conns'[j]
  BY RemovedIs DEF ListType
<1>2. owed' \in [Task -> SUBSET Clients]
  BY DEF Forget, CastType
<1>3. Cardinality(Clients) \in Nat
  BY Places
<1>4. ASSUME NEW u \in Casting
      PROVE  Cardinality(Emptied(gone, u)) \in Nat /\ Shifted(gone, u) \in 0..Cardinality(Clients)
  <2>1. u \in Task /\ next[u] \in 1..(Cardinality(Clients) + 1) /\ shifted[u] \in 0..Cardinality(Clients)
    BY DEF Casting, CastType
  <2>2. next[u] - 1 \in Nat
    BY <1>3, <2>1
  <2>3. Cardinality(Emptied(gone, u)) \in Nat
    BY <2>2, MovedUp
  <2> QED
    BY <1>3, <2>1, <2>3 DEF Shifted
<1>5. shifted' \in [Task -> 0..Cardinality(Clients)]
  <2>1. 0 \in 0..Cardinality(Clients)
    BY <1>3
  <2> QED
    BY <1>4, <2>1 DEF Forget, Casting
<1>6. Owing'
  <2> SUFFICES ASSUME NEW u \in Task, u \in Casting' PROVE Cardinality(Missed(u)') <= shifted'[u]
    BY DEF Owing, Casting
  <2>t. CASE u = t
    <3>1. owed'[u] = {} /\ shifted'[u] = 0
      BY <2>t DEF Forget
    <3>2. Missed(u)' = {}
      BY <3>1 DEF Missed
    <3> QED
      BY <3>1, <3>2, FS_EmptySet
  <2> SUFFICES ASSUME u # t PROVE Cardinality(Missed(u)') <= shifted'[u]
    BY <2>t
  <2>1. /\ u \in Casting /\ next'[u] = next[u]
        /\ owed'[u] = owed[u] \ gone /\ shifted'[u] = Shifted(gone, u)
    BY DEF Forget, Casting
  <2>2. /\ next[u] \in 1..(Cardinality(Clients) + 1) /\ shifted[u] \in 0..Cardinality(Clients)
        /\ owed[u] \in SUBSET Clients
    BY DEF CastType
  <2>3. next[u] - 1 \in Nat /\ next[u] \in Nat /\ shifted[u] \in Nat
    BY <1>3, <2>2
  <2> DEFINE N == {c \in Missed(u)' : c \notin Missed(u)}
  <2>4. ASSUME NEW c \in N PROVE c \in Overtaken(gone, u)
    <3>1. /\ c \in owed[u] /\ c \in Clients /\ c \notin gone
          /\ \A j \in 1..Len(conns') : conns'[j] = c => j < next[u]
      BY <2>1, <2>2 DEF Missed
    <3>2. PICK i \in 1..Len(conns) : conns[i] = c /\ ~(i < next[u])
      BY <3>1 DEF Missed
    <3>3. PICK j \in 1..Len(Removed(gone)) : Removed(gone)[j] = c
      BY <3>1, <3>2, RemovedIs DEF ListType
    <3>4. i \in Nat /\ j \in Nat
      BY <1>1, <3>2, <3>3, Places, LenProperties
    <3>5. j < next[u]
      BY <3>1, <3>3
    <3>6. next[u] - 1 < i /\ j <= next[u] - 1
      BY <2>3, <3>2, <3>4, <3>5
    <3> QED
      BY <3>1, <3>2, <3>3, <3>6 DEF Overtaken
  <2>5. Missed(u) \in SUBSET Clients /\ Missed(u)' \in SUBSET Clients /\ N \in SUBSET Clients
    BY <1>2, <2>2 DEF Missed
  <2>6. /\ Cardinality(N) \in Nat /\ Cardinality(Emptied(gone, u)) \in Nat
        /\ Cardinality(N) <= Cardinality(Emptied(gone, u))
    <3>1. /\ Cardinality(Emptied(gone, u)) \in Nat /\ Cardinality(Overtaken(gone, u)) \in Nat
          /\ Cardinality(Overtaken(gone, u)) <= Cardinality(Emptied(gone, u))
      BY <2>3, MovedUp
    <3>2. Overtaken(gone, u) \in SUBSET Clients
      BY DEF Overtaken
    <3>3. Cardinality(N) \in Nat /\ Cardinality(N) <= Cardinality(Overtaken(gone, u))
      BY <2>4, <3>2, Subsets
    <3> HIDE DEF N
    <3> QED
      BY <3>1, <3>3
  <2>7. /\ Cardinality(Missed(u)') \in Nat /\ Cardinality(Missed(u)') <= Cardinality(Clients)
        /\ Cardinality(Missed(u)) \in Nat /\ IsFiniteSet(Missed(u)) /\ IsFiniteSet(N)
    BY <2>5, Subsets
  <2>8. Cardinality(Missed(u)') <= Cardinality(Missed(u)) + Cardinality(N)
    <3> DEFINE both == Missed(u) \cup N
    <3>1. Missed(u)' \in SUBSET both /\ both \in SUBSET Clients
      BY <2>5
    <3>2. Missed(u) \cap N = {}
      OBVIOUS
    <3>3. Cardinality(both) = Cardinality(Missed(u)) + Cardinality(N) - Cardinality(Missed(u) \cap N)
      BY <2>7, FS_Union
    <3>s. Cardinality(Missed(u) \cap N) = 0
      BY <3>2, FS_EmptySet
    <3> HIDE DEF both, N
    <3>4. Cardinality(Missed(u)') <= Cardinality(both)
      BY <3>1, Subsets
    <3> QED
      BY <2>6, <2>7, <3>3, <3>s, <3>4
  <2>9. Cardinality(Missed(u)) <= shifted[u]
    BY <2>1 DEF Owing
  <2> HIDE DEF N
  <2> QED
    BY <1>3, <2>1, <2>3, <2>6, <2>7, <2>8, <2>9 DEF Shifted
<1> QED
  BY <1>1, <1>2, <1>5, <1>6

LEMMA CastsEnd ==
  ASSUME Casts, NEW h \in Task, step \in [Task -> Steps], CastEnds(h)
  PROVE  Casts'
<1> USE DEF Casts
<1>1. /\ step[h] = "cast" /\ step'[h] = "free" /\ (\A u \in Task : u # h => step'[u] = step[u])
      /\ conns' = Removed(Reaped(h)) /\ Forget(Reaped(h), h)
      /\ dead' = [dead EXCEPT ![h] = <<>>] /\ next' = [next EXCEPT ![h] = 1]
      /\ UNCHANGED <<failures, target, open, stream>>
  BY DEF CastEnds, Goto
<1>2. \A u \in Task : u # h => next'[u] = next[u]
  BY <1>1 DEF CastType
<1>3. /\ conns' \in Seq(Clients) /\ (\A i, j \in 1..Len(conns') : i # j => conns'[i] # conns'[j])
      /\ owed' \in [Task -> SUBSET Clients] /\ shifted' \in [Task -> 0..Cardinality(Clients)]
      /\ Owing'
  BY <1>1, <1>2, CastsRemoved
<1>4. ListType'
  BY <1>1, <1>3 DEF ListType
<1>5. 1 \in 1..(Cardinality(Clients) + 1) /\ <<>> \in Seq(Clients)
  BY Places, EmptySeq
<1>6. CastType'
  BY <1>1, <1>3, <1>5 DEF CastType
<1> QED
  BY <1>1, <1>3, <1>4, <1>6

LEMMA CastsClient ==
  ASSUME Casts, NEW c \in Clients, Connect(c) \/ Snapshot(c) \/ StreamEnds(c) \/ Leave(c)
  PROVE  Casts'
<1> USE DEF Casts
<1>1. CASE Connect(c)
  <2>1. /\ c \notin Listed /\ conns' = Append(conns, c) /\ open' = open \cup {c}
        /\ stream' = [stream EXCEPT ![c] = "snapshot"]
        /\ UNCHANGED <<step, failures, next, target, dead, owed, shifted>>
    BY <1>1 DEF Connect, castVars
  <2>2. /\ conns' \in Seq(Clients) /\ Len(conns) \in Nat /\ Len(conns') = Len(conns) + 1
        /\ conns'[Len(conns) + 1] = c /\ \A i \in 1..Len(conns) : conns'[i] = conns[i]
    BY <2>1, AppendProperties, LenProperties DEF ListType
  <2>3. /\ \A i \in 1..Len(conns') : i \in 1..Len(conns) \/ i = Len(conns) + 1
        /\ \A i \in 1..Len(conns) : i \in 1..Len(conns')
    BY <2>2
  <2>4. \A i \in 1..Len(conns) : conns[i] # c
    BY <2>1, Connections, Places
  <2>5. ListType'
    BY <2>1, <2>2, <2>3, <2>4 DEF ListType
  <2>6. CastType'
    BY <2>1 DEF CastType
  <2>7. Owing'
    <3> SUFFICES ASSUME NEW u \in Task, u \in Casting' PROVE Cardinality(Missed(u)') <= shifted'[u]
      BY DEF Owing, Casting
    <3>1. u \in Casting /\ Missed(u)' \subseteq Missed(u) /\ shifted'[u] = shifted[u]
      BY <2>1, <2>2, <2>3 DEF Casting, Missed
    <3> QED
      BY <3>1, NotMissed DEF Owing
  <2> QED
    BY <2>1, <2>5, <2>6, <2>7
<1>2. CASE Snapshot(c) \/ Leave(c)
  <2>1. /\ open' \subseteq open /\ stream' \in [Clients -> {"off", "snapshot", "ping"}]
        /\ UNCHANGED <<step, failures, conns, next, target, dead, owed, shifted>>
    BY <1>2 DEF Snapshot, Leave, castVars, ListType
  <2>2. ListType'
    BY <2>1 DEF ListType
  <2>3. CastType'
    BY <2>1 DEF CastType
  <2>4. Owing'
    <3> SUFFICES ASSUME NEW u \in Task, u \in Casting' PROVE Cardinality(Missed(u)') <= shifted'[u]
      BY DEF Owing, Casting
    <3>1. u \in Casting /\ Missed(u)' \subseteq Missed(u) /\ shifted'[u] = shifted[u]
      BY <2>1 DEF Casting, Missed
    <3> QED
      BY <3>1, NotMissed DEF Owing
  <2> QED
    BY <2>1, <2>2, <2>3, <2>4
<1>3. CASE StreamEnds(c)
  <2>1. PICK gone \in {{}, {c} \cap Listed} : conns' = Removed(gone) /\ Forget(gone, NoClient)
    BY <1>3 DEF StreamEnds
  <2>2. /\ stream' = [stream EXCEPT ![c] = "off"]
        /\ UNCHANGED <<step, failures, open, next, target, dead>>
    BY <1>3 DEF StreamEnds
  <2>3. /\ conns' \in Seq(Clients) /\ (\A i, j \in 1..Len(conns') : i # j => conns'[i] # conns'[j])
        /\ owed' \in [Task -> SUBSET Clients] /\ shifted' \in [Task -> 0..Cardinality(Clients)]
        /\ Owing'
    BY <2>1, <2>2, CastsRemoved
  <2>4. ListType'
    BY <2>2, <2>3 DEF ListType
  <2>5. CastType'
    BY <2>2, <2>3 DEF CastType
  <2> QED
    BY <2>2, <2>3, <2>4, <2>5
<1> QED
  BY <1>1, <1>2, <1>3

LEMMA CastsMemoryLost ==
  ASSUME Casts, MemoryLost, failures' \in 0..MaxFailures
  PROVE  Casts'
<1> USE DEF Casts, MemoryLost
<1>1. <<>> \in Seq(Clients) /\ Len(<<>>) = 0 /\ 1 \in 1..(Cardinality(Clients) + 1)
  BY EmptySeq, Places
<1>2. 0 \in 0..Cardinality(Clients)
  BY Places
<1>3. ListType'
  BY <1>1 DEF ListType
<1>4. CastType'
  BY <1>1, <1>2 DEF CastType
<1>5. Owing'
  BY DEF Owing, Casting
<1> QED
  BY <1>3, <1>4, <1>5

LEMMA CastsRestart == ASSUME Casts, RestartTwin PROVE Casts'
BY CastsMemoryLost DEF RestartTwin, Casts

LEMMA CastsService ==
  ASSUME Casts, Mirrored, ServiceStep
  PROVE  Casts'
<1>1. step \in [Task -> Steps] /\ failures \in 0..MaxFailures /\ MaxFailures \in Nat
  BY TwinAssumption DEF Mirrored, RedisType, Casts
<1>2. ASSUME failures < MaxFailures, failures' = failures + 1 PROVE failures' \in 0..MaxFailures
  BY <1>1, <1>2
<1>3. ASSUME NEW t \in Task, Persist(t) \/ PersistFails(t) PROVE Casts'
  <2>1. CASE Index(t)
    BY <1>1, <2>1, CastsIndex
  <2>2. CASE SetHash(t) \/ Expire(t) \/ PersistFails(t)
    <3>1. /\ step[t] \in {"hset", "expire", "zadd"} /\ step'[t] \in {"expire", "zadd", "free"}
          /\ \A u \in Task : u # t => step'[u] = step[u]
      BY <1>1, <2>2 DEF SetHash, Expire, PersistFails, Persisting, Goto
    <3>2. UNCHANGED <<castVars, clientVars>> /\ failures' \in 0..MaxFailures
      BY <1>1, <1>2, <2>2 DEF SetHash, Expire, PersistFails
    <3> QED
      BY <3>1, <3>2, CastsAside
  <2> QED
    BY <1>3, <2>1, <2>2 DEF Persist
<1>4. ASSUME NEW h \in Handlers, Cast(h) PROVE Casts'
  BY <1>1, <1>4, Tasks, CastsTake, CastsSent, CastsEnd DEF Cast
<1>5. CASE Age
  BY <1>1, <1>5, CastsAside DEF Age
<1>6. CASE CrashTwin
  BY <1>1, <1>2, <1>6, CastsMemoryLost DEF CrashTwin
<1> QED
  BY <1>3, <1>4, <1>5, <1>6, CastsClient DEF ServiceStep

LEMMA CastsStart ==
  ASSUME Casts, Mirrored, StartBoot \/ \E h \in Handlers : Receive(h)
  PROVE  Casts'
<1>1. PICK t \in Task : /\ step[t] = "free" /\ step' = [step EXCEPT ![t] = "hset"]
                        /\ UNCHANGED <<failures, castVars, clientVars>>
  BY Tasks DEF StartBoot, Receive, Goto, Mirrored, Phased
<1>2. step \in [Task -> Steps] /\ failures \in 0..MaxFailures
  BY DEF Mirrored, RedisType, Casts
<1>3. step'[t] = "hset" /\ \A u \in Task : u # t => step'[u] = step[u]
  BY <1>1, <1>2
<1> QED
  BY <1>1, <1>2, <1>3, CastsAside

-------------------------------------------------------------------------------
(* The service *)

LEMMA StartBootMirrored == ASSUME Mirrored, StartBoot PROVE Mirrored'
<1>1. /\ phase = "start" /\ phase' = "boot" /\ step' = [step EXCEPT ![Boot] = "hset"] /\ NewState(Boot)
      /\ step[Boot] = "free" /\ UNCHANGED <<ttl, orphan>>
  BY Tasks DEF StartBoot, Goto, Mirrored, Phased
<1> QED
  BY <1>1, Tasks, MirroredBegins

LEMMA ReceiveMirrored == ASSUME Mirrored, NEW h \in Handlers, Receive(h) PROVE Mirrored'
<1>1. /\ phase = "ready" /\ phase' = "ready" /\ step' = [step EXCEPT ![h] = "hset"] /\ NewState(h)
      /\ step[h] = "free" /\ UNCHANGED <<ttl, orphan>>
  BY DEF Receive, Goto
<1> QED
  BY <1>1, Tasks, MirroredBegins

TwinInv == Mirrored /\ Casts

LEMMA TwinStep == ASSUME TwinInv, [TwinNext]_twinVars PROVE TwinInv'
<1> USE DEF TwinInv
<1>1. CASE StartBoot
  BY <1>1, StartBootMirrored, CastsStart
<1>2. ASSUME NEW h \in Handlers, Receive(h) PROVE TwinInv'
  BY <1>2, ReceiveMirrored, CastsStart
<1>3. CASE ServiceStep
  BY <1>3, MirroredService, CastsService
<1>4. CASE phase = "down" /\ RestartTwin
  BY <1>4, MirroredRestart, CastsRestart
<1>5. CASE UNCHANGED twinVars
  <2>1. UNCHANGED <<phase, redisVars, step, failures, castVars, clientVars>>
    BY <1>5 DEF twinVars
  <2>2. step \in [Task -> Steps] /\ failures \in 0..MaxFailures
    BY DEF Mirrored, RedisType, Casts
  <2>3. Mirrored'
    BY <2>1, <2>2, MirroredAside
  <2>4. Casts'
    BY <2>1, <2>2, CastsAside
  <2> QED
    BY <2>3, <2>4
<1> QED
  BY <1>1, <1>2, <1>3, <1>4, <1>5 DEF TwinNext

\* The inductive invariant of the service.
THEOREM TwinInvariant == TwinSpec => []TwinInv
<1>1. TwinInit => TwinInv
  BY InitMirrored, InitCasts DEF TwinInv
<1> QED
  BY <1>1, TwinStep, PTL DEF TwinSpec

\* Every variable keeps its type; a client is in the list once, and a broadcast that awaits a
\* send has a client to send to.
LEMMA ServiceTyped == TwinInv => TwinTypeOK
<1> SUFFICES ASSUME TwinInv PROVE TwinTypeOK
  OBVIOUS
<1>1. DOMAIN conns = 1..Len(conns)
  BY Places DEF TwinInv, Casts
<1> QED
  BY <1>1 DEF TwinInv, Mirrored, RedisType, Casts, ListType, CastType, TwinTypeOK

\* The mirror is not older than the busy period, and the key of a silent unit has a lifetime.
LEMMA ServiceMirrors == TwinInv => MirrorKeepsUp /\ SilentExpires
BY DEF TwinInv, Mirrored, Overwritten, MirrorKeepsUp

\* A broadcast that comes to the end of the list owes only those it missed.
LEMMA ServiceSends == TwinInv => NobodySkipped
<1> SUFFICES ASSUME TwinInv, NEW h \in Handlers, step[h] = "cast", next[h] > Len(conns)
             PROVE  Cardinality(owed[h]) <= shifted[h]
  BY DEF NobodySkipped
<1>1. h \in Casting /\ next[h] \in 1..(Cardinality(Clients) + 1)
  BY Tasks DEF TwinInv, Casts, CastType, Casting
<1>2. \A i \in 1..Len(conns) : i < next[h]
  BY <1>1, Places DEF TwinInv, Casts
<1>3. Missed(h) = owed[h]
  BY <1>2 DEF Missed
<1> QED
  BY <1>1, <1>3 DEF TwinInv, Casts, Owing

\* The service's variables keep their types; a client is in _ws_connections once, whatever
\* broadcasts and streams remove (main (1).py:166-173, 282-302).
THEOREM ServiceTypes == TwinSpec => []TwinTypeOK
BY TwinInvariant, ServiceTyped, PTL

\* After a busy period the hash in Redis is not older than it, however the commands of the
\* handlers were interleaved, unless a call failed (main (1).py:107, 160-161).
THEOREM MirrorIsOfThePeriod == TwinSpec => []MirrorKeepsUp
BY TwinInvariant, ServiceMirrors, PTL

\* A key without a lifetime is being given one, or a handler was interrupted before it could
\* (main (1).py:107-108).
THEOREM HashesExpire == TwinSpec => []SilentExpires
BY TwinInvariant, ServiceMirrors, PTL

\* A broadcast sends to every client that was listed when it began and still is, but for at most
\* one for each client that other tasks removed from before its place (main (1).py:166-173, 300).
THEOREM BroadcastReachesAll == TwinSpec => []NobodySkipped
BY TwinInvariant, ServiceSends, PTL

-------------------------------------------------------------------------------
(* The MQTT client *)

\* While _on_connect goes through the handlers, what it has not come to is not yet subscribed to.
Covered == thread = "resubscribing" /\ session => handlers \ adding \subseteq subs \cup left

\* What the callbacks queued last says what the last of them saw.
Queued ==
  thread \in {"connected", "lost"} =>
    IF calls = <<>> THEN event = (thread = "connected")
                    ELSE calls[Len(calls)] = IF thread = "connected" THEN "set" ELSE "clear"

Linked == M!MqttTypeOK /\ Covered /\ AllSubscribed /\ Queued

Call == {"set", "clear"}

LEMMA Counts == \A S : M!Cardinality(S) = Cardinality(S)
BY DEF M!Cardinality, Cardinality

LEMMA Sizes ==
  /\ 0 \in 0..M!Cardinality({Telemetry})
  /\ \A S \in SUBSET {Telemetry} : M!Cardinality(S) \in 0..M!Cardinality({Telemetry})
<1>1. IsFiniteSet({Telemetry}) /\ Cardinality({Telemetry}) = 1
  BY FS_Singleton
<1>2. ASSUME NEW S \in SUBSET {Telemetry} PROVE Cardinality(S) \in 0..Cardinality({Telemetry})
  <2>1. IsFiniteSet(S) /\ Cardinality(S) <= Cardinality({Telemetry})
    BY <1>1, FS_Subset
  <2>2. Cardinality(S) \in Nat
    BY <2>1, FS_CardinalityType
  <2> QED
    BY <1>1, <2>1, <2>2
<1> QED
  BY <1>1, <1>2, Counts

\* One more call in the queue, and one fewer.
LEMMA Queue ==
  ASSUME NEW q \in Seq(Call)
  PROVE  /\ Len(q) \in Nat
         /\ \A c \in Call : /\ Append(q, c) \in Seq(Call) /\ Append(q, c) # <<>>
                            /\ Append(q, c)[Len(Append(q, c))] = c
         /\ q # <<>> => /\ Tail(q) \in Seq(Call)
                        /\ Tail(q) = <<>> => q[Len(q)] = Head(q)
                        /\ Tail(q) # <<>> => q[Len(q)] = Tail(q)[Len(Tail(q))]
<1>1. Len(q) \in Nat
  BY LenProperties
<1>2. ASSUME NEW c \in Call
      PROVE  /\ Append(q, c) \in Seq(Call) /\ Append(q, c) # <<>>
             /\ Append(q, c)[Len(Append(q, c))] = c
  BY AppendProperties
<1>3. ASSUME q # <<>>
      PROVE  /\ Tail(q) \in Seq(Call)
             /\ Tail(q) = <<>> => q[Len(q)] = Head(q)
             /\ Tail(q) # <<>> => q[Len(q)] = Tail(q)[Len(Tail(q))]
  <2>1. /\ Tail(q) \in Seq(Call) /\ Len(Tail(q)) = Len(q) - 1
        /\ \A i \in 1..Len(Tail(q)) : Tail(q)[i] = q[i + 1]
    BY <1>3, HeadTailProperties
  <2>2. Tail(q) = <<>> => Len(q) = 1
    <3>1. Tail(q) = <<>> => Len(Tail(q)) = 0
      BY EmptySeq
    <3> QED
      BY <1>1, <2>1, <3>1
  <2>3. Head(q) = q[1]
    BY <1>3, EmptySeq
  <2>4. Tail(q) # <<>> => Len(Tail(q)) \in 1..Len(Tail(q)) /\ Len(Tail(q)) + 1 = Len(q)
    <3>1. Tail(q) # <<>> => Len(Tail(q)) \in Nat \ {0}
      BY <2>1, EmptySeq
    <3> QED
      BY <1>1, <2>1, <3>1
  <2> QED
    BY <2>1, <2>2, <2>3, <2>4
<1> QED
  BY <1>1, <1>2, <1>3

LEMMA InitLinked == M!MqttInit => Linked
<1> SUFFICES ASSUME M!MqttInit PROVE Linked
  OBVIOUS
<1> USE DEF M!MqttInit
<1>1. size \in 0..M!Cardinality({Telemetry}) /\ calls \in Seq({"set", "clear"})
  BY Sizes, EmptySeq
<1>2. M!MqttTypeOK
  BY <1>1 DEF M!MqttTypeOK
<1> QED
  BY <1>2 DEF Linked, Covered, AllSubscribed, M!AllSubscribed, Queued

LEMMA LinkedThread ==
  ASSUME Linked, M!ClientThread
  PROVE  Linked'
<1> USE DEF Linked, M!MqttTypeOK, Covered, AllSubscribed, M!AllSubscribed, Queued
<1>q. calls \in Seq(Call)
  BY DEF Call
<1>1. CASE M!Connack
  <2>1. size' = M!Cardinality(handlers) /\ handlers \in SUBSET {Telemetry}
    BY <1>1 DEF M!Connack
  <2>2. size' \in 0..M!Cardinality({Telemetry})
    BY <2>1, Sizes
  <2>3. M!MqttTypeOK'
    BY <1>1, <2>2 DEF M!Connack
  <2>4. Covered' /\ AllSubscribed' /\ Queued'
    BY <1>1 DEF M!Connack
  <2> QED
    BY <2>3, <2>4
<1>2. ASSUME NEW t \in {Telemetry}, M!Resubscribe(t) PROVE Linked'
  <2>1. subs' = (IF session THEN subs \cup {t} ELSE subs) /\ left' = left \ {t}
    BY <1>2 DEF M!Resubscribe, M!SubscribeTo
  <2> QED
    BY <1>2, <2>1 DEF M!Resubscribe
<1>3. CASE M!IterationRaises
  BY <1>3 DEF M!IterationRaises
<1>4. CASE M!Resubscribed
  <2>1. calls' = Append(calls, "set") /\ thread' = "connected"
    BY <1>4 DEF M!Resubscribed
  <2>2. calls' \in Seq(Call) /\ calls' # <<>> /\ calls'[Len(calls')] = "set"
    BY <1>q, <2>1, Queue DEF Call
  <2>3. Queued'
    BY <2>1, <2>2
  <2>4. M!MqttTypeOK'
    BY <1>4, <2>2 DEF M!Resubscribed, Call
  <2>5. Covered' /\ AllSubscribed'
    BY <1>4 DEF M!Resubscribed
  <2> QED
    BY <2>3, <2>4, <2>5
<1>5. CASE M!OnDisconnect
  <2>1. calls' = Append(calls, "clear") /\ thread' = "lost"
    BY <1>5 DEF M!OnDisconnect
  <2>2. calls' \in Seq(Call) /\ calls' # <<>> /\ calls'[Len(calls')] = "clear"
    BY <1>q, <2>1, Queue DEF Call
  <2>3. Queued'
    BY <2>1, <2>2
  <2>4. M!MqttTypeOK'
    BY <1>5, <2>2 DEF M!OnDisconnect, Call
  <2>5. Covered' /\ AllSubscribed'
    BY <1>5 DEF M!OnDisconnect
  <2> QED
    BY <2>3, <2>4, <2>5
<1>6. CASE M!Reconnect
  BY <1>6 DEF M!Reconnect
<1> QED
  BY <1>1, <1>2, <1>3, <1>4, <1>5, <1>6 DEF M!ClientThread

LEMMA LinkedLoop ==
  ASSUME Linked, \/ M!RunCall \/ M!Connected \/ M!StartFails
                 \/ M!AddHandler(Telemetry) \/ M!Subscribe(Telemetry)
  PROVE  Linked'
<1> USE DEF Linked, M!MqttTypeOK, Covered, AllSubscribed, M!AllSubscribed, Queued
<1>q. calls \in Seq(Call)
  BY DEF Call
<1>1. CASE M!RunCall
  <2>1. /\ calls # <<>> /\ event' = (Head(calls) = "set") /\ calls' = Tail(calls)
        /\ UNCHANGED <<up, session, subs, thread, size, left, handlers, adding, app>>
    BY <1>1 DEF M!RunCall
  <2>2. /\ calls' \in Seq(Call) /\ (calls' = <<>> => calls[Len(calls)] = Head(calls))
        /\ (calls' # <<>> => calls[Len(calls)] = calls'[Len(calls')])
    BY <1>q, <2>1, Queue
  <2>3. Queued'
    BY <2>1, <2>2
  <2>4. M!MqttTypeOK'
    BY <2>1, <2>2 DEF Call
  <2> QED
    BY <2>1, <2>3, <2>4
<1>2. CASE M!Connected
  BY <1>2 DEF M!Connected
<1>3. CASE M!StartFails
  BY <1>3 DEF M!StartFails
<1>4. CASE M!AddHandler(Telemetry)
  BY <1>4 DEF M!AddHandler
<1>5. CASE M!Subscribe(Telemetry)
  BY <1>5 DEF M!Subscribe, M!SubscribeTo
<1> QED
  BY <1>1, <1>2, <1>3, <1>4, <1>5

LEMMA LinkedRest ==
  ASSUME Linked, M!BrokerDown \/ M!BrokerUp \/ M!Break \/ M!Relaunch \/ UNCHANGED mqttVars
  PROVE  Linked'
<1> USE DEF Linked, M!MqttTypeOK, Covered, AllSubscribed, M!AllSubscribed, Queued
<1>1. CASE M!BrokerDown
  BY <1>1 DEF M!BrokerDown
<1>2. CASE M!BrokerUp
  BY <1>2 DEF M!BrokerUp
<1>3. CASE M!Break
  BY <1>3 DEF M!Break
<1>4. CASE M!Relaunch
  <2>1. size' \in 0..M!Cardinality({Telemetry}) /\ calls' \in Seq({"set", "clear"})
    BY <1>4, Sizes, EmptySeq DEF M!Relaunch
  <2>2. M!MqttTypeOK'
    BY <1>4, <2>1 DEF M!Relaunch
  <2>3. Covered' /\ AllSubscribed' /\ Queued'
    BY <1>4 DEF M!Relaunch
  <2> QED
    BY <2>2, <2>3
<1>5. CASE UNCHANGED mqttVars
  BY <1>5 DEF mqttVars
<1> QED
  BY <1>1, <1>2, <1>3, <1>4, <1>5

-------------------------------------------------------------------------------
(* The process *)

\* The service is in its startup until the client is connected.
Launched == app # "running" => phase = "start"

Zoned == zone \in {"sleep", "publish", "set", "ended"}

NodeInv == Linked /\ TwinInv /\ Launched /\ Zoned

LEMMA InitNode == Init => NodeInv
<1> SUFFICES ASSUME Init PROVE NodeInv
  OBVIOUS
<1>1. Linked /\ TwinInv
  BY InitLinked, InitMirrored, InitCasts DEF Init, TwinInv
<1> QED
  BY <1>1 DEF NodeInv, Launched, Zoned, Init, TwinInit

\* A step that leaves the twin alone, but for a failure.
LEMMA TwinAside ==
  ASSUME TwinInv, UNCHANGED <<phase, redisVars, step, castVars, clientVars>>,
         failures' \in 0..MaxFailures
  PROVE  TwinInv'
BY MirroredAside, CastsAside DEF TwinInv, Mirrored, RedisType

LEMMA NodeStep == ASSUME NodeInv, [Next]_vars PROVE NodeInv'
<1> USE DEF NodeInv
<1>t. failures \in 0..MaxFailures /\ MaxFailures \in Nat
  BY TwinAssumption DEF TwinInv, Casts
<1>1. CASE Boots
  <2>1. Linked'
    BY <1>1, LinkedLoop DEF Boots
  <2>2. TwinInv'
    BY <1>1, TwinStep DEF Boots, TwinNext
  <2>3. Launched' /\ Zoned'
    BY <1>1 DEF Boots, M!Connected, Launched, Zoned
  <2> QED
    BY <2>1, <2>2, <2>3
<1>2. CASE Subscribes
  <2>1. Linked'
    BY <1>2, LinkedLoop DEF Subscribes
  <2>2. UNCHANGED <<phase, redisVars, step, failures, castVars, clientVars, app, zone>>
    BY <1>2 DEF Subscribes, twinVars, M!AddHandler, M!Subscribe
  <2>3. TwinInv'
    BY <1>t, <2>2, TwinAside
  <2> QED
    BY <2>1, <2>2, <2>3 DEF Launched, Zoned
<1>3. ASSUME NEW h \in Handlers, Receives(h) PROVE NodeInv'
  <2>1. Receive(h) /\ UNCHANGED mqttVars /\ UNCHANGED <<phase, app, zone>>
    BY <1>3 DEF Receives, Receive, mqttVars
  <2>2. TwinInv'
    BY <2>1, TwinStep DEF TwinNext
  <2> QED
    BY <2>1, <2>2, LinkedRest DEF Launched, Zoned
<1>4. CASE Relaunches
  <2>1. RestartTwin /\ M!Relaunch /\ phase \in {"start", "down"} /\ zone' = "sleep"
    BY <1>4 DEF Relaunches, Launched
  <2>2. TwinInv'
    BY <2>1, MirroredRestart, CastsRestart DEF TwinInv
  <2>3. Launched' /\ Zoned'
    BY <2>1 DEF RestartTwin, Launched, Zoned
  <2> QED
    BY <2>1, <2>2, <2>3, LinkedRest
<1>5. CASE Serves
  <2>1. ServiceStep /\ UNCHANGED mqttVars /\ UNCHANGED <<app, zone>>
    BY <1>5 DEF Serves, mqttVars
  <2>2. phase = "start" => phase' = "start"
    BY <2>1 DEF ServiceStep, Running, Age, CrashTwin
  <2>3. TwinInv'
    BY <2>1, TwinStep DEF TwinNext
  <2> QED
    BY <2>1, <2>2, <2>3, LinkedRest DEF Launched, Zoned
<1>6. CASE Connects
  <2>1. UNCHANGED <<zone, twinVars>> /\ Linked'
    BY <1>6, LinkedThread, LinkedLoop, LinkedRest DEF Connects
  <2>2. UNCHANGED <<phase, redisVars, step, failures, castVars, clientVars>>
    BY <2>1 DEF twinVars
  <2>3. TwinInv'
    BY <1>t, <2>2, TwinAside
  <2>4. app' # "running" => app # "running"
    BY <1>6 DEF Connects, M!ClientThread, M!Connack, M!Resubscribe, M!IterationRaises,
           M!Resubscribed, M!OnDisconnect, M!Reconnect, M!RunCall, M!StartFails, M!BrokerDown,
           M!BrokerUp, M!Break
  <2> QED
    BY <2>1, <2>2, <2>3, <2>4 DEF Launched, Zoned
<1>7. CASE Aggregate \/ AggregateFails \/ UNCHANGED vars
  <2>1. UNCHANGED <<phase, redisVars, step, castVars, clientVars, app>> /\ UNCHANGED mqttVars
    BY <1>7 DEF Aggregate, AggregateFails, vars, twinVars, mqttVars
  <2>2. failures' \in 0..MaxFailures
    <3>1. failures' = failures \/ (failures < MaxFailures /\ failures' = failures + 1)
      BY <1>7 DEF Aggregate, AggregateFails, vars, twinVars
    <3> QED
      BY <1>t, <3>1
  <2>3. TwinInv'
    BY <2>1, <2>2, TwinAside
  <2>4. Zoned'
    BY <1>7 DEF Aggregate, AggregateFails, vars, Zoned
  <2> QED
    BY <2>1, <2>3, <2>4, LinkedRest DEF Launched
<1> QED
  BY <1>1, <1>2, <1>3, <1>4, <1>5, <1>6, <1>7 DEF Next

\* The inductive invariant of the process.
THEOREM NodeInvariant == Spec => []NodeInv
BY InitNode, NodeStep, PTL DEF Spec

\* The variables of the service, of its MQTT client and of the zone loop keep their types
\* (main (1).py:186-221, mqtt_client.py:56-160).
THEOREM NodeTypes == Spec => []TypeOK
<1>1. NodeInv => TypeOK
  BY ServiceTyped DEF NodeInv, Linked, Zoned, TypeOK
<1> QED
  BY <1>1, NodeInvariant, PTL

\* A handler the service has stored is subscribed to on every connection whose _on_connect has
\* returned, whenever the connection broke or the handler was added (mqtt_client.py:129-145).
THEOREM HandlersAreSubscribed == Spec => []AllSubscribed
<1>1. NodeInv => AllSubscribed
  BY DEF NodeInv, Linked
<1> QED
  BY <1>1, NodeInvariant, PTL

\* When the event loop has run all the callbacks handed over, _connected says what the last of
\* them saw (mqtt_client.py:144, 150).
THEOREM EventFollowsThread == Spec => []EventFollows
<1>1. NodeInv => EventFollows
  BY DEF NodeInv, Linked, Queued, EventFollows, M!EventFollows
<1> QED
  BY <1>1, NodeInvariant, PTL

\* What is proved of the service by itself holds in its process, where telemetry comes through
\* the client's subscription and a failed startup is started again as well (main (1).py:186-221).
THEOREM NodeKeepsService == Spec => [](MirrorKeepsUp /\ SilentExpires /\ NobodySkipped)
<1>1. NodeInv => MirrorKeepsUp /\ SilentExpires /\ NobodySkipped
  BY ServiceMirrors, ServiceSends DEF NodeInv
<1> QED
  BY <1>1, NodeInvariant, PTL
===============================================================================
