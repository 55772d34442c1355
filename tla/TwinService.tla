----------------------------- MODULE TwinService -----------------------------
(***************************************************************************)
(* The digital twin service (main (1).py): one unit's twin in the cache,   *)
(* its hash in Redis, and the WebSocket clients that stream it.  Every     *)
(* await is a step: other handlers run there, the call may fail, and the   *)
(* process may stop.  Redis commands of concurrent handlers go over        *)
(* several connections, in any order.                                      *)
(*                                                                         *)
(* A state of the twin is known by its age: the hash holds the latest      *)
(* state, one that was current while the persists of the last busy period  *)
(* were under way, or one from before it.                                  *)
(***************************************************************************)
EXTENDS Integers, Sequences, FiniteSets

CONSTANTS
  Handlers,     \* tasks running handle_processed_telemetry at a time
  Boot,         \* the task that seeds the twin at startup
  Clients,      \* WebSocket connections
  Ttl,          \* REDIS_TWIN_TTL_S
  MaxFailures   \* bound: failing calls and crashes

Task == Handlers \cup {Boot}

NoClient == "none"

ASSUME TwinAssumption ==
  /\ Boot \notin Handlers
  /\ IsFiniteSet(Clients) /\ NoClient \notin Clients
  /\ Ttl \in Nat \ {0} /\ MaxFailures \in Nat

VARIABLES
  phase,     \* the lifespan of the service
  step,      \* where each task is
  stale,     \* whether the state a task persists is no longer the latest
  hash,      \* Redis: the age of the hash
  ttl,       \* Redis: what is left of its lifetime, 0 if it has none
  conns,     \* _ws_connections
  open,      \* external: the clients that are still there
  stream,    \* where the telemetry_stream of each client is
  next,      \* the place in the list a broadcast comes to next
  target,    \* the client it is sending to
  dead,      \* the clients it could not send to
  failures,  \* calls that failed and crashes, so far
  lapsed,    \* history: a persist ended before its end since the busy period began
  orphan,    \* history: a persist ended between hset and expire, and the key is still there
  owed,      \* history: clients listed when a broadcast began, still listed and not sent to
  shifted    \* history: how many clients other tasks removed from before its place

redisVars  == <<hash, ttl, stale, lapsed, orphan>>
castVars   == <<next, target, dead, owed, shifted>>
clientVars == <<conns, open, stream>>
twinVars   == <<phase, step, failures, redisVars, castVars, clientVars>>

-------------------------------------------------------------------------------
Steps == {"free", "hset", "expire", "zadd", "cast", "sending"}

TwinTypeOK ==
  /\ phase \in {"start", "boot", "ready", "down"}
  /\ step \in [Task -> Steps]
  /\ stale \in [Task -> BOOLEAN]
  /\ hash \in {"none", "before", "period", "latest"}
  /\ ttl \in 0..Ttl /\ (hash = "none" => ttl = 0)
  /\ conns \in Seq(Clients) /\ open \subseteq Clients
  /\ \A i, j \in DOMAIN conns : i # j => conns[i] # conns[j]
  /\ stream \in [Clients -> {"off", "snapshot", "ping"}]
  /\ next \in [Task -> 1..(Cardinality(Clients) + 1)]
  /\ target \in [Task -> Clients \cup {NoClient}]
  /\ \A t \in Task : target[t] # NoClient <=> step[t] = "sending"
  /\ dead \in [Task -> Seq(Clients)]
  /\ failures \in 0..MaxFailures
  /\ lapsed \in BOOLEAN /\ orphan \in BOOLEAN
  /\ owed \in [Task -> SUBSET Clients] /\ shifted \in [Task -> 0..Cardinality(Clients)]

TwinInit ==
  /\ phase = "start"
  /\ step = [t \in Task |-> "free"] /\ stale = [t \in Task |-> FALSE]
  /\ hash = "none" /\ ttl = 0
  /\ conns = <<>> /\ open = {} /\ stream = [c \in Clients |-> "off"]
  /\ next = [t \in Task |-> 1] /\ target = [t \in Task |-> NoClient]
  /\ dead = [t \in Task |-> <<>>]
  /\ failures = 0 /\ lapsed = FALSE /\ orphan = FALSE
  /\ owed = [t \in Task |-> {}] /\ shifted = [t \in Task |-> 0]

Persisting == {t \in Task : step[t] \in {"hset", "expire", "zadd"}}
Casting    == {t \in Task : step[t] \in {"cast", "sending"}}
Listed     == {conns[i] : i \in DOMAIN conns}

Goto(t, place) == step' = [step EXCEPT ![t] = place]

-------------------------------------------------------------------------------
(* The cache and its mirror *)

\* The cached state changes: what is being persisted is no longer the latest.
NewState(t) ==
  /\ stale' = [u \in Task |-> u # t /\ (stale[u] \/ u \in Persisting)]
  /\ hash' = CASE hash = "none" -> "none"
               [] hash # "none" /\ Persisting = {} -> "before"
               [] hash = "latest" /\ Persisting # {} -> "period"
               [] OTHER -> hash
  /\ lapsed' = (lapsed /\ Persisting # {})

\* _bootstrap_twins: the twin is seeded from the database, over what Redis has.
StartBoot ==
  /\ phase = "start" /\ phase' = "boot"
  /\ Goto(Boot, "hset") /\ NewState(Boot)
  /\ UNCHANGED <<ttl, orphan, failures, castVars, clientVars>>

\* handle_processed_telemetry updates the cached twin.
Receive(h) ==
  /\ phase = "ready" /\ step[h] = "free"
  /\ Goto(h, "hset") /\ NewState(h)
  /\ UNCHANGED <<phase, ttl, orphan, failures, castVars, clientVars>>

\* A variant: no write if the key was just refreshed.
SetHashRarely(t) ==
  /\ step[t] = "hset" /\ Goto(t, "expire")
  /\ hash' = IF hash # "none" /\ ttl = Ttl THEN hash
             ELSE IF stale[t] THEN "period" ELSE "latest"
  /\ UNCHANGED <<phase, stale, ttl, lapsed, orphan, failures, castVars, clientVars>>

\* The hash of an existing key keeps its lifetime, a new one has none.
SetHash(t) ==
  /\ step[t] = "hset" /\ Goto(t, "expire")
  /\ hash' = IF stale[t] THEN "period" ELSE "latest"
  /\ UNCHANGED <<phase, stale, ttl, lapsed, orphan, failures, castVars, clientVars>>

\* A variant: the lifetime is only given to a key that has one.
ExpireAgain(t) ==
  /\ step[t] = "expire" /\ Goto(t, "zadd")
  /\ ttl' = IF ttl > 0 THEN Ttl ELSE 0
  /\ UNCHANGED <<phase, stale, hash, lapsed, orphan, failures, castVars, clientVars>>

\* A variant: the key may have expired meanwhile.
ExpireMissing(t) ==
  /\ step[t] = "expire" /\ Goto(t, "zadd")
  /\ ttl' = Ttl /\ orphan' = FALSE
  /\ UNCHANGED <<phase, stale, hash, lapsed, failures, castVars, clientVars>>

\* Without the key, which may have expired meanwhile, it does nothing.
Expire(t) ==
  /\ step[t] = "expire" /\ Goto(t, "zadd")
  /\ ttl' = IF hash = "none" THEN 0 ELSE Ttl
  /\ orphan' = FALSE
  /\ UNCHANGED <<phase, stale, hash, lapsed, failures, castVars, clientVars>>

\* The index; the broadcast begins if there are clients.
Index(t) ==
  /\ step[t] = "zadd"
  /\ Goto(t, IF t # Boot /\ conns # <<>> THEN "cast" ELSE "free")
  /\ stale' = [stale EXCEPT ![t] = FALSE]
  /\ phase' = IF t = Boot THEN "ready" ELSE phase
  /\ next' = [next EXCEPT ![t] = 1] /\ dead' = [dead EXCEPT ![t] = <<>>]
  /\ owed' = [owed EXCEPT ![t] = IF t # Boot THEN Listed ELSE {}]
  /\ shifted' = [shifted EXCEPT ![t] = 0]
  /\ UNCHANGED <<target, hash, ttl, lapsed, orphan, failures, clientVars>>

\* A call to Redis raises: the handler ends; the startup, and with it the process.
PersistFails(t) ==
  /\ t \in Persisting /\ failures < MaxFailures
  /\ failures' = failures + 1
  /\ lapsed' = TRUE /\ orphan' = (orphan \/ (step[t] = "expire" /\ hash # "none" /\ ttl = 0))
  /\ Goto(t, "free") /\ stale' = [stale EXCEPT ![t] = FALSE]
  /\ phase' = IF t = Boot THEN "down" ELSE phase
  /\ UNCHANGED <<hash, ttl, castVars, clientVars>>

Persist(t) == SetHash(t) \/ Expire(t) \/ Index(t)

-------------------------------------------------------------------------------
(* The WebSocket clients *)

\* _ws_connections.remove: the clients after it move up, under the broadcasts of others.
Removed(gone) ==
  LET kept[n \in 0..Len(conns)] ==
        IF n = 0 THEN <<>>
        ELSE IF conns[n] \in gone THEN kept[n - 1] ELSE Append(kept[n - 1], conns[n])
  IN  kept[Len(conns)]

\* The places a broadcast has been to from which a client is removed; the count of them, up to
\* the number of clients there are.
Emptied(gone, u) == {i \in 1..(next[u] - 1) : i \in DOMAIN conns /\ conns[i] \in gone}

Shifted(gone, u) ==
  IF shifted[u] + Cardinality(Emptied(gone, u)) <= Cardinality(Clients)
  THEN shifted[u] + Cardinality(Emptied(gone, u)) ELSE Cardinality(Clients)

Forget(gone, t) ==
  /\ owed' = [u \in Task |-> IF u = t THEN {} ELSE owed[u] \ gone]
  /\ shifted' = [u \in Task |-> IF u \in Casting \ {t} THEN Shifted(gone, u) ELSE 0]

Connect(c) ==
  /\ phase = "ready" /\ stream[c] = "off" /\ c \notin Listed
  /\ \A t \in Task : target[t] # c /\ \A i \in DOMAIN dead[t] : dead[t][i] # c
  /\ conns' = Append(conns, c) /\ open' = open \cup {c}
  /\ stream' = [stream EXCEPT ![c] = "snapshot"]
  /\ UNCHANGED <<phase, step, failures, redisVars, castVars>>

\* The snapshot is sent.
Snapshot(c) ==
  /\ stream[c] = "snapshot" /\ c \in open
  /\ stream' = [stream EXCEPT ![c] = "ping"]
  /\ UNCHANGED <<phase, step, failures, conns, open, redisVars, castVars>>

\* Sending to a client that left raises: WebSocketDisconnect takes it off the list, if it is
\* still there; any other exception leaves it there.
StreamEnds(c) ==
  /\ stream[c] \in {"snapshot", "ping"} /\ c \notin open
  /\ stream' = [stream EXCEPT ![c] = "off"]
  /\ \E gone \in {{}, {c} \cap Listed} : conns' = Removed(gone) /\ Forget(gone, NoClient)
  /\ UNCHANGED <<phase, step, failures, open, redisVars, next, target, dead>>

\* The loop takes the next client, if there is one, and awaits send_text.
Take(h) ==
  /\ step[h] = "cast" /\ next[h] <= Len(conns)
  /\ Goto(h, "sending")
  /\ target' = [target EXCEPT ![h] = conns[next[h]]]
  /\ next' = [next EXCEPT ![h] = @ + 1]
  /\ owed' = [owed EXCEPT ![h] = @ \ {conns[next[h]]}]
  /\ UNCHANGED <<phase, failures, dead, shifted, redisVars, clientVars>>

\* A variant: a client that left is removed at once.
SentOrRemoved(h) ==
  /\ step[h] = "sending"
  /\ Goto(h, "cast") /\ target' = [target EXCEPT ![h] = NoClient]
  /\ conns' = IF target[h] \in open THEN conns ELSE Removed({target[h]})
  /\ UNCHANGED <<phase, failures, next, dead, owed, shifted, open, stream, redisVars>>

\* send_text returns or raises.
Sent(h) ==
  /\ step[h] = "sending"
  /\ Goto(h, "cast") /\ target' = [target EXCEPT ![h] = NoClient]
  /\ dead' = IF target[h] \in open THEN dead ELSE [dead EXCEPT ![h] = Append(@, target[h])]
  /\ UNCHANGED <<phase, failures, next, owed, shifted, redisVars, clientVars>>

\* The dead are removed one by one; one that is no longer listed raises, and the rest stay.
Reaped(h) ==
  {dead[h][i] : i \in {j \in DOMAIN dead[h] : \A k \in 1..j : dead[h][k] \in Listed}}

\* A variant: the handler ends without removing anybody.
CastEndsOnly(h) ==
  /\ step[h] = "cast" /\ next[h] > Len(conns)
  /\ Goto(h, "free")
  /\ dead' = [dead EXCEPT ![h] = <<>>] /\ next' = [next EXCEPT ![h] = 1]
  /\ Forget({}, h)
  /\ UNCHANGED <<phase, failures, target, redisVars, clientVars>>

CastEnds(h) ==
  /\ step[h] = "cast" /\ next[h] > Len(conns)
  /\ Goto(h, "free")
  /\ conns' = Removed(Reaped(h)) /\ Forget(Reaped(h), h)
  /\ dead' = [dead EXCEPT ![h] = <<>>] /\ next' = [next EXCEPT ![h] = 1]
  /\ UNCHANGED <<phase, failures, target, open, stream, redisVars>>

Cast(h) == Take(h) \/ Sent(h) \/ CastEnds(h)

-------------------------------------------------------------------------------
(* The rest of the system *)

Leave(c) ==
  /\ c \in open /\ open' = open \ {c}
  /\ UNCHANGED <<phase, step, failures, conns, stream, redisVars, castVars>>

\* Time passes for Redis.
Age ==
  /\ ttl > 0 /\ ttl' = ttl - 1
  /\ hash' = IF ttl = 1 THEN "none" ELSE hash
  /\ UNCHANGED <<phase, step, failures, stale, lapsed, orphan, castVars, clientVars>>

\* Nothing in memory survives the process.
MemoryLost ==
  /\ step' = [t \in Task |-> "free"] /\ stale' = [t \in Task |-> FALSE]
  /\ conns' = <<>> /\ open' = {} /\ stream' = [c \in Clients |-> "off"]
  /\ next' = [t \in Task |-> 1] /\ target' = [t \in Task |-> NoClient]
  /\ dead' = [t \in Task |-> <<>>]
  /\ owed' = [t \in Task |-> {}] /\ shifted' = [t \in Task |-> 0]

\* The process stops; Redis keeps what it has.
CrashTwin ==
  /\ phase \in {"boot", "ready"} /\ failures < MaxFailures
  /\ phase' = "down" /\ failures' = failures + 1 /\ MemoryLost
  /\ lapsed' = (lapsed \/ Persisting # {})
  /\ orphan' = (orphan \/ (hash # "none" /\ ttl = 0))
  /\ UNCHANGED <<hash, ttl>>

\* It starts again.
RestartTwin ==
  /\ phase' = "start" /\ MemoryLost
  /\ UNCHANGED <<hash, ttl, failures, lapsed, orphan>>

\* What the service does by itself.
Running == phase \in {"boot", "ready"}

ServiceStep ==
  \/ Running /\ \E t \in Task : Persist(t) \/ PersistFails(t)
  \/ Running /\ \E h \in Handlers : Cast(h)
  \/ Running /\ \E c \in Clients : Connect(c) \/ Snapshot(c) \/ StreamEnds(c) \/ Leave(c)
  \/ Age \/ CrashTwin

\* The service by itself: its subscription is in force when it has started.
TwinNext ==
  \/ StartBoot \/ (\E h \in Handlers : Receive(h)) \/ ServiceStep
  \/ phase = "down" /\ RestartTwin

\* Awaited calls return, also those that find a client gone, and the container is started again;
\* nothing is assumed of the clients, the telemetry or time.
TwinFairness ==
  /\ \A t \in Task : WF_twinVars(Running /\ Persist(t))
  /\ \A h \in Handlers : WF_twinVars(Running /\ Cast(h))
  /\ WF_twinVars(StartBoot) /\ WF_twinVars(phase = "down" /\ RestartTwin)

TwinSpec == TwinInit /\ [][TwinNext]_twinVars /\ TwinFairness

-------------------------------------------------------------------------------
(* Properties *)

\* Although concurrent handlers may reach Redis out of order, the mirror left behind by a busy
\* period is a state of that period: unless a call failed or the key expired, it is not older
\* than the telemetry that was in flight together (lines 107, 160-161).
MirrorKeepsUp ==
  phase = "ready" /\ Persisting = {} /\ ~lapsed => hash # "before"

\* The hash of a unit that fell silent disappears: a key without a lifetime is being given one,
\* unless the handler that created it was interrupted (lines 107-108).
SilentExpires ==
  hash # "none" /\ ttl = 0 => orphan \/ \E t \in Task : step[t] = "expire"

\* The loop goes through the list itself, and a removal by another task moves up the clients
\* behind it: a broadcast passes over at most one client that was listed when it began and still
\* is for each one the others removed from before its place, and over nobody if they removed only
\* clients it had still to come to (lines 166-173, 300).
NobodySkipped ==
  \A h \in Handlers :
    step[h] = "cast" /\ next[h] > Len(conns) => Cardinality(owed[h]) <= shifted[h]

\* A client that left is taken off the list, whoever finds out, and although two broadcasts may
\* remove the same client and the second raises, as long as there is telemetry (lines 166-173,
\* 297-302).
GoneIsRemoved ==
  \A c \in Clients :
    []<>(Casting # {}) => (c \notin open /\ c \in Listed ~> c \notin Listed)
===============================================================================
