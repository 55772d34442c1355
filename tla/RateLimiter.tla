----------------------------- MODULE RateLimiter -----------------------------
(***************************************************************************)
(* The sliding window that limits the requests of one identity (auth.py):  *)
(* a sorted set in Redis, shared by the tasks of all services.  A task     *)
(* takes the time, then executes one pipeline, which is a transaction; in  *)
(* between others take theirs and execute theirs.                          *)
(*                                                                         *)
(* Each identity has a key of its own.  A request that is not verified is  *)
(* answered before it is counted, one of a service or an administrator is  *)
(* not counted, and what a role permits is decided after it.               *)
(***************************************************************************)
EXTENDS Integers, FiniteSets

CONSTANTS
  Tasks,       \* requests of the identity that are checked at a time
  Rate,        \* DEFAULT_RATE
  Window,      \* DEFAULT_WINDOW
  Lag,         \* assumed: the time that a task's time is behind when its pipeline is executed
  MaxTime,     \* bound: the clock
  MaxRequests  \* bound: requests

ASSUME LimiterAssumption ==
  /\ Rate \in Nat /\ Window \in Nat \ {0} /\ Lag \in Nat
  /\ MaxTime \in Nat /\ MaxRequests \in Nat

VARIABLES
  clock,    \* the time
  now,      \* the time each task has taken, None if it has not
  log,      \* Redis: the sorted set, each member with its score
  expires,  \* Redis: when the key expires
  count,    \* requests so far; the next one's member is called by it
  seen,     \* history: all members there have been
  accepted  \* history: those of accepted requests

limiterVars == <<clock, now, log, expires, count, seen, accepted>>

-------------------------------------------------------------------------------
None == -1

Entry == [id : Nat, ts : Nat]

LimiterTypeOK ==
  /\ clock \in Nat
  /\ now \in [Tasks -> Nat \cup {None}]
  /\ \A r \in Tasks : now[r] # None => now[r] <= clock /\ clock <= now[r] + Lag
  /\ log \subseteq seen /\ accepted \subseteq seen
  /\ expires \in 0..(clock + Window)
  /\ count \in Nat
  /\ IsFiniteSet(seen)
  /\ \A e \in seen : e \in Entry /\ e.id < count /\ e.ts <= clock

LimiterInit ==
  /\ clock = 0 /\ now = [r \in Tasks |-> None]
  /\ log = {} /\ expires = 0 /\ count = 0
  /\ seen = {} /\ accepted = {}

\* The request is verified and not exempt: now = time.time().
TakeTime(r) ==
  /\ now[r] = None
  /\ now' = [now EXCEPT ![r] = clock]
  /\ UNCHANGED <<clock, log, expires, count, seen, accepted>>

New(r) == [id |-> count, ts |-> now[r]]

\* The members that are there: an expired key is gone.
Alive == IF clock < expires THEN log ELSE {}

\* A variant: the set is left to expire.
KeptUntrimmed(r) == Alive

\* zremrangebyscore removes what is as old as the window, or older.
Kept(r) == {e \in Alive : e.ts > now[r] - Window}

Deadline(r) == clock + Window

\* zremrangebyscore, zadd, zcard, expire
Execute(r) ==
  /\ now[r] # None /\ count < MaxRequests
  /\ log' = Kept(r) \cup {New(r)}
  /\ expires' = Deadline(r)
  /\ count' = count + 1 /\ seen' = seen \cup {New(r)}
  /\ now' = [now EXCEPT ![r] = None]

\* A variant: the request itself is not counted.
AllowedBefore(r) == Cardinality(Kept(r)) <= Rate

Allowed(r) == Cardinality(Kept(r) \cup {New(r)}) <= Rate

Accept(r) ==
  /\ Execute(r) /\ Allowed(r)
  /\ accepted' = accepted \cup {New(r)}
  /\ UNCHANGED clock

\* 429; the member stays.
Refuse(r) == Execute(r) /\ ~Allowed(r) /\ UNCHANGED <<clock, accepted>>

\* Redis raises, before the transaction or after it; the request is answered with 500.
Raises(r) ==
  /\ now[r] # None
  /\ now' = [now EXCEPT ![r] = None]
  /\ UNCHANGED <<clock, log, expires, count, seen, accepted>>

RaisesLate(r) == Execute(r) /\ UNCHANGED <<clock, accepted>>

\* Time passes; no task is left behind for longer than Lag.
Tick ==
  /\ clock < MaxTime /\ \A r \in Tasks : now[r] # None => clock < now[r] + Lag
  /\ clock' = clock + 1
  /\ UNCHANGED <<now, log, expires, count, seen, accepted>>

LimiterNext ==
  \/ \E r \in Tasks : TakeTime(r) \/ Accept(r) \/ Refuse(r) \/ Raises(r) \/ RaisesLate(r)
  \/ Tick

LimiterSpec == LimiterInit /\ [][LimiterNext]_limiterVars

-------------------------------------------------------------------------------
(* Properties *)

\* However the tasks of all services interleave, no more than Rate requests are accepted in any
\* span that is shorter than the window by the lag: members are removed by the time of the task
\* that removes them, and the key expires, but never before they are out of every such span
\* (lines 178-187).
Limited ==
  \A e \in accepted :
    Cardinality({f \in accepted : e.ts <= f.ts /\ f.ts < e.ts + Window - Lag}) <= Rate

\* A request is refused only if more than Rate requests were made in the window that ends with
\* it, though refused requests count and requests are counted late (lines 181-187).
Forgiving ==
  [][\A r \in Tasks :
       Refuse(r) => Cardinality({f \in seen' : f.ts > now[r] - Window}) > Rate]_limiterVars
===============================================================================
