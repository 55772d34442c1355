------------------------------ MODULE EdgeBuffer ------------------------------
(***************************************************************************)
(* Store and forward in the edge gateway (gateway.py): MQTTManager.publish *)
(* hands a message to the MQTT client while it believes the broker is      *)
(* connected and appends it to the SQLite table of OfflineBuffer           *)
(* otherwise; when the broker answers a connection attempt, _on_connect is *)
(* to schedule _replay_buffer.  In CPython it never does: it asks for the  *)
(* event loop of the client's thread, which has none, and the exception    *)
(* ends that thread, with the flag set.  LoopFound = {FALSE} is the        *)
(* program.  With TRUE in it the specification also allows what was meant: *)
(* more behaviours than the program has, for safety properties only.       *)
(*                                                                         *)
(* Two threads run: the event loop (telemetry, heartbeats, replays) and    *)
(* the client's network thread (its callbacks, and the acknowledgement of  *)
(* a command).  Only the event loop reaches the table: the network thread  *)
(* publishes only between its own _on_connect and _on_disconnect.  The     *)
(* process may stop or crash at any moment; what the client holds in       *)
(* memory is then gone.                                                    *)
(***************************************************************************)
EXTENDS Integers, SequencesExt

CONSTANTS
  MaxRows,        \* OfflineBuffer.MAX_ROWS
  Evicted,        \* MAX_ROWS // 10, the rows dropped when the table is full
  Batch,          \* rows popped at a time, 50
  MaxMessages,    \* bound: messages the gateway produces
  MaxReplays,     \* bound: replays that have not ended
  LoopFound       \* whether asyncio.get_event_loop() returns a loop in the network thread:
                  \* {FALSE} in CPython, BOOLEAN to allow for either

ASSUME BufferAssumption ==
  /\ MaxRows \in Nat /\ Evicted \in 1..MaxRows
  /\ Batch \in Nat \ {0}
  /\ MaxMessages \in Nat /\ MaxReplays \in Nat
  /\ FALSE \in LoopFound /\ LoopFound \subseteq BOOLEAN

VARIABLES
  rows,          \* the table, oldest first
  connected,     \* _connected
  net,           \* where the network thread is
  loop,          \* what the event loop is doing
  msg,           \* the message the event loop is publishing
  batch,         \* popped rows that _replay_buffer has still to publish
  replays,       \* replay coroutines that have not ended
  outbox,        \* messages the client holds until the broker acknowledges them
  delivered,     \* messages the broker has, in order
  next,          \* the number of the next message
  lastReplayed,  \* history: the last message a replay handed to the client
  dropped,       \* history: messages evicted from the full table
  lost           \* history: messages gone with the process

client  == <<outbox, delivered>>
history == <<lastReplayed, dropped, lost>>
vars == <<rows, connected, net, loop, msg, batch, replays, client, next, history>>

-------------------------------------------------------------------------------
Message  == 1..MaxMessages
NetPlace == {"down",        \* no connection, or waiting to reconnect
             "connack",     \* entering _on_connect
             "schedule",    \* in _on_connect, the flag is set
             "up",          \* serving the connection
             "closing",     \* the connection is lost, _on_disconnect not yet called
             "dead"}        \* an exception left _on_connect and ended the thread
LoopPlace == {"idle", "send", "push", "replay"}

TypeOK ==
  /\ rows \in Seq(Message) /\ connected \in BOOLEAN
  /\ net \in NetPlace /\ loop \in LoopPlace
  /\ msg \in 0..MaxMessages /\ (loop \in {"send", "push"} => msg \in Message)
  /\ batch \in Seq(Message) /\ (loop = "replay" <=> batch # <<>>)
  /\ replays \in 0..MaxReplays
  /\ outbox \in Seq(Message) /\ delivered \in Seq(Message)
  /\ next \in 1..(MaxMessages + 1)
  /\ lastReplayed \in 0..MaxMessages
  /\ dropped \subseteq Message /\ lost \subseteq Message

Init ==
  /\ rows = <<>> /\ connected = FALSE /\ net = "down" /\ loop = "idle" /\ msg = 0
  /\ batch = <<>> /\ replays = 0 /\ outbox = <<>> /\ delivered = <<>> /\ next = 1
  /\ lastReplayed = 0 /\ dropped = {} /\ lost = {}

-------------------------------------------------------------------------------
(* MQTTManager.publish and OfflineBuffer.push, from the event loop *)

\* The poll or heartbeat loop publishes; the flag is read here and acted on later.
Publish ==
  /\ loop = "idle" /\ next <= MaxMessages
  /\ msg' = next /\ next' = next + 1
  /\ loop' = IF connected THEN "send" ELSE "push"
  /\ UNCHANGED <<rows, connected, net, batch, replays, client, history>>

Send ==
  /\ loop = "send"
  /\ outbox' = Append(outbox, msg)
  /\ loop' = "idle"
  /\ UNCHANGED <<rows, connected, net, msg, batch, replays, delivered, next, history>>

\* A variant: the comparison is off by one.
NoRoomLate == Len(rows) > MaxRows

NoRoom == Len(rows) >= MaxRows

\* A variant: the delete is not made.
RestKept(n) == rows

\* The table once its n oldest rows are deleted.
Rest(n) == SubSeq(rows, n + 1, Len(rows))

\* One transaction: make room, insert, commit.
Push ==
  /\ loop = "push"
  /\ LET excess == IF NoRoom THEN Evicted ELSE 0
     IN  /\ rows' = Append(Rest(excess), msg)
         /\ dropped' = dropped \cup {rows[i] : i \in 1..excess}
  /\ loop' = "idle"
  /\ UNCHANGED <<connected, net, msg, batch, replays, client, next, lastReplayed, lost>>

-------------------------------------------------------------------------------
(* MQTTManager._replay_buffer; the coroutines are alike *)

\* pop_batch: select and delete the oldest rows, commit.
ReplayPop ==
  /\ loop = "idle" /\ replays > 0 /\ rows # <<>>
  /\ LET n == IF Len(rows) < Batch THEN Len(rows) ELSE Batch
     IN  /\ batch' = SubSeq(rows, 1, n)
         /\ rows' = Rest(n)
  /\ loop' = "replay"
  /\ UNCHANGED <<connected, net, msg, replays, client, next, history>>

\* A variant: the batch is published newest first.
ReplayPublishNewest ==
  /\ loop = "replay"
  /\ outbox' = Append(outbox, Last(batch))
  /\ lastReplayed' = Last(batch)
  /\ batch' = Front(batch)
  /\ loop' = IF Len(batch) > 1 THEN "replay" ELSE "idle"
  /\ UNCHANGED <<rows, connected, net, msg, replays, delivered, next, dropped, lost>>

\* Publish the batch without awaiting, then sleep until the next one.
ReplayPublish ==
  /\ loop = "replay"
  /\ outbox' = Append(outbox, Head(batch))
  /\ lastReplayed' = Head(batch)
  /\ batch' = Tail(batch)
  /\ loop' = IF Len(batch) > 1 THEN "replay" ELSE "idle"
  /\ UNCHANGED <<rows, connected, net, msg, replays, delivered, next, dropped, lost>>

\* The table is empty when the replay starts or when it pops.
ReplayEnd ==
  /\ loop = "idle" /\ replays > 0 /\ rows = <<>>
  /\ replays' = replays - 1
  /\ UNCHANGED <<rows, connected, net, loop, msg, batch, client, next, history>>

-------------------------------------------------------------------------------
(* The network thread *)

UnchangedButNet == UNCHANGED <<rows, loop, msg, batch, client, next, history>>

\* The broker accepts a connection.
Connack ==
  /\ net = "down" /\ replays < MaxReplays
  /\ net' = "connack"
  /\ UNCHANGED <<connected, replays>> /\ UnchangedButNet

\* _on_connect: set the flag,
OnConnect ==
  /\ net = "connack"
  /\ connected' = TRUE
  /\ net' = "schedule"
  /\ UNCHANGED replays /\ UnchangedButNet

\* then schedule a replay on the event loop of this thread.  Without one get_event_loop()
\* raises, after the flag was set, and the client's thread ends.
Schedule ==
  /\ net = "schedule"
  /\ \E found \in LoopFound : IF found THEN replays' = replays + 1 /\ net' = "up"
                                       ELSE replays' = replays /\ net' = "dead"
  /\ UNCHANGED connected /\ UnchangedButNet

ConnectionLost ==
  /\ net = "up"
  /\ net' = "closing"
  /\ UNCHANGED <<connected, replays>> /\ UnchangedButNet

OnDisconnect ==
  /\ net = "closing"
  /\ connected' = FALSE
  /\ net' = "down"
  /\ UNCHANGED replays /\ UnchangedButNet

\* A command arrives: _on_message has the gateway apply and acknowledge it.  This
\* thread alone writes the flag, which is set here.
Acknowledge ==
  /\ net = "up" /\ next <= MaxMessages
  /\ outbox' = Append(outbox, next)
  /\ next' = next + 1
  /\ UNCHANGED <<rows, connected, net, loop, msg, batch, replays, delivered, history>>

\* The client keeps QoS 1 messages, in order, until the broker acknowledges them.
Deliver ==
  /\ net = "up" /\ outbox # <<>>
  /\ delivered' = Append(delivered, Head(outbox))
  /\ outbox' = Tail(outbox)
  /\ UNCHANGED <<rows, connected, net, loop, msg, batch, replays, next, history>>

-------------------------------------------------------------------------------
\* The process crashes or is stopped, and starts again: the table survives.
Held == IF loop \in {"send", "push"} THEN {msg} ELSE {}

Crash ==
  /\ lost' = lost \cup Held \cup ToSet(batch) \cup ToSet(outbox)
  /\ connected' = FALSE /\ net' = "down" /\ loop' = "idle" /\ msg' = 0
  /\ batch' = <<>> /\ replays' = 0 /\ outbox' = <<>>
  /\ UNCHANGED <<rows, delivered, next, lastReplayed, dropped>>

Handler == OnConnect \/ Schedule \/ OnDisconnect

Next ==
  \/ Publish \/ Send \/ Push
  \/ ReplayPop \/ ReplayPublish \/ ReplayEnd
  \/ Connack \/ Handler \/ ConnectionLost \/ Acknowledge \/ Deliver
  \/ Crash

\* The event loop runs what is ready, callbacks return, the client sends.  Nothing makes
\* the broker accept a connection, keep it, or the process crash.
Fairness ==
  /\ WF_vars(Send \/ Push \/ ReplayPublish) /\ WF_vars(ReplayPop \/ ReplayEnd)
  /\ WF_vars(Handler) /\ WF_vars(Deliver)

Spec     == Init /\ [][Next]_vars
FairSpec == Spec /\ Fairness

-------------------------------------------------------------------------------
(* Properties *)

\* The table never holds more than MAX_ROWS (lines 133-144).
Capacity == Len(rows) <= MaxRows

\* Every message is in exactly one place: being published, in the table, popped, with the
\* client, at the broker, evicted, or gone in a crash.  Nothing is handed over twice and
\* nothing vanishes while the process runs (lines 133-154, 422-430, 464-478).
Conservation ==
  LET places == <<Held, ToSet(rows), ToSet(batch), ToSet(outbox), ToSet(delivered), dropped, lost>>
  IN  /\ UNION {places[i] : i \in DOMAIN places} = 1..(next - 1)
      /\ \A i, j \in DOMAIN places : i # j => places[i] \cap places[j] = {}
      /\ \A s \in {rows, batch, outbox, delivered} : IsInjective(s)

\* What is replayed next is younger than what was replayed before, across batches, flapping
\* connections with several replays at once, evictions and crashes; and what was evicted
\* is older than what is kept: "Replays oldest-first" (line 112).
OldestFirst ==
  LET waiting == batch \o rows \o (IF loop = "push" THEN <<msg>> ELSE <<>>)
  IN  /\ \A i, j \in DOMAIN waiting : i < j => waiting[i] < waiting[j]
      /\ \A i \in DOMAIN waiting : lastReplayed < waiting[i] /\ \A m \in dropped : m < waiting[i]

\* "Replays oldest-first on broker reconnect" (gateway.py:112): rows in the table when the broker
\* accepts a connection are replayed, unless it is lost again (lines 432-447, 464-478).
Replayed ==
  net = "connack" /\ rows # <<>> ~> rows = <<>> \/ net \in {"closing", "down"}
===============================================================================
