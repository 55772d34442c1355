----------------------------- MODULE MqttClient -----------------------------
(***************************************************************************)
(* The MQTT client all services share (mqtt_client.py), with the service   *)
(* that starts it: connect, wait_connected, subscribe.  The client's       *)
(* thread runs the callbacks; the event loop runs the service and what the *)
(* callbacks hand over with call_soon_threadsafe.                          *)
(*                                                                         *)
(* The paho client is external, modelled from what the callbacks rely on:  *)
(* it retries the first connection by itself, a subscription on a broken   *)
(* connection does nothing, a connection starts with no subscription, and  *)
(* an exception of a callback ends its thread.                             *)
(***************************************************************************)
EXTENDS Integers, Sequences, FiniteSets

CONSTANTS
  Topics,    \* what the service subscribes to
  MaxCalls   \* bound: callbacks the event loop has not run yet

VARIABLES
  up,        \* external: the broker accepts connections
  session,   \* external: the connection is alive
  subs,      \* external: the subscriptions the broker has for it
  thread,    \* where the client's thread is
  size,      \* the number of handlers when _on_connect began to go through them
  left,      \* those it has still to go through
  handlers,  \* _handlers
  adding,    \* the topics of subscribe calls that have stored their handler and not yet subscribed
  calls,     \* what call_soon_threadsafe has queued
  event,     \* _connected
  app        \* the service

mqttVars == <<up, session, subs, thread, size, left, handlers, adding, calls, event, app>>

-------------------------------------------------------------------------------
MqttTypeOK ==
  /\ up \in BOOLEAN /\ session \in BOOLEAN /\ event \in BOOLEAN
  /\ subs \subseteq Topics /\ left \subseteq Topics /\ handlers \subseteq Topics
  /\ adding \subseteq handlers
  /\ thread \in {"connecting", "resubscribing", "connected", "lost", "dead"}
  /\ size \in 0..Cardinality(Topics)
  /\ calls \in Seq({"set", "clear"})
  /\ app \in {"waiting", "running", "failed"}

MqttInit ==
  /\ up \in BOOLEAN /\ session = FALSE /\ subs = {} /\ thread = "connecting" /\ size = 0 /\ left = {}
  /\ handlers = {} /\ adding = {} /\ calls = <<>> /\ event = FALSE /\ app = "waiting"

-------------------------------------------------------------------------------
(* The client's thread *)

\* A variant: the handlers are not subscribed to again.
ConnackForgets ==
  /\ thread = "connecting" /\ up
  /\ thread' = "resubscribing" /\ session' = TRUE /\ subs' = {}
  /\ left' = {} /\ size' = Cardinality(handlers)
  /\ UNCHANGED <<up, handlers, adding, calls, event, app>>

\* The connection is made; _on_connect begins.
Connack ==
  /\ thread = "connecting" /\ up
  /\ thread' = "resubscribing" /\ session' = TRUE /\ subs' = {}
  /\ left' = handlers /\ size' = Cardinality(handlers)
  /\ UNCHANGED <<up, handlers, adding, calls, event, app>>

\* client.subscribe, which needs a connection.
SubscribeTo(t) == subs' = IF session THEN subs \cup {t} ELSE subs

\* _on_connect goes through the handlers.
Resubscribe(t) ==
  /\ thread = "resubscribing" /\ t \in left /\ Cardinality(handlers) = size
  /\ SubscribeTo(t)
  /\ left' = left \ {t}
  /\ UNCHANGED <<up, session, thread, size, handlers, adding, calls, event, app>>

\* A handler was added meanwhile: the iteration raises.
IterationRaises ==
  /\ thread = "resubscribing" /\ Cardinality(handlers) # size
  /\ thread' = "dead"
  /\ UNCHANGED <<up, session, subs, size, left, handlers, adding, calls, event, app>>

Resubscribed ==
  /\ thread = "resubscribing" /\ left = {} /\ Cardinality(handlers) = size
  /\ Len(calls) < MaxCalls
  /\ thread' = "connected" /\ calls' = Append(calls, "set")
  /\ UNCHANGED <<up, session, subs, size, left, handlers, adding, event, app>>

\* A variant: the event is cleared in the client's thread.
OnDisconnectDirect ==
  /\ thread = "connected" /\ ~session
  /\ thread' = "lost" /\ event' = FALSE
  /\ UNCHANGED <<up, session, subs, size, left, handlers, adding, calls, app>>

OnDisconnect ==
  /\ thread = "connected" /\ ~session /\ Len(calls) < MaxCalls
  /\ thread' = "lost" /\ calls' = Append(calls, "clear")
  /\ UNCHANGED <<up, session, subs, size, left, handlers, adding, event, app>>

\* After the delay, client.reconnect() raises if the broker does not accept the connection.
Reconnect ==
  /\ thread = "lost"
  /\ thread' = IF up THEN "connecting" ELSE "dead"
  /\ UNCHANGED <<up, session, subs, size, left, handlers, adding, calls, event, app>>

ClientThread ==
  \/ Connack \/ (\E t \in Topics : Resubscribe(t)) \/ IterationRaises \/ Resubscribed
  \/ OnDisconnect \/ Reconnect

-------------------------------------------------------------------------------
(* The event loop *)

RunCall ==
  /\ calls # <<>>
  /\ event' = (Head(calls) = "set") /\ calls' = Tail(calls)
  /\ UNCHANGED <<up, session, subs, thread, size, left, handlers, adding, app>>

\* wait_connected returns, or its timeout ends the service.
Connected ==
  /\ app = "waiting" /\ event
  /\ app' = "running"
  /\ UNCHANGED <<up, session, subs, thread, size, left, handlers, adding, calls, event>>

StartFails ==
  /\ app = "waiting" /\ ~event
  /\ app' = "failed"
  /\ UNCHANGED <<up, session, subs, thread, size, left, handlers, adding, calls, event>>

\* subscribe stores the handler, then subscribes, while the client's thread goes on.
AddHandler(t) ==
  /\ app = "running" /\ t \notin handlers /\ adding = {}
  /\ handlers' = handlers \cup {t} /\ adding' = {t}
  /\ UNCHANGED <<up, session, subs, thread, size, left, calls, event, app>>

Subscribe(t) ==
  /\ t \in adding
  /\ SubscribeTo(t) /\ adding' = {}
  /\ UNCHANGED <<up, session, thread, size, left, handlers, calls, event, app>>

-------------------------------------------------------------------------------
(* The rest of the system *)

\* The broker goes away, with every connection, and comes back.
BrokerDown ==
  /\ up /\ up' = FALSE /\ session' = FALSE /\ subs' = {}
  /\ UNCHANGED <<thread, size, left, handlers, adding, calls, event, app>>

BrokerUp ==
  /\ ~up /\ up' = TRUE
  /\ UNCHANGED <<session, subs, thread, size, left, handlers, adding, calls, event, app>>

\* A connection breaks.
Break ==
  /\ session /\ session' = FALSE /\ subs' = {}
  /\ UNCHANGED <<up, thread, size, left, handlers, adding, calls, event, app>>

\* The container of the service is started again.
Relaunch ==
  /\ session' = FALSE /\ subs' = {} /\ thread' = "connecting" /\ size' = 0 /\ left' = {}
  /\ handlers' = {} /\ adding' = {} /\ calls' = <<>> /\ event' = FALSE /\ app' = "waiting"
  /\ UNCHANGED up

-------------------------------------------------------------------------------
(* Properties *)

\* Once _on_connect has returned on a live connection, the broker has a subscription for every
\* handler, also for one that was added while the connection was down or being made
\* (lines 129-131, 142-143).
AllSubscribed ==
  thread = "connected" /\ session => handlers \ adding \subseteq subs

\* When the event loop has run what the callbacks queued, the event says what the last callback
\* saw, however often the connection flapped (lines 144, 150).
EventFollows ==
  calls = <<>> /\ thread \in {"connected", "lost"} => event = (thread = "connected")
===============================================================================
