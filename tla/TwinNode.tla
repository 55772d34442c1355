------------------------------- MODULE TwinNode -------------------------------
(***************************************************************************)
(* The process of the digital twin service: TwinService and the MQTT       *)
(* client it runs on.  The service seeds its twin once the client is       *)
(* connected, subscribes when that is done, and receives telemetry while   *)
(* the broker has its subscription.                                        *)
(***************************************************************************)
EXTENDS TwinService

CONSTANT MaxCalls   \* bound: callbacks the event loop has not run yet

ASSUME NodeAssumption == MaxCalls \in Nat \ {0}

VARIABLES
  zone,   \* zone_aggregation_loop
  up, session, subs, thread, size, left, handlers, adding, calls, event, app

Telemetry == "ac/unit/+/telemetry/processed"

M == INSTANCE MqttClient WITH Topics <- {Telemetry}

mqttVars == <<up, session, subs, thread, size, left, handlers, adding, calls, event, app>>
vars == <<zone, twinVars, mqttVars>>

TypeOK == TwinTypeOK /\ M!MqttTypeOK /\ zone \in {"sleep", "publish", "set", "ended"}

Init == TwinInit /\ M!MqttInit /\ zone = "sleep"

\* wait_connected returned: the twins are loaded and seeded.
Boots == StartBoot /\ M!Connected /\ UNCHANGED zone

\* subscribe comes after the seeding.
Subscribes ==
  /\ phase = "ready" /\ UNCHANGED <<zone, twinVars>>
  /\ M!AddHandler(Telemetry) \/ M!Subscribe(Telemetry)

\* A message the client's thread hands to the event loop.
Receives(h) ==
  /\ Telemetry \in subs /\ Telemetry \in handlers /\ thread \in {"resubscribing", "connected"}
  /\ Receive(h) /\ UNCHANGED <<zone, mqttVars>>

\* The zone's state is published, retained, and then cached in Redis.
Aggregate ==
  /\ phase = "ready"
  /\ \/ zone = "sleep" /\ zone' = "publish"
     \/ zone = "publish" /\ zone' = "set"
     \/ zone = "set" /\ zone' = "sleep"
  /\ UNCHANGED <<twinVars, mqttVars>>

\* Nothing catches an exception: the loop has ended.
AggregateFails ==
  /\ phase = "ready" /\ zone \in {"publish", "set"} /\ failures < MaxFailures
  /\ zone' = "ended" /\ failures' = failures + 1
  /\ UNCHANGED <<phase, step, redisVars, castVars, clientVars, mqttVars>>

\* A startup that timed out, or a process that stopped, is started again.
Relaunches ==
  /\ phase = "down" \/ app = "failed"
  /\ RestartTwin /\ M!Relaunch /\ zone' = "sleep"

Serves == ServiceStep /\ UNCHANGED <<zone, mqttVars>>

Connects ==
  /\ UNCHANGED <<zone, twinVars>>
  /\ \/ phase # "down" /\ (M!ClientThread \/ M!RunCall \/ M!StartFails)
     \/ M!BrokerDown \/ M!BrokerUp \/ M!Break

Next ==
  Boots \/ Subscribes \/ (\E h \in Handlers : Receives(h)) \/ Relaunches \/ Serves \/ Connects
  \/ Aggregate \/ AggregateFails

\* Awaited calls return, callbacks run, and the container is started again; nothing is assumed of
\* the broker, the clients or the telemetry.
Fairness ==
  /\ \A t \in Task : WF_vars(Running /\ Persist(t) /\ UNCHANGED <<zone, mqttVars>>)
  /\ \A h \in Handlers : WF_vars(Running /\ Cast(h) /\ UNCHANGED <<zone, mqttVars>>)
  /\ WF_vars(Aggregate)
  /\ WF_vars(Boots) /\ WF_vars(Subscribes) /\ WF_vars(Relaunches)
  /\ WF_vars(UNCHANGED <<zone, twinVars>> /\ phase # "down" /\ M!ClientThread)
  /\ WF_vars(UNCHANGED <<zone, twinVars>> /\ phase # "down" /\ M!RunCall)

Spec     == Init /\ [][Next]_vars
FairSpec == Spec /\ Fairness

-------------------------------------------------------------------------------
(* Properties *)

\* A handler the service has stored is subscribed to on every connection (mqtt_client.py:129-145).
AllSubscribed == M!AllSubscribed

\* The event says what the last callback saw (mqtt_client.py:144, 150).
EventFollows == phase # "down" => M!EventFollows

\* Telemetry comes through: if the connection lasts and neither the client's thread nor the
\* process ends, the service ends up subscribed, so it has seeded its twin although calls of the
\* seeding may fail (lines 207-215; mqtt_client.py:98-99, 129-145).
Resumes ==
  <>[](session /\ thread # "dead" /\ phase # "down") => <>[](Telemetry \in subs)
===============================================================================
