SPECIFICATION FairSpec
CONSTANTS
  m1 = m1 m2 = m2
  Messages <- TwoMessages
  Slots = 2
  Burst = 1
  Wrap = 8
  Timeout = 2
  Heartbeat = 1
  MqttLag = 1
  TaskLag = 1

PROPERTIES Autonomy
