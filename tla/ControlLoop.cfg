SPECIFICATION FairSpec
CONSTANTS
  r1 = r1
  u1 = u1
  u2 = u2
  Replicas <- OneReplica
  Units <- TwoUnits
  RateTtl <- OneTick
  Interval <- TwoTicks
  ShutdownCooldown <- ThreeTicks
  FanCooldown <- ThreeTicks
  Classes <- HotOrOff
  Edited <- OneTextRule
  MaxFailures = 1
INVARIANT ShutdownNotLimited
PROPERTIES Spaced ShutdownRecurs
