SPECIFICATION FairSpec
CONSTANTS
  NumUnits = 1
  Cooldown <- Cooldowns
  BalanceCooldown = 2
  Threshold = 1
  Interval = 1
INVARIANTS
  BoundedExposure
PROPERTIES
  AppliedWhole
  ShutdownRecurs
