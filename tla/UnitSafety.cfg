SPECIFICATION FairSpec
CONSTANTS
  Wrap <- Counter
  MinOff <- Guard
  HwWdt <- ShortWatchdog
  WdPeriod <- OneTick
  EmergencyDelay <- LongDelay
  PidPeriod <- OneTick
  RecvTimeout <- OneTick
  MaxLag = 0
INVARIANTS TypeOK FlagAgrees  NotBlind
PROPERTIES GuardedRestart StopOpensRelay
