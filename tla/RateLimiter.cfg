SPECIFICATION LimiterSpec
CONSTANTS
  r1 = r1 r2 = r2
  Tasks <- TwoTasks
  Rate = 2
  Window = 3
  Lag = 1
  MaxTime = 7
  MaxRequests = 5
INVARIANT Limited
PROPERTY Forgiving
