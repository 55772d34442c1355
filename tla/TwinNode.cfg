SPECIFICATION FairSpec
CONSTANTS
  h1 = h1 h2 = h2 boot = boot c1 = c1 c2 = c2
  Handlers <- TwoHandlers
  Boot = boot
  Clients = {}
  Ttl = 1
  MaxFailures = 1
  MaxCalls = 2
INVARIANTS AllSubscribed EventFollows
PROPERTY Resumes
