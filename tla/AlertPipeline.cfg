SPECIFICATION FairSpec
CONSTANTS
  h1 = h1
  h2 = h2
  Handlers <- TwoHandlers
  NumKinds = 2
  Ttl <- TwoTicks
  Many = 1
  MaxFailures = 2
INVARIANTS OncePerWindow KeyIsBacked
PROPERTY Recurs
