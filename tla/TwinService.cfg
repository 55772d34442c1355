SPECIFICATION TwinSpec
CONSTANTS
  h1 = h1 h2 = h2 boot = boot c1 = c1 c2 = c2
  Handlers <- TwoHandlers
  Boot = boot
  Clients <- TwoClients
  Ttl = 1
  MaxFailures = 1
INVARIANTS TwinTypeOK MirrorKeepsUp SilentExpires NobodySkipped
PROPERTY GoneIsRemoved
