SPECIFICATION FairSpec
CONSTANTS
  u1 = u1 u2 = u2 z1 = z1 z2 = z2 r1 = r1
  hourly = hourly demanded = demanded
  Zones <- TwoZones
  Units <- TwoUnits
  Requests = {r1}
  Hourly = hourly
  Triggered = {}
  Demanded = {demanded}
  Ruls <- Thresholds
  Opaque = {u2}
  MaxFailures = 1
INVARIANTS
  TypeOK AlertedIsRegistered References CountedAsListed
PROPERTY KeepsAnalysing
