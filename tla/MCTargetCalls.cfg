SPECIFICATION Spec
CONSTANTS
  TargetId = "target"
  SUPPORTS = {"NS", "A", "CNAME"}
  Reads <- MCReads
  Record <- MCRecord
  SourceZones <- MCSourceZones
  LiveZones <- MCLiveZones
  NoThreshold = 1000
  ProviderUpdatePcent = 50
  ProviderDeletePcent = 50
  ZoneUpdatePcent = 1000
  ZoneDeletePcent = 1000
  MinExisting = 2
  SupportsRootNs = TRUE
  StrictSupports = FALSE
  Fits <- MCFits
  Reduced <- MCReduced
  RewritesZone = FALSE
INVARIANTS
  RemainingIsReplan
  CnameStandsAlone
PROPERTIES
  SettledInSync
  HandsOff
  RootNsNeedsForce
  BoundedLoss
