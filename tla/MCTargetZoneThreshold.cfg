SPECIFICATION Spec
CONSTANTS
  TargetId = "target"
  SUPPORTS = {"NS", "A", "CNAME"}
  Reads <- MCReads
  Record <- MCRecord
  SourceZones <- FileSourceZones
  LiveZones <- FileSourceZones
  NoThreshold = 1000
  ProviderUpdatePcent = 50
  ProviderDeletePcent = 50
  ZoneUpdatePcent = 1000
  ZoneDeletePcent = 25
  MinExisting = 2
  SupportsRootNs = TRUE
  StrictSupports = TRUE
  Fits <- MCFits
  Reduced <- MCReduced
  RewritesZone = FALSE
PROPERTIES
  ZoneThresholdHonoured
