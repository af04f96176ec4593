SPECIFICATION Spec
CONSTANTS
  TargetId = "target"
  SUPPORTS = {"NS", "A", "CNAME", "X"}
  Reads <- MCReads
  Record <- MCRecord
  SourceZones <- FileSourceZones
  LiveZones <- FileSourceZones
  NoThreshold = 1000
  ProviderUpdatePcent = 50
  ProviderDeletePcent = 50
  ZoneUpdatePcent = 1000
  ZoneDeletePcent = 1000
  MinExisting = 2
  SupportsRootNs = TRUE
  StrictSupports = TRUE
  Fits <- AllFit
  Reduced <- MCReduced
  RewritesZone = TRUE
PROPERTIES
  RootNsNeedsForce
