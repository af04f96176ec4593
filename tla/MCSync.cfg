SPECIFICATION Spec
CONSTANTS
  Zones <- MCZones
  AliasOf <- MCAliasOf
  Delayed <- MCDelayed
  SubZoneOf <- MCSubZoneOf
  Length <- MCLength
  Targets <- OneTarget
  AlwaysDryRun = {"alias."}
  Options <- MCOptions
  Versions = 2
  Edited = {"parent.", "sub.parent."}
  MaxRuns = 2
  Unsafe <- MCUnsafe
INVARIANTS
  AllOrNothing
  PtrsComplete
  AliasFollows
PROPERTIES
  ChildrenFirst
  RunSettles
  RunEnds
  ChecksumMatches
CHECK_DEADLOCK FALSE
