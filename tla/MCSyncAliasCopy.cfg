SPECIFICATION Spec
CONSTANTS
  Zones <- MCZones
  AliasOf <- MCAliasOf
  Delayed <- MCDelayed
  SubZoneOf <- MCSubZoneOf
  Length <- MCLength
  Targets <- OneTarget
  AlwaysDryRun = {}
  Options <- CopyOptions
  Versions = 1
  Edited = {"parent.", "sub.parent."}
  MaxRuns = 2
  Unsafe <- MCUnsafe
INVARIANTS
  AliasIsExactCopy
CHECK_DEADLOCK FALSE
