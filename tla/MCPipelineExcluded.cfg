SPECIFICATION Spec
CONSTANTS
  TargetId = "target"
  SUPPORTS = {"NS", "A", "CNAME", "TXT"}
  Reads <- MCReads
  Zones <- MCZones
  Chains <- MCOwnership
  Sources <- ExcludedSources
  Lives <- ExcludedLives
  Others <- NoOthers
  MaxRuns = 2
  MetaValues <- MCMetaValues
  Rendered <- MCNothing
  ValidText <- MCValidText
  SpfTerms <- MCNothing
  Published <- MCNothing
  LookupLimit = 2
PROPERTIES
  OnlyOwnedForTarget
CHECK_DEADLOCK FALSE
