SPECIFICATION Spec
CONSTANTS
  TargetId = "target"
  SUPPORTS = {"NS", "A", "CNAME", "TXT"}
  Reads <- MCReads
  Zones <- MCZones
  Chains <- MCAcme
  Sources <- SharedSources
  Lives <- SharedLives
  Others <- SharedOthers
  MaxRuns = 2
  MetaValues <- MCMetaValues
  Rendered <- MCNothing
  ValidText <- MCValidText
  SpfTerms <- MCNothing
  Published <- MCNothing
  LookupLimit = 2
PROPERTIES
  ChallengesKeptByZone
CHECK_DEADLOCK FALSE
