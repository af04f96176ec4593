SPECIFICATION Spec
CONSTANTS
  TargetId = "target"
  SUPPORTS = {"NS", "A", "CNAME", "TXT"}
  Reads <- MCReads
  Zones <- MCZones
  Chains <- MCMetaFirst
  Sources <- NoSources
  Lives <- ForeignLives
  Others <- NoOthers
  MaxRuns = 2
  MetaValues <- MCTimes
  Rendered <- MCNothing
  ValidText <- MCValidText
  SpfTerms <- MCNothing
  Published <- MCNothing
  LookupLimit = 2
PROPERTIES
  Quiet
CHECK_DEADLOCK FALSE
