SPECIFICATION Spec
CONSTANTS
  TargetId = "target"
  SUPPORTS = {"NS", "A", "CNAME", "TXT"}
  Reads <- MCReads
  Zones <- MCZones
  Chains <- MCChains
  Sources <- MCSources
  Lives <- MCLives
  Others <- MCOthers
  MaxRuns = 2
  MetaValues <- MCMetaValues
  Rendered <- MCRendered
  ValidText <- MCValidText
  SpfTerms <- MCSpfTerms
  Published <- MCPublished
  LookupLimit = 2
INVARIANTS
  PoliciesWithinLimit
PROPERTIES
  OnlyOwned
  ForeignKept
  ChallengesKept
  FilteredStay
  Quiet
CHECK_DEADLOCK FALSE
