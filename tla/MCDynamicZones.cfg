SPECIFICATION Spec
CONSTANTS
  None = None
  Spelling <- MCSpelling
  IdnaEncode <- Spelled
  Utf8 = {"utf8"}
  ArpaZones <- MCArpaZones
  Source <- MCSource
  Listers <- MCListers
  Target = {"t1", "t2"}
  ConfigId <- MCConfigId
  Config <- MCConfig
  Setups <- MCSetups
  Listings <- MCListings
  Filters <- MCFilters
  MaxCalls = 3
INVARIANTS
  FirstClaims
  NamesHaveOneHome
CHECK_DEADLOCK FALSE
