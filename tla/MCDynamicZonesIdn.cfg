SPECIFICATION Spec
CONSTANTS
  None = None
  Spelling <- MCSpelling
  IdnaEncode <- Spelled
  Utf8 = {"utf8"}
  ArpaZones <- MCArpaZones
  Source <- MCSource
  Listers <- MCListers
  Target = {"t1", "t2"}
  ConfigId <- MCConfigId
  Config <- MCConfig
  Setups <- MCSetupsIdn
  Listings <- MCListingsIdn
  Filters <- MCFilters
  MaxCalls = 1
PROPERTIES
  ClaimsStand
CHECK_DEADLOCK FALSE
