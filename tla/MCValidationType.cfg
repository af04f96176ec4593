SPECIFICATION Spec
CONSTANTS
  Type = {"A", "ALIAS", "CAA", "CNAME", "DNAME", "MX", "NS", "SRV", "TXT", "X/ALIAS"}
  All = "*"
  Always = "always"
  Legacy = "legacy"
  Id <- MCId
  Builtins <- MCBuiltins
  Configs <- MCConfigsOneType
  MaxManagers = 2
  DynamicId = "dynamic"
  Subnet <- MCSubnet
  Geo <- MCGeo
  Obey = "obey"
  Default = "default"
  ZoneConfigs <- MCZoneConfigs
  SubZones <- MCSubZones
  Outside <- Ext
  MailMode = "auto"
  MinMx = 2
  CaaPresence = "optional"
INVARIANTS
  DisabledForItsType
CHECK_DEADLOCK FALSE
