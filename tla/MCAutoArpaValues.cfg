SPECIFICATION Spec
CONSTANTS
  Forward <- MCForward
  AliasOf <- MCAliasOf
  Arpa <- MCArpa
  SubZones <- MCSubZones
  At <- MCAt
  Under <- MCUnder
  Static <- MCStatic
  Sources <- MCSources
  Fqdn <- MCFqdn
  Options <- MCOptions
  None <- MCNone
INVARIANTS
  ValuesAsConfigured
CHECK_DEADLOCK FALSE
