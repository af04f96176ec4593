SPECIFICATION Spec
CONSTANTS
  Record <- MCRecord
  SubZones <- MCSubZones
  MaxZones = 3
  SharedWrites = FALSE
INVARIANTS
  RootNsAgrees
PROPERTIES
  RefusalKeepsRecords
  CopiesAreSnapshots
CHECK_DEADLOCK FALSE
