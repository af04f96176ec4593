SPECIFICATION Spec
CONSTANTS
  Name <- MCName
  CatchAllNames = {"", "*"}
  CatchAll = "$"
  Slashed = {"0/25"}
  Value = {1, 2}
  Forms = {"utf8", "idna"}
  Options <- MCOptions
  Directories <- MCDirectories
  MaxRuns = 3
INVARIANTS
  OneFileToMend
  ReadsBack
CHECK_DEADLOCK FALSE
