SPECIFICATION TinySpec
CONSTANTS
  None = None
  one = one
  two = two
  NoTtl = NoTtl
  EmptyTtl = EmptyTtl
  TinyZones <- MCZones
  Line <- MCLine
  Added <- MCAdded
  File <- MCFile
  InitialTexts <- MCInitialTexts
  MaxEdits = 1
  ReversePointer <- MCReversePointer
  Ignored = "0.0"
  Registered = {"A", "AAAA", "CNAME", "MX", "NS", "PTR", "SRV", "TXT"}
  SingleValue = {"CNAME"}
  Default = 3600
SYMMETRY MCSymmetry
INVARIANTS
  BothWays
  AnyOrder
  DelegationsAgree
CHECK_DEADLOCK FALSE
