SPECIFICATION Spec
CONSTANTS
  OctetBits = 8
  StartTemplates <- MCStartTemplates
  NewTemplates <- MCNewTemplates
  RangeCounts = {1, 2}
  Times = {0, 6}
  EnsNumbers <- WithNoChange
  MaxOptions = 2
INVARIANTS
  LibrariesAgree
  SizesAgree
  EndOfRanges
PROPERTY CarriedOver
CHECK_DEADLOCK FALSE
