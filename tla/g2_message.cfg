SPECIFICATION Spec
CONSTANTS
  OctetBits = 4
  Ids = {id}
  Locals = {loc}
  GridInputs <- MCGrids
  FieldInputs <- MCFields
  Points <- MCPoints
  BitmapInputs <- MCBitmaps
  FieldValues <- MCValues
  Packings = {0, 2, 3, 40, 50, 51}
  MarkerValues = {4}
  ReuseAfterNone = TRUE
  None = none
  MaxSections = 15
INVARIANTS
  SectionOrder
  WgribReadsBack
  GetfldReadsBack
  InfoCounts
PROPERTY
  MessageSpec
