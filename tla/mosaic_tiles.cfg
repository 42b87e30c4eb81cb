SPECIFICATION Spec
CONSTANTS
  edge = edge  a = a  b = b
  tversion = 4
  npe = 3
  maxcores = 2
  maxfile = 2
  maxlvl = 2
  levelheight <- MCLevelheight
  Column <- MCColumn
  Interior <- MCInterior
  W = 4
  TileChoices <- Tiles4
  Filelists <- NoList
  Uninit <- Garbage
  NoFile = NoFile
INVARIANTS TypeOK MergeCorrect BufrFaithful NoOutputAfterFailure SuccessIsComplete
PROPERTY MergeSpec
