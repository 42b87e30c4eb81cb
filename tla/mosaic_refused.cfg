SPECIFICATION FairSpec
CONSTANTS
  edge = edge  a = a  b = b
  tversion = 4
  npe = 2
  maxcores = 3
  maxfile = 3
  maxlvl = 2
  levelheight <- MCLevelheight
  Column <- MCColumn
  Interior <- MCInterior
  W = 4
  TileChoices <- Tiles4
  Filelists <- NoList
  Uninit <- Garbage
  NoFile = NoFile
PROPERTIES Refusal
