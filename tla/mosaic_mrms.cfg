SPECIFICATION FairSpec
CONSTANTS
  edge = edge  a = a  b = b
  tversion = 1
  npe = 3
  maxcores = 2
  maxfile = 3
  maxlvl = 2
  levelheight <- MCLevelheight
  Column <- MCColumn
  Interior <- MCInterior
  W = 4
  TileChoices <- TilesMrms
  Filelists <- Lists
  Uninit <- Zero
  NoFile = NoFile
INVARIANT MergeCorrect
PROPERTIES Termination Delivery
\* The ranks end their program; one that is stuck is what Termination is about.
CHECK_DEADLOCK FALSE
