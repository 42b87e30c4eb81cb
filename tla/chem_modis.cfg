SPECIFICATION Spec
CONSTANTS
  r1 = r1  r2 = r2
  Runs = {r1}
  DATA <- OwnDirectory
  SENDCOM = {r1}
  tiles = 1
  days = 1
  gbbepx_list <- OneFile
  GbbepxInout <- ListBC
  StaticInout <- ListPlume
  FireFiles <- DocumentedFires
  NoFile = NoFile
INVARIANT ModisFound
