SPECIFICATION Spec
CONSTANTS
  r1 = r1  r2 = r2
  Runs = {r1, r2}
  DATA <- OwnDirectory
  SENDCOM = {r1, r2}
  tiles = 2
  days = 2
  gbbepx_list <- OneFile
  GbbepxInout <- ListBC
  StaticInout <- JustPlume
  FireFiles <- NoFires
  NoFile = NoFile
SYMMETRY BothRuns
INVARIANTS PublishedWhole LossBound UsesCompleteDay SuccessPublishes CalmLinkComplete
