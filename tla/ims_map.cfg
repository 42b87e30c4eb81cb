SPECIFICATION Spec
CONSTANTS
  N = 4
  Q = 4
  Radius = 2
  Masks <- FewLand
  ModelPoints <- AllPoints
  npoints = 2
  Uninit <- Garbage
  Zero = Zero
INVARIANTS ClosestRing
