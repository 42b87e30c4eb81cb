SPECIFICATION Spec
CONSTANTS
  None = None
  Vectors <- McVectors
  Projected <- McProjected
  Rotated <- McRotated
  Forward <- McForward
  Apart <- McApart
  Near <- McNear
  Interpolated <- McInterpolated
  Oriented <- McOriented
  Quotient <- McQuotient
  Libm <- McLibm
  CosLat <- McCosLat
  DaysInMonth <- McDaysInMonth
  StaleRows = {0, 1, 7}
  RandomNumbers = {0, 5}
  UnsetRanges = {0, 4}
  Jobs <- McJobs
INVARIANTS
  Selected
  ValuesCurrent
  SeriesRight
  PeriodsRight
  VectorsRight
  CalculatedRight
  SubsetRight
  NetcdfRight
  NetcdfAxes
