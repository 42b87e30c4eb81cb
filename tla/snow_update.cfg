SPECIFICATION Spec
CONSTANTS
  nlon = 3
  nlat = 1
  Surfaces <- LandAndWater
  Backgrounds <- Any
  Garbage <- Memory
  MaxCrashes = 1
  Nowhere = Nowhere
INVARIANTS ImsRespected ParametersConsistent
