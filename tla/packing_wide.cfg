SPECIFICATION Spec
CONSTANTS
  Inc = 1
  Before = 999999
  Boxes = 0
  LenSecMax = 3
  LenBits = 2
  LenBitsEnd = 5
  GroupWidth = 3
  None = None
  Second = Second
  Jobs <- WideJobs
  UnsetRef <- MCUnsetRef
INVARIANT RetainedExactly
