SPECIFICATION ScalerSpec
CONSTANTS
  b1 = b1
  b2 = b2
  b3 = b3
  Null = Null
  Buffer <- Buffers
  MinBuffers = 2
  Threshold = 1
  MaxSessions = 2
  MaxGivenUp = 2
SYMMETRY Symmetry
CHECK_DEADLOCK FALSE
INVARIANTS
  ScalerTypes
  RunningHasBuffer
  NothingLost
  HandedOverWhole
