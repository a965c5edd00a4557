SPECIFICATION FairSpec
CONSTANTS
  Full = 6
  Height <- MCHeight
  VblankMin = 2
  VmaxMax = 9
  Shr0Min = 2
  ExposureMin = 1
  Exposure <- MCExposure
  Vblank <- MCVblank
  MaxLost = 1
INVARIANTS
  RangesCoherent
  ProgrammedAsAsked
  PowerBalanced
PROPERTIES
  Suspends
