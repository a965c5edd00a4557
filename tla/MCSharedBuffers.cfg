CONSTANTS
  ae = ae
  iridix = iridix
  linear = linear
  fs_lin = fs_lin
  half = half
  Type <- MCType
  Mode <- MCMode
  Mixed = half
  Lead = ae
  Follow = iridix
  N = 3
  MaxResets = 1
SPECIFICATION FairSpec
INVARIANTS
  PositionsSound
  ItemsOwned
  QuietCalibration
PROPERTIES
  Resumes
  RefinesStatsQueue
