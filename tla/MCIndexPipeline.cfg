SPECIFICATION Spec
CONSTANTS
  HashOf <- MCHash
  NegZero = 90
  NaN = 91
  Valences = 4
  CacheSize = 4
  ValenceMax = 3
  Tables <- MCTables
  Threshold <- MCThreshold
  Keys = 2
  AxisBits = 3
  DigitBits = 2
  Passes = 5
  HalfBits = 2
  Meshes <- MCMeshes
  PointOf <- MCPoint
  ClusterSizes = {1, 2, 3, 4}
  Warps <- MCWarps
INVARIANTS
  SamePicture
  Generated
  Bookkeeping
  Chunks
CHECK_DEADLOCK FALSE
