SPECIFICATION Spec
CONSTANTS
  PartitionInputs <- MCPartitionInputs
  LeafSize = 2
  kMergeDepthCutoff = 1
  LodInputs <- MCLodInputs
  MaxTriangles = 2
  PartitionSize = 2
  ThresholdNum = 1
  ThresholdDen = 2
  SimplifyErrors = {1, 3}
  Infinite = 99
  NodeWidths = {2, 3}
  GroupInputs <- MCGroupInputs
  Thresholds = {0, 1, 3, 6, 9}
INVARIANTS
  Partitioned
  ConsistentCut
  NoGaps
  HierarchyExact
