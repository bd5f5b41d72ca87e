SPECIFICATION SearchSpec
CONSTANTS
  Inputs <- MCInputs
  MaxSeeds = 3
  AddSeeds = 2
  MaxTreeDepth = 2
  LeafSize = 1
  TreeDepth = 3
  Positions <- MCPositions
INVARIANTS
  Complete
  Bookkeeping
  FindsNearest
PROPERTIES
  BuilderSpec
