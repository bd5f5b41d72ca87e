SPECIFICATION Spec
CONSTANTS
  Inputs <- MCInputs
  CollapseErrors = {1, 2, 4}
  ComponentErrors = {2, 3}
  Infinite = 9
  GridInputs <- MCGridInputs
  Extent = 6
  MaxGrid = 9
  InterpolationPasses = 2
  BisectionPasses = 3
INVARIANTS
  CollapsesAgree
  SameSurface
  GridFits
PROPERTY Terminates
