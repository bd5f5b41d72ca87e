CONSTANTS
  Width = 9
  ShortWidth = 5
  GroupBits = 4
  Threshold = 3
  TailSize = 2
  VertexCount = 128
  Inputs <- MCInputs
  MaxIndices = 5
  Calls <- MCCalls

SPECIFICATION Spec

INVARIANTS
  Exact
  InBounds
