CONSTANTS
  Width = 9
  ShortWidth = 5
  GroupBits = 4
  Threshold = 3
  TailSize = 2
  VertexCount = 4
  Inputs <- MCRestartInputs
  MaxIndices = 5
  Calls <- MCRestartCalls

SPECIFICATION Spec

INVARIANT
  BoundSuffices
