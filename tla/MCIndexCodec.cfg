CONSTANTS
  FifoSize = 6
  Width = 6
  ShortWidth = 2
  GroupBits = 3
  TailSize = 7
  AuxTable <- MCAuxTable
  VertexCount = 6
  Inputs <- MCInputs
  MaxTriangles = 4
  Calls <- MCCalls
  Garbage <- MCGarbage

SPECIFICATION Spec

INVARIANTS
  TypeOK
  EncodedDecodes
  TruncatedRejected
  BoundSuffices
  InBounds
  Lockstep
  NoFalseReset

PROPERTY
  StreamSpec
