CONSTANTS
  GroupSize = 8
  DecodeLimit = 12
  BlockBytes = 64
  BlockMax = 16
  TailMin <- MCTailMin
  Rotations = {0, 3, 7}
  Meshes <- MCMeshes
  Calls <- MCCalls

SPECIFICATION Spec

INVARIANTS
  Lossless
  InBounds
