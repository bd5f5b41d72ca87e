CONSTANTS
  VertexCount = 4
  Restart = 9
  Capacity = 3
  ValenceMod = 4
  Triangles <- MCTriangles
  MaxTriangles = 4

SPECIFICATION Spec

INVARIANTS
  InStep
  Complete

PROPERTY
  StreamSpec
