SPECIFICATION Spec
CONSTANTS
  White = {"b"}
  Translucent = {"clear"}
  Degenerate = {"flat"}
  Inputs <- MCInputs
INVARIANTS
  SamePicture
  IndicesAgree
