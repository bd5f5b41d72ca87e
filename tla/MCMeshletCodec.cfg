SPECIFICATION Spec
CONSTANTS
  Width = 16
  ShortWidth = 8
  GroupBits = 7
  ByteBits = 4
  Lists <- MCLists
  Levels = {0, 1, 3}
  CacheSize = 8
  Ticks = 8
  Calls <- MCCalls
INVARIANTS
  SameTriangles
  RoundTrip
  InBounds
