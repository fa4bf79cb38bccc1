CONSTANTS
  Key = {1,2,3,4,5,6,7,8}
  UniqueKey = {1,2,3,4,5,6,7,8}
  MultiKey = {1, 2}
  LeafSlots = 3
  InternalSlots = 2
  MaxSize = 10
  WideKey = {1, 2, 3, 4, 5, 6}
  WideSlots = 4
  WideMaxSize = 8
  ListKey = {1, 2, 3}
  MaxLevel = 2
  Width = 2
  MaxSlots = 8
  Builds = {"avx2", "sse2", "neon", "plain"}
  MaxByte = 4
  Cap = 1
  Room4 = 2
  Room16 = 3
  Room48 = 4
  Few16 = 2
  Few48 = 2
  Few256 = 3
SPECIFICATION Spec
INVARIANTS
  WellShaped
  ReadsRight
  ReturnsRight
PROPERTIES
  ImplementsMap
CHECK_DEADLOCK FALSE
