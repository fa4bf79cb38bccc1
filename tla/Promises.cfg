CONSTANTS
  Key = {1, 2, 3, 4, 5, 6, 7, 8, 9}
  UniqueKey = {1, 2, 3, 4, 5, 6, 7, 8, 9}
  MultiKey = {1, 2, 3}
  LeafSlots = 3
  InternalSlots = 2
  MaxSize = 13
  ListKey = {1, 2, 3}
  MaxLevel = 2
  k1 = k1
  k2 = k2
  k3 = k3
  k4 = k4
  HashKey = {k1, k2, k3, k4}
  Value = {a}
  Hash <- TwinHash
  Tag <- TwinTag
  GroupWidth = 2
  MinCapacity = 2
  MaxCapacity = 8
  Empty = Empty
  Deleted = Deleted
  NoEntry = NoEntry
  NoObject = NoObject
  Husk = Husk
  Clash = Clash
  Dead = Dead
  DefaultCapacity = 8
  GrowthFactor = 2
  ShiftThreshold = 4
  MaxBuffer = 8
  MaxLength = 5
SPECIFICATION Spec
INVARIANTS
  SomeAsCommented
CHECK_DEADLOCK FALSE
