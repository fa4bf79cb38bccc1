CONSTANTS
  t1 = t1
  t2 = t2
  t3 = t3
  n1 = n1
  n2 = n2
  n3 = n3
  n4 = n4
  Thread = {t1, t2, t3}
  Node = {n1, n2, n3, n4}
  Key = {1, 2, 3}
  MaxLevel = 1
  SizeMod = 8
  Null = Null
  HeadNode = HeadNode
  Uninit = Uninit
  Work <- EraseWork
  MaxCalls = 1
  Built <- Two
SPECIFICATION BuiltSpec
SYMMETRY FreeNodes
INVARIANTS
  NoLiveNodeLost
  MarkOrder
  RetiredOnce
  FreedOnce
PROPERTIES
  FrozenLinks
CHECK_DEADLOCK FALSE
