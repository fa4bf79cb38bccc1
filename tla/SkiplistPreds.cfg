CONSTANTS
  t1 = t1
  t2 = t2
  t3 = t3
  n1 = n1
  n2 = n2
  n3 = n3
  n4 = n4
  Thread = {t1, t2, t3}
  Node = {n1, n2, n3}
  Key = {1, 2}
  MaxLevel = 1
  SizeMod = 8
  Null = Null
  HeadNode = HeadNode
  Uninit = Uninit
  Work <- RaceWork
  MaxCalls = 1
  Built <- None
SPECIFICATION Spec
INVARIANTS
  PredsKnown
CHECK_DEADLOCK FALSE
