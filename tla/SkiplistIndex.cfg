CONSTANTS
  t1 = t1
  t2 = t2
  t3 = t3
  n1 = n1
  n2 = n2
  n3 = n3
  n4 = n4
  Thread = {t1, t2}
  Node = {n1, n2}
  Key = {1, 2}
  MaxLevel = 2
  SizeMod = 8
  Null = Null
  HeadNode = HeadNode
  Uninit = Uninit
  Work <- TallWork
  MaxCalls = 1
  Built <- None
SPECIFICATION Spec
INVARIANTS
  IndexComplete
CHECK_DEADLOCK FALSE
