CONSTANTS
  k1 = k1
  k2 = k2
  k3 = k3
  k4 = k4
  k5 = k5
  Key = {k1, k2, k3, k4, k5}
  Value = {a, b}
  FewKey = {k1, k2, k3, k4}
  FewValue = {c}
  Hash <- SmallHash
  Tag <- SmallTag
  GroupWidth = 2
  MinCapacity = 2
  MaxCapacity = 8
  Empty = Empty
  Deleted = Deleted
  Raw = Raw
SPECIFICATION TablesSpec
SYMMETRY ValuesAlike
INVARIANTS
  LookupsRight
  InsertsRight
  BudgetKept
  EntriesApart
PROPERTIES
  ImplementsMap
  TakesOnlyAsked
  ApartImplementsMap
CHECK_DEADLOCK FALSE
