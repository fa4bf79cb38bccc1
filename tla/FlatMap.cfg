CONSTANTS
  k1 = k1
  k2 = k2
  k3 = k3
  k4 = k4
  Key = {k1, k2, k3, k4}
  Value = {a, b}
  Home <- SmallHome
  Fingerprint <- SmallPrint
  MinBuckets = 4
  MaxBuckets = 8
  LoadNum = 3
  LoadDen = 4
SPECIFICATION Spec
INVARIANTS
  WellPlaced
  LookupsRight
PROPERTIES
  ImplementsMap
  TakesOnlyAsked
CHECK_DEADLOCK FALSE
