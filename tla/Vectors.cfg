CONSTANTS
  Obj = {o1, o2}
  v1 = v1
  v2 = v2
  Value = {v1, v2}
  Raw = Raw
  Husk = Husk
  Clash = Clash
  Stale = Stale
  Arch = "sse2"
SPECIFICATION Spec
INVARIANTS
  SlotsHeld
  LanesRight
  QueriesRight
PROPERTIES
  ImplementsSequence
CHECK_DEADLOCK FALSE
