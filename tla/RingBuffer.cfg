CONSTANTS
  Ring = {r1, r2}
  Value = {a, b}
  Dead = Dead
  None = None
  N = 3
SPECIFICATION Spec
INVARIANTS
  WindowLive
PROPERTIES
  ImplementsQueue
CHECK_DEADLOCK FALSE
