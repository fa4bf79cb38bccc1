CONSTANTS
  Value = {a, b}
  Dead = Dead
  DefaultCapacity = 8
  GrowthFactor = 2
  ShiftThreshold = 4
  Count = {1, 2, 3, 9}
  MaxCapacity = 16
  MaxSize = 5
SPECIFICATION Spec
INVARIANTS
  TypeOK
  WindowLive
  RoomUnlessEmpty
PROPERTIES
  SlackAfterRelocation
  ResizeWithinCapacity
  ReserveMakesRoom
  ImplementsDeque
CHECK_DEADLOCK FALSE
