SPECIFICATION Spec
CONSTANTS
  writer = writer
  reader = reader
  one = one
  two = two
  three = three
  none = none
VIEW View
CHECK_DEADLOCK FALSE
INVARIANTS
  TypesOK
  NotificationsArrive
  SleepersWoken
  EventsArrive
  TimersRight
  InterruptsNest
  StructuresRight
  CoRoutinesRight
PROPERTY BytesInOrder
