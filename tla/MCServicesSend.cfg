SPECIFICATION Spec
CONSTANTS
  writer = writer
  reader = reader
  one = one
  two = two
  three = three
  none = none
VIEW View
CHECK_DEADLOCK FALSE
INVARIANT SendersCovered
