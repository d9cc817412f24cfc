SPECIFICATION Spec
CONSTANTS
  Tasks = {a, b, c}
  Urgent = {}
  NoTask = NoTask
  Priority <- MCPriority
  Items = {x, y}
  Length = 2
  Usages <- DataAndBlocking
SYMMETRY Symmetry
VIEW View
INVARIANTS TypeOK LockIsHeld WaitersCovered
PROPERTY IsQueue
