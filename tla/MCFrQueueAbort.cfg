SPECIFICATION Spec
CONSTANTS
  Tasks = {a, b}
  Urgent = {}
  NoTask = NoTask
  Priority <- MCPriority
  Items = {x}
  Length = 1
  Usages <- Aborted
SYMMETRY Symmetry
VIEW ViewAborted
PROPERTY TimeOutsJustified
