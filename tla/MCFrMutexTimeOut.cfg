SPECIFICATION Spec
CONSTANTS
  plain = plain
  Tasks = {a, b, c}
  NoTask = NoTask
  Mutexes = {plain, r}
  Recursive = {r}
  MaxPrio = 2
  MaxDepth = 2
  Usages <- OnlyUsage
SYMMETRY Symmetry
VIEW View
CHECK_DEADLOCK FALSE
INVARIANT TimeOutAssertHolds
