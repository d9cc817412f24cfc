SPECIFICATION FairSpec
CONSTANTS
  main = main
  idle = idle
  a = a
  b = b
  none = none
  sem = sem
  mutex = mutex
  other = other
  Threads <- ThreadsDef
  Idle = idle
  Main = main
  NoThread = none
  Prio <- PrioDef
  Lowest = 2
  TickMod = 8
  Slice = 2
  Waits <- WaitsDef
  Cleanup = {a}
  Lists <- ListsDef
  FifoLists = {}
  Roles <- ShareRole
  MaxNest = 1
  Sems = {sem}
  Mutexes = {mutex, other}
  Msgs = {1}
  BoxSize = 2
  Permits = 1
  MaxPermits = 2
  MaxHold = 2
  Bits = {1, 2}
  Blocks = {1, 2}
  PoolSize = 1
  MaxSuspended = 3
CHECK_DEADLOCK FALSE
PROPERTIES SharesTime TimedCallsEnd
