SPECIFICATION Spec
CONSTANTS
  Tasks = {idle, a, b}
  Idle = idle
  Initial = {idle, a, b}
  Events = {"queue"}
  MaxPrio = 2
  MaxTick = 2
  MaxPended = 2
  MaxNest = 1
  CatchUp = FALSE
SYMMETRY Symmetry
VIEW View
INVARIANTS
  TypeOK
  DelayListsOK
  NoTickLost
  SchedulerRecords
  ListItemsAgree
  CurrentIsReady
  HighestPriorityRuns
PROPERTY NeverEarly
