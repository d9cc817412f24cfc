SPECIFICATION FairSpec
CONSTANTS
  Tasks = {idle, a}
  Idle = idle
  Initial = {idle, a}
  Events = {"queue"}
  MaxPrio = 1
  MaxTick = 2
  MaxPended = 1
  MaxNest = 0
  CatchUp = TRUE
PROPERTY DelaysEnd
