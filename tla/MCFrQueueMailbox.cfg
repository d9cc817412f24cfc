SPECIFICATION FairSpec
CONSTANTS
  Tasks = {a, b}
  Urgent = {}
  NoTask = NoTask
  Priority <- MCPriority
  Items = {x}
  Length = 1
  Usages <- Mailbox
PROPERTY IsQueue
PROPERTY TimeOutsJustified
PROPERTY QueueGetsOn
