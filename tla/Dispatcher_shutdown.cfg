SPECIFICATION FairSpec
CONSTANTS
  a = a
  b = b
  c1 = c1
  NoKey = NoKey
  Unroutable = Unroutable
  Keys = {a, b}
  Callers = {c1}
  Routes <- NoUpdates
  MaxUpdates = 0
  Limit = 2
  DropChoices = {FALSE}
  MaxFaults = 1
  QueueSize = 1
  MaxTasks = 0
  MaxDeaths = 0
  MaxRuns = 1
PROPERTIES ShutdownEnds
CHECK_DEADLOCK FALSE
