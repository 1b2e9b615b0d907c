SPECIFICATION FairSpec
CONSTANTS
  a = a
  b = b
  c1 = c1
  NoKey = NoKey
  Unroutable = Unroutable
  Keys = {a, b}
  Callers = {c1}
  Routes <- TwoUpdates
  MaxUpdates = 2
  Limit = 2
  DropChoices = {TRUE, FALSE}
  MaxFaults = 1
  QueueSize = 1
  MaxTasks = 4
  MaxDeaths = 1
  MaxRuns = 2
INVARIANTS ConfirmedWasGiven NothingVanishes
PROPERTIES KeyOrder ShutdownIsGraceful NoRepeats EveryUpdateIsServed StoppedMeansIdle
CHECK_DEADLOCK FALSE
