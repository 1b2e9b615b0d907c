SPECIFICATION FairSpec
CONSTANTS
  k1 = k1
  k2 = k2
  w1 = w1
  w2 = w2
  w3 = w3
  Keys = {k1, k2}
  Workers = {w1}
  WorkerId <- OwnWorkerId
  MaxAttempts <- Attempts21
  MaxInFlight = 2
  LeaseFor = 2
  EnqueueDelays = {0}
  SchedulerRetryDelay = 1
  RetryAfterDelay = 2
  BackoffBase = 1
  BackoffMax = 1
  Stoppable = {w1}
  Punctual = TRUE
  MaxAge = 1
  MaxToken = 8
  MaxFaults = 1
INVARIANTS HeartbeatKeepsLease
PROPERTIES OnlyCrashesAbandon EverythingSettles
