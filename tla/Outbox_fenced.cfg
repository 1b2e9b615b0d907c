SPECIFICATION Spec
CONSTANTS
  k1 = k1
  k2 = k2
  w1 = w1
  w2 = w2
  w3 = w3
  Keys = {k1}
  Workers = {w1, w2, w3}
  WorkerId <- SharedWorkerId
  MaxAttempts <- Attempts2
  MaxInFlight = 1
  LeaseFor = 2
  EnqueueDelays = {0, 1}
  SchedulerRetryDelay = 1
  RetryAfterDelay = 2
  BackoffBase = 1
  BackoffMax = 1
  Stoppable = {}
  Punctual = FALSE
  MaxAge = 0
  MaxToken = 4
  MaxFaults = 1
SYMMETRY WorkerSymmetry
INVARIANTS TypeOK ExecutionsBounded ExhaustedMeansSpent CompletedMeansAccepted OneHolder
PROPERTIES ImplementsDelivery LeaseProtects
