SPECIFICATION Spec
CONSTANTS
  a1 = a1
  a2 = a2
  serial = serial
  ordered = ordered
  slot = slot
  NoLane = NoLane
  NoSlot = NoSlot
  Acquires = {a1, a2}
  Lanes = {serial, ordered}
  OrderedStart = {ordered}
  Slots = {slot}
  Metas <- LaneRequests
  QueueCapacity = 1
  DrainBatch = 3
  MaxCalls = 1
  MayPanic = TRUE
INVARIANTS PermitsAreNeverLost BooksAgree LanesExclude EndedAcquiresLeaveNothing
PROPERTIES CompletionsApplyFirst
CHECK_DEADLOCK FALSE
SYMMETRY AcquireSymmetry
