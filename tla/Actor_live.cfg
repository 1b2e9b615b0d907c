SPECIFICATION FairSpec
CONSTANTS
  a1 = a1
  a2 = a2
  serial = serial
  ordered = ordered
  slot = slot
  NoLane = NoLane
  NoSlot = NoSlot
  Acquires = {a1, a2}
  Lanes = {serial, ordered}
  OrderedStart = {ordered}
  Slots = {slot}
  Metas <- SlotRequests
  QueueCapacity = 1
  DrainBatch = 1
  MaxCalls = 1
  MayPanic = TRUE
CHECK_DEADLOCK FALSE
PROPERTIES NobodyHangs
