SPECIFICATION Spec
CONSTANTS
    chat = chat
    class = class
    serial = serial
    ordered = ordered
    bounded = bounded
    key = key
    NoChat = NoChat
    NoClass = NoClass
    NoLane = NoLane
    NoKey = NoKey
    Chats = {chat}
    Classes = {class}
    Lanes = {ordered}
    OrderedStart = {ordered}
    Bounded = {}
    MaxInFlight <- NoBound
    Metas <- LaneRequests
    NotBefores = {1}
    LimitSets <- LaneLimits
    QueueCapacity = 2
    Highest = 1
    Quantum = 1
    RetryAfters = {1}
    MaxJobs = 3
    MaxCalls = 1
INVARIANTS TypeOK LocksAreHeld DebitsAreExact
PROPERTIES LaneFifo RateRespected FreezeHonoured
CHECK_DEADLOCK FALSE
