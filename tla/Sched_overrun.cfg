SPECIFICATION Spec
CONSTANTS
    chat = chat
    class = class
    serial = serial
    ordered = ordered
    bounded = bounded
    key = key
    NoChat = NoChat
    NoClass = NoClass
    NoLane = NoLane
    NoKey = NoKey
    Chats = {chat}
    Classes = {class}
    Lanes = {bounded}
    OrderedStart = {}
    Bounded = {bounded}
    MaxInFlight <- TwoAtOnce
    Metas <- BoundedRequests
    NotBefores = {}
    LimitSets <- NoLimits
    QueueCapacity = 3
    Highest = 1
    Quantum = 1
    RetryAfters = {}
    MaxJobs = 5
    MaxCalls = 0
INVARIANTS PermitsAreBounded
CHECK_DEADLOCK FALSE
