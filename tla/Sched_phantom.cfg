SPECIFICATION Spec
CONSTANTS
    chat = chat
    class = class
    serial = serial
    ordered = ordered
    bounded = bounded
    key = key
    NoChat = NoChat
    NoClass = NoClass
    NoLane = NoLane
    NoKey = NoKey
    Chats = {chat}
    Classes = {class}
    Lanes = {serial}
    OrderedStart = {}
    Bounded = {}
    MaxInFlight <- NoBound
    Metas <- SerialRequests
    NotBefores = {1}
    LimitSets <- NoLimits
    QueueCapacity = 2
    Highest = 1
    Quantum = 1
    RetryAfters = {}
    MaxJobs = 3
    MaxCalls = 0
INVARIANTS NoPhantomLock
CHECK_DEADLOCK FALSE
