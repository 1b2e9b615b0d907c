SPECIFICATION Spec
CONSTANTS
    chat = chat
    class = class
    serial = serial
    ordered = ordered
    bounded = bounded
    key = key
    NoChat = NoChat
    NoClass = NoClass
    NoLane = NoLane
    NoKey = NoKey
    Chats = {chat}
    Classes = {class}
    Lanes = {}
    OrderedStart = {}
    Bounded = {}
    MaxInFlight <- NoBound
    Metas <- ChatRequests
    NotBefores = {}
    LimitSets <- ChatLimits
    QueueCapacity = 3
    Highest = 1
    Quantum = 1
    RetryAfters = {}
    MaxJobs = 4
    MaxCalls = 0
INVARIANTS HoldsLastUntilTheNextFits
CHECK_DEADLOCK FALSE
