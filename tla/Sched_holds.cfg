SPECIFICATION FairSpec
CONSTANTS
    chat = chat
    class = class
    serial = serial
    ordered = ordered
    bounded = bounded
    key = key
    NoChat = NoChat
    NoClass = NoClass
    NoLane = NoLane
    NoKey = NoKey
    Chats = {chat}
    Classes = {class}
    Lanes = {bounded}
    OrderedStart = {}
    Bounded = {bounded}
    MaxInFlight <- TwoAtOnce
    Metas <- HoldRequests
    NotBefores = {}
    LimitSets <- HoldLimits
    QueueCapacity = 3
    Highest = 1
    Quantum = 1
    RetryAfters = {}
    MaxJobs = 4
    MaxCalls = 0
INVARIANTS NothingIsForgotten
PROPERTIES OwnersAreNotOvertaken EveryJobLeavesTheQueue
CHECK_DEADLOCK FALSE
