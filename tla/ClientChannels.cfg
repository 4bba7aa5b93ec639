SPECIFICATION Spec
CONSTANTS
    c1 = c1
    c2 = c2
    k1 = k1
    k2 = k2
    Channels <- MCChannels
    NoCh = NoCh
    Keys <- MCKeys
    NoKey = NoKey
    ResultCap = 1
    MaxFail = 3
    Senders <- MCChannels
    MaxSessions = 2
    MaxJobs = 2
    QueueCap = 2
    Limit = 3
    MaxAgg = 2
    NoQueue = NoQueue
SYMMETRY Symmetry
INVARIANTS
    ClientBytesAccounted
    WireOrder
PROPERTIES
    Promise
    UplinkClaimed
CHECK_DEADLOCK FALSE
