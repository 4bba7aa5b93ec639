SPECIFICATION Spec
CONSTANTS
    c1 = c1
    c2 = c2
    n1 = n1
    n2 = n2
    n3 = n3
    s1 = s1
    s2 = s2
    Channels <- MCChannels
    NoCh = NoCh
    Pair = NoPair
    NoPair = NoPair
    PairKnown <- MCPairKnown
    MaxUp = 1
    MaxDown = 1
    MaxFail = 1
    ListenChannels <- MCChannels
    Specs <- MCSpecs
    NoSpec = NoSpec
    MaxPerClient = 1
    MaxReady = 2
    DialChannels <- MCChannels
    Nodes <- MCNodes
    NoNode = NoNode
    MaxRetries = 5
    FastRetryAttempts = 1
    MaxFastRetry = 3
    BaseDelay = 2
    MaxDelay = 4
    Bytes = {0, 1}
    MaxID = 2
    MetaMod = 3
    PayloadMod = 3
    MaxPart = 3
SYMMETRY Symmetry
INVARIANTS
    SocketsHeld
    DatagramsOnce
    UdpRoutes
    ListenersReclaimed
    LoadsExact
    RetryPace
    RoundTrip
CHECK_DEADLOCK FALSE
