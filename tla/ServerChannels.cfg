SPECIFICATION RegistrySpec
CONSTANTS
    Clients = {c1, c2}
    Sockets = {s1, s2, s3}
    ConnIDs = {i1}
    maxAllowedChID = 2
    MaxTotalChannels = 2
    MaxChannelsPerClient = 2
    NoSocket = NoSocket
    NoClient = NoClient
    NoMsg = NoMsg
SYMMETRY Symmetry
INVARIANTS IndexAgreement WithinLimits NoStrandedChannel
PROPERTY NoOpenChannelReplaced
CHECK_DEADLOCK FALSE
