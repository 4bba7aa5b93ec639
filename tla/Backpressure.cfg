SPECIFICATION BpFairSpec
CONSTANTS
    Channels = {c1}
    Producers = {p1}
    Closable = {}
    Registrars = {}
    DataBytes = 17
    CtlBytes = 1
    Limit = 20
    QueueCap = 1
    MaxData = 2
    MaxNested = 2
    NoChannel = NoChannel
    Senders = {s1}
    Readers = {c1}
    NetCap = 1
 
PROPERTIES  Recovers
CHECK_DEADLOCK FALSE
