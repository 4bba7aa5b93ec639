SPECIFICATION Spec
CONSTANTS
    Channels = {c1}
    Producers = {p1, p2}
    Closable = {c1}
    Registrars = {r1}
    DataBytes = 17
    CtlBytes = 1
    Limit = 20
    QueueCap = 1
    MaxData = 2
    MaxNested = 2
    NoChannel = NoChannel
SYMMETRY Symmetry
INVARIANT BytesAccounted
CHECK_DEADLOCK FALSE
