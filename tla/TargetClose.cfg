SPECIFICATION FairSpec
CONSTANTS
    a = a
    b = b
    Channels = {a, b}
    NoCh = NoCh
    NoPair = NoPair
    Pair <- NoHotPair
    PairKnown <- Either
    MaxUp = 0
    MaxDown = 1
    MaxFail = 0
    Refused <- Never
    PendingCap = 1
PROPERTY TargetCloseReaches
CHECK_DEADLOCK FALSE
