SPECIFICATION FairSpec
CONSTANTS
    a = a
    b = b
    Channels = {a, b}
    NoCh = NoCh
    NoPair = NoPair
    Pair <- HotPair
    PairKnown <- Either
    MaxUp = 1
    MaxDown = 2
    MaxFail = 1
    Refused <- Never
    PendingCap = 1
INVARIANT RouteAgreement
   
CHECK_DEADLOCK FALSE
