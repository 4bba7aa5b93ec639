SPECIFICATION Spec
CONSTANTS
    a = a
    b = b
    Channels = {a, b}
    NoCh = NoCh
    NoPair = NoPair
    Pair <- HotPair
    PairKnown <- Either
    MaxUp = 2
    MaxDown = 2
    MaxFail = 0
    Refused <- Always
    PendingCap = 2
VIEW Live
INVARIANTS RouteAgreement UplinkOnce
 
CHECK_DEADLOCK FALSE
