SPECIFICATION FairSpec
CONSTANTS
    a = a
    b = b
    Channels = {a, b}
    NoCh = NoCh
    NoPair = NoPair
    Pair <- HotPair
    PairKnown <- Either
    MaxUp = 2
    MaxDown = 2
    MaxFail = 1
INVARIANTS ReverseRoutes 
  
CHECK_DEADLOCK FALSE
