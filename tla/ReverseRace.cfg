SPECIFICATION Spec
CONSTANTS
    a = a
    b = b
    Channels = {a, b}
    NoCh = NoCh
    NoPair = NoPair
    Pair <- NoHotPair
    PairKnown <- Either
    MaxUp = 2
    MaxDown = 2
    MaxFail = 1
VIEW Live
SYMMETRY Symmetry
INVARIANTS ReverseRoutes 
 
CHECK_DEADLOCK FALSE
