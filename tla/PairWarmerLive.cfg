SPECIFICATION FairSpec
CONSTANTS
    Channels = {1, 2}
    NoCh = 0
    Keys = {k1, k2}
    NoKey = NoKey
    MaxFail = 0
    PairCount = 1
    Conns = {d1}
PROPERTIES
    DrainedReclaimed
    Announced
INVARIANT ReadyBound
