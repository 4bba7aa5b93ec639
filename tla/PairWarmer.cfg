SPECIFICATION Spec
CONSTANTS
    Channels = {1, 2}
    NoCh = 0
    Keys = {k1, k2, k3, k4}
    NoKey = NoKey
    MaxFail = 1
    PairCount = 2
    Conns = {d1}
SYMMETRY Symmetry
INVARIANTS
    QueueSound
    DiscardUnused
    PrimaryElected
    RefsCovered
VIEW ListView
