SPECIFICATION FairSpec
CONSTANTS
    Degree = 2
    MaxThreads = 3
    CoordNorms = {0, 1}
    NormTop = 5
    Junk = Junk
    Keys = {k1, k2}
    Messages = {m1}
    Rand = {r1}
    MaxNorm = 2
    CounterMod = 4
    Threads = {1, 2, 3}
INVARIANTS HawkInv
PROPERTIES SplitExact SignReturns
