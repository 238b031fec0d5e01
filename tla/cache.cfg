SPECIFICATION FairSpec
CONSTANTS
    TinyLen = 2
    TailMax = 2
    WordMax = 7
    Threads = {t1, t2}
    NoThread = NoThread
    Sigmas = {s1, s2}
    NoSigma = NoSigma
    Cells = {c1, c2}
    NULL = NULL
    Classes = 2
    Platforms <- MCPlatforms
    Values = 4
    MaxWeight = 2
    Slips = {0, 1}
INVARIANTS CacheInv GivenTableSamples
PROPERTIES ImplementsTableMap MutexReleased
