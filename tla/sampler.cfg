SPECIFICATION FairSpec
CONSTANTS
    BlockCount = 4
    MaxThreads = 3
    Cpus = 2
    Settings = {0, 1, 3, 5}
    Norms = {1, 3}
    NormMax = 8
INVARIANTS CosetMatches NoStrayWorker SampleInv
PROPERTIES ResultExact RangesDisjoint CallReturns
