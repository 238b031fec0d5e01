SPECIFICATION Spec
CONSTANTS
    BlockCount = 4
    MaxThreads = 3
    Cpus = 2
    Settings = {3}
    Norms = {1}
    NormMax = 8
PROPERTIES CountersCoverCall
