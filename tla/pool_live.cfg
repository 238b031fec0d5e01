SPECIFICATION FairSettledSpec
CONSTANTS
    MaxThreads = 2
    UintMax = 3
    Jobs = {j1}
    NoJob = NoJob
PROPERTIES CallsReturn ImplementsFairForkJoin
