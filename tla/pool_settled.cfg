SPECIFICATION SettledSpec
CONSTANTS
    MaxThreads = 3
    UintMax = 3
    Jobs = {j1, j2}
    NoJob = NoJob
INVARIANTS JobsOnlyInside OncePerDispatch AccountExact NoThreadLeaked IInv
PROPERTIES WaitMeansDone FailureIsQuiet ImplementsForkJoin
