SPECIFICATION SettledSpec
CONSTANTS
    MaxThreads = 2
    UintMax = 7
    Jobs = {j1}
    NoJob = NoJob
PROPERTIES WaitReportsShutdown
