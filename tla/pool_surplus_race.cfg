SPECIFICATION PromptSpec
CONSTANTS
    MaxThreads = 2
    UintMax = 7
    Jobs = {j1}
    NoJob = NoJob
INVARIANTS OncePerDispatch
CHECK_DEADLOCK FALSE
