CONSTANTS
    Jobs = {1}
    MaxConcurrency = 1
    Timeouts = {TRUE}
    LongPolling = TRUE
    NoJob = NoJob
SPECIFICATION Spec
INVARIANTS
    SurvivesShutdown
CHECK_DEADLOCK FALSE
