\* Both forms of the wait: with a shutdown timeout scans may ignore
\* everything but drainCtx, without one ("0 = wait forever") they return. With
\* three jobs and a queue of two, Submit blocks when the dispatcher lags.
CONSTANTS
    Jobs = {1, 2, 3}
    MaxConcurrency = 1
    Timeouts = {TRUE, FALSE}
    LongPolling = TRUE
    NoJob = NoJob
SPECIFICATION FairSpec
INVARIANTS
    TypeOK
    DrainKeepsBeating
    ReturnLeavesNoWork
PROPERTIES
    StopMissesNothing
    RunReturns
    PollLoopExits
    PolledJobsSettle
\* The agent really stops: Run has returned, or the process has died.
CHECK_DEADLOCK FALSE
