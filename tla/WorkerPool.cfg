\* Two slots, a queue of two and three jobs: the queue fills when the
\* dispatcher lags, the slots fill, and a caller of Shutdown races one of
\* ShutdownNow. No symmetry, for temporal properties are checked.
CONSTANTS
    Jobs = {j1, j2, j3}
    Graceful = {g}
    Forced = {f}
    SizeArg = 2
    QueueArg = 2
SPECIFICATION FairSpec
INVARIANTS
    TypeOK
    ExecutingWithinSize
    ActiveCoversExecuting
    ShutdownDrains
    ReportedOnce
    GracefulNeverCancels
PROPERTIES
    ImplementsContract
    ShutdownReturns
    QueuedJobsFinish
\* The pool really stops: all calls have returned, or the process has died.
CHECK_DEADLOCK FALSE
