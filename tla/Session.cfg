\* Two goroutines with any methods; six failures reach the cap of the backoff,
\* and a job that is put back is handed out a second time.
CONSTANTS
    Callers = {c1, c2}
    Jobs = {j1, j2}
    NoJob = NoJob
    SyncDispatcher = TRUE
    LongPolling = FALSE
    MaxFailures = 6
    MaxRequeues = 1
    MaxAttempts = 3
    InitialBackoff = 4
    MaxBackoff = 6
    BackoffMultiplier = 2
    Jitter = TRUE
    RetryableStatusCodes = {"429", "502"}
SPECIFICATION FairSpec
INVARIANTS
    TypeOK
    OneShot
    HandledOnce
    BackoffFollowsFailures
PROPERTIES
    MethodsReturn
\* The methods return.
CHECK_DEADLOCK FALSE
