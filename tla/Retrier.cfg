CONSTANTS
    Errors <- MCErrors
    MaxAttempts = 4
    InitialBackoff = 4
    MaxBackoff = 10
    BackoffMultiplier = 2
    Jitter = TRUE
    RetryableStatusCodes = {"429", "502"}
SPECIFICATION FairSpec
INVARIANTS
    TypeOK
    ResultExplained
    PausesFollowPolicy
PROPERTIES
    DoReturns
\* Do returns.
CHECK_DEADLOCK FALSE
