\* The errors of transport.Client, which wraps what the RPC returned.
CONSTANTS
    Errors <- MCErrors
    MaxAttempts = 5
    InitialBackoff = 4
    MaxBackoff = 240
    BackoffMultiplier = 2
    Jitter = FALSE
    RetryableStatusCodes = {"429", "502"}
SPECIFICATION Spec
INVARIANTS
    TransientIsRetried
CHECK_DEADLOCK FALSE
