\* Two jobs, each with a result and a log goroutine at a time.
CONSTANTS
    Jobs = {j1, j2}
    Agent = agent
    AgentToken = "rat"
    Results <- SomeResults
    BatchSize = 2
    MaxResults = 1
    MaxLogs = 1
SPECIFICATION Spec
INVARIANTS
    TypeOK
    OwnCredentials
    ImportsComplete
\* A job ends, and the environment may.
CHECK_DEADLOCK FALSE
