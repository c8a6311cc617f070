\* A merge request of GitLab as the tests of buildRefSpecs have it.
CONSTANTS
    Repositories <- MergeRequests
    Fork = 2
    Lengths = {1}
    MaxPushes = 0
SPECIFICATION Spec
INVARIANT ScansMergeRequest
CHECK_DEADLOCK FALSE
