\* Topic branches of one commit, of as many as the deepening reaches, and of
\* one more.
CONSTANTS
    Repositories <- AllRepositories
    Fork = 2
    Lengths = {1, 180, 181}
    MaxPushes = 1
SPECIFICATION Spec
INVARIANTS
    TypeOK
    ScansNamedCommit
    BaselineShowsOwnChanges
    DeepeningReaches
\* The preparation ends, and the environment with its bounds.
CHECK_DEADLOCK FALSE
