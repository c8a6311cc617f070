\* Jobs without a repository, with a cloned one and with an archive, and a
\* handler that may return, fail or panic. A command leaves nothing to the next
\* but its result, so that three stand for any number: one of the checkout that
\* succeeds, a later one that fails, one after an ignored error. A pipe of one
\* line: the child blocks as soon as nobody reads.
CONSTANTS
    Targets = {"none", "git", "archive"}
    MaxCommands = 3
    Scripts <- MCScripts
    PipeSize = 1
    Artifacts <- MCArtifacts
SPECIFICATION FairSpec
INVARIANTS
    TypeOK
    ReportsAreTrue
    HeartbeatBracketsScan
    DirectoryIsRemoved
    OutputComplete
    ScanSeesWholeArchive
PROPERTIES
    NothingOutlivesJob
    UnreportedIsReclaimed
\* A job ends.
CHECK_DEADLOCK FALSE
