CONSTANTS
    Targets = {"none"}
    MaxCommands = 0
    Scripts = {}
    PipeSize = 1
    Artifacts = {}
SPECIFICATION FairSpec
PROPERTIES
    AbandonedIsReclaimed
CHECK_DEADLOCK FALSE
