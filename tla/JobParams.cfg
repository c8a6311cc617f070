CONSTANTS
    Names = {"threads", "tags"}
    Sent <- MCSent
SPECIFICATION Spec
INVARIANTS
    SetParameterIsRead
CHECK_DEADLOCK FALSE
