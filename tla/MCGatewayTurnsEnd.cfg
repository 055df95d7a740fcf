SPECIFICATION Spec
CONSTANTS
    Run = {r1, r2}
    RunId <- MCRunId
    RestoreId = "restore"
    None = none
CHECK_DEADLOCK FALSE
PROPERTIES
    HardTimeoutFrees
    RunsEnd
