SPECIFICATION Spec
CONSTANTS
    Run = {r1, r2, r3}
    RunId <- MCRunId
    RestoreId = "restore"
    None = none
SYMMETRY Symmetry
CHECK_DEADLOCK FALSE
INVARIANTS
    TypeOK
    OwnsSlot
    NoSharedSession
    NoLeakedSession
    RestoresAlone
PROPERTIES
    Handover
    HandsOutCurrent
