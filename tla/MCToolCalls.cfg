SPECIFICATION Spec
CONSTANTS
    Run = {r1, r2}
    NoRun = noRun
    MaxCall = 3
    Batches <- MCBatches
    MaxConcurrency = 2
SYMMETRY Symmetry
CHECK_DEADLOCK FALSE
INVARIANTS
    TypeOK
    BarrierHolds
    QuestionsReachTheirCall
