SPECIFICATION Spec
CONSTANTS
    Task = {t1, t2}
    NoTask = noTask
    MaxConcurrentRuns = 1
    MaxRun = 2
    MaxGen = 2
    MaxNow = 1
    MaxEdit = 0
    MaxChain = 2
SYMMETRY Symmetry
INVARIANTS
    
    PolicyInPlace
