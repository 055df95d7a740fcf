SPECIFICATION Spec
CONSTANTS
    Task = {t1}
    NoTask = noTask
    MaxConcurrentRuns = 1
    MaxRun = 2
    MaxGen = 2
    MaxNow = 1
    MaxEdit = 1
    MaxChain = 2
INVARIANTS
    TypeOK
    
    
    NeverSleeps
    

    
