SPECIFICATION Spec
CONSTANTS
    Turn = {t1, t2, t3}
    MaxEdits = 2
    None = None
    Faults = {"commit", "rollback", "recovery", "close"}
INVARIANT TypeOK
PROPERTY RewritesAlone
