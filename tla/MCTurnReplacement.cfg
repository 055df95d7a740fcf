SPECIFICATION Spec
CONSTANTS
    Turn = {t1, t2, t3, t4}
    MaxEdits = 2
    None = None
    Faults = {}
INVARIANTS  NoStaleBackup
PROPERTIES  EditSettles
