CONSTANTS
    Turn = {t1}
    Op = {o1, o2}
    Path = {p1, p2}
    Text = {x1, x2}
    NoText = noText
    Other = other
    MaxStamp = 12
    MaxMishap = 2
SPECIFICATION Spec
SYMMETRY Symmetry
CHECK_DEADLOCK FALSE
INVARIANTS RestoreUndoable
