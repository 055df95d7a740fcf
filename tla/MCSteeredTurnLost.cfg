SPECIFICATION Spec
CONSTANTS
    Turn = {t1, t2}
    Item = {i1, i2}
    NoTurn = noTurn
    MaxTurns = 2
CHECK_DEADLOCK FALSE
INVARIANTS
    ReturnsRest
