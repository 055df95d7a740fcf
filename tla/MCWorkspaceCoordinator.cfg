SPECIFICATION Spec
CONSTANTS
    Op <- MCOp
    Path <- MCPath
    Inside <- MCInside
    Scope <- MCScope
    Kind <- MCKind
    Owner <- MCOwner
    Parent <- MCParent
    NoParent = "none"
INVARIANTS
    TypeOK
    Exclusion
    NoLostWakeup
PROPERTIES
    NoBarging
    RequestsSettle
