SPECIFICATION Spec
CONSTANTS
    Command = {w1, w2, r1}
    SideEffect = {w1, w2}
    MaxConn = 2
    Nobody = Nobody
CHECK_DEADLOCK FALSE
INVARIANTS
    TypeOK
    ResultIsOwn
PROPERTIES
    ImplementsContract
    EveryCallReturns
