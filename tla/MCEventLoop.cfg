SPECIFICATION Spec
CONSTANTS
    Loop = l
    Callers = {p1, p2}
    Tasks = {t1, t2, t3}
    MaxQuits = 2
INVARIANTS
    TypeOK
    NoLostWakeup
    EdgeNotConsumed
PROPERTIES
    ImplementsTaskQueue
    QuitReturns
CHECK_DEADLOCK FALSE
