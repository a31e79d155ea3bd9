SPECIFICATION Spec
CONSTANTS
    NumThreads = 3
    MaxFailures = 1
CHECK_DEADLOCK FALSE
INVARIANTS
    TypeOK
    LoopsAreThere
PROPERTIES
    StartReturns
    QuitEndsLoop
