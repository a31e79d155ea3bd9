SPECIFICATION Spec
CONSTANTS
    NumLoops = 2
    FdLimit = 3
    MAXFDS = 3
    MaxClients = 5
    MaxFailures = 2
CHECK_DEADLOCK FALSE
INVARIANTS
    TypeOK
    OneOwner
    NobodyOverlooked
    KeepsListening
PROPERTY
    ImplementsTaskQueue
