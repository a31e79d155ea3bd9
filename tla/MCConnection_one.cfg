SPECIFICATION Spec
CONSTANTS
    Fds = {f1}
    NoFd = NoFd
    MaxIn = 2
    MaxOut = 2
    MaxFailures = 2
INVARIANTS
    TypeOK
    Supervised
    OneTimer
    PolledAsNeeded
    EdgeKept
PROPERTIES
    InputIsRead
    OutputIsWritten
    ResetIsCleanedUp
    UsesTimers
