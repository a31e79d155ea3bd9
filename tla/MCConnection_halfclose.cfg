SPECIFICATION SafeSpec
CONSTANTS
    Fds = {f1}
    NoFd = NoFd
    MaxIn = 2
    MaxOut = 2
    MaxFailures = 0
INVARIANTS
    OutputIsPolled
