SPECIFICATION SafeSpec
CONSTANTS
    Fds = {f1, f2}
    NoFd = NoFd
    MaxIn = 1
    MaxOut = 1
    MaxFailures = 1
SYMMETRY Symmetry
INVARIANTS
    NoDanglingCallback
