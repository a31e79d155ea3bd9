SPECIFICATION Spec
CONSTANTS
    Buffers = {b1, b2, b3, b4}
    NoBuffer = NoBuffer
    Size = 3
    FlushEveryN = 3
    Burst = 3
    MaxLines = 5
    MaxFailures = 1
CHECK_DEADLOCK FALSE
INVARIANTS
    TypeOK
    NoSharedBuffer
    AssertsHold
    StopFlushes
PROPERTIES
    ImplementsTaskQueue
    ReachesDisk
    StopReturns
