SPECIFICATION SafeSpec
CONSTANTS
    Buffers = {b1, b2, b3, b4}
    NoBuffer = NoBuffer
    Size = 2
    FlushEveryN = 3
    Burst = 3
    MaxLines = 4
    MaxFailures = 0
SYMMETRY Symmetry
CHECK_DEADLOCK FALSE
INVARIANTS
    BufferHolds
