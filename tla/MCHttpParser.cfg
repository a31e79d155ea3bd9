SPECIFICATION Spec
CONSTANTS
    Words <- AllWords
    Streams <- AllStreams
    Noise <- AllNoise
    Deliveries = {"whole", "joined", "any"}
CHECK_DEADLOCK FALSE
INVARIANTS
    Understood
    NothingInvented
    HeadersAreTrue
    ThrowsOnBadLengthOnly
PROPERTY
    Settles
    StaysWithinParses
